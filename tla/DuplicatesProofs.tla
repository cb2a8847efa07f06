-------------------------- MODULE DuplicatesProofs --------------------------
(***************************************************************************)
(* Theorems about Duplicates, for any memories, callers, strategies and    *)
(* workloads: DupInv is inductive, and the groups that union-find builds   *)
(* are the connected components of the similar pairs.                      *)
(***************************************************************************)
EXTENDS Duplicates, FiniteSetTheorems, WellFoundedInduction, TLAPS

-----------------------------------------------------------------------------
(* Disjoint sets: the groups are the connected components *)

\* A set of numbers that is not empty has a least member: induction, stated
\* with a set.
LEMMA LeastNumber ==
  ASSUME NEW S \in SUBSET Nat, S # {}
  PROVE  \E m \in S : \A k \in S : m <= k
  <1>1. \E R : IsWellFoundedOn(R, Nat) /\ \A x, y \in Nat : x < y => <<x, y>> \in R
    BY NatLessThanWellFounded DEF OpToRel
  <1>2. PICK R : IsWellFoundedOn(R, Nat) /\ \A x, y \in Nat : x < y => <<x, y>> \in R
    BY <1>1
  <1>3. PICK m \in S : \A g \in S : ~(<<g, m>> \in R)
    <2>1. IsWellFoundedOn(R, Nat)
      BY <1>2
    <2>2. QED
      BY <2>1, WFMin
  <1>4. ASSUME NEW k \in S PROVE m <= k
    <2>1. k \in Nat /\ m \in Nat /\ ~(k < m)
      BY <1>2, <1>3
    <2>2. QED
      BY <2>1
  <1>5. QED
    BY <1>4

\* What holds at 0 and is passed on by every step holds up to n: T is the set
\* of the numbers it holds of.
LEMMA StepByStep ==
  ASSUME NEW n \in Nat, NEW T, 0 \in T,
         \A k \in 1 .. n : k - 1 \in T => k \in T
  PROVE  \A k \in 0 .. n : k \in T
  <1> DEFINE S == {k \in 0 .. n : k \notin T}
  <1>1. SUFFICES ASSUME S # {} PROVE FALSE
    OBVIOUS
  <1>2. PICK m \in S : \A k \in S : m <= k
    <2>1. S \in SUBSET Nat
      OBVIOUS
    <2> HIDE DEF S
    <2>2. QED
      BY <1>1, <2>1, LeastNumber
  <1>3. m \in 0 .. n /\ m \notin T
    OBVIOUS
  <1>4. m \in 1 .. n /\ m - 1 \in 0 .. n
    BY <1>3
  <1>5. ~(m <= m - 1)
    BY <1>4
  <1>6. m - 1 \in T
    BY <1>2, <1>4, <1>5
  <1>7. QED
    BY <1>3, <1>4, <1>6

\* f starts at a and G takes it from step to step, within S.
Stepwise(f, S, a, n, G) ==
  /\ f \in [0 .. n -> S] /\ f[0] = a
  /\ \A k \in 1 .. n : f[k] = G[<<f[k - 1], k>>]

\* A function can be defined step by step within a set.
LEMMA StepFunction ==
  ASSUME NEW S, NEW a \in S, NEW n \in Nat, NEW G \in [S \X (1 .. n) -> S]
  PROVE  \E f : Stepwise(f, S, a, n, G)
  <1> DEFINE Upto(m) == \E f \in [0 .. m -> S] :
                          f[0] = a /\ \A k \in 1 .. m : f[k] = G[<<f[k - 1], k>>]
             T == {m \in 0 .. n : Upto(m)}
  <1>1. 0 \in T
    <2> DEFINE f == [k \in 0 .. 0 |-> a]
    <2>1. f \in [0 .. 0 -> S] /\ f[0] = a /\ \A k \in 1 .. 0 : f[k] = G[<<f[k - 1], k>>]
      OBVIOUS
    <2> HIDE DEF f
    <2>2. Upto(0)
      BY <2>1
    <2>3. QED
      BY <2>2
  <1>2. ASSUME NEW m \in 1 .. n, m - 1 \in T PROVE m \in T
    <2>1. PICK f \in [0 .. m - 1 -> S] :
            f[0] = a /\ \A k \in 1 .. m - 1 : f[k] = G[<<f[k - 1], k>>]
      BY <1>2
    <2> DEFINE g == [k \in 0 .. m |-> IF k = m THEN G[<<f[m - 1], m>>] ELSE f[k]]
    <2>2. G[<<f[m - 1], m>>] \in S
      BY <1>2
    <2>3. g \in [0 .. m -> S] /\ g[0] = a
      BY <2>1, <2>2
    <2>4. \A k \in 1 .. m : g[k] = G[<<g[k - 1], k>>]
      <3>1. ASSUME NEW k \in 1 .. m PROVE g[k] = G[<<g[k - 1], k>>]
        <4>1. k - 1 \in 0 .. m /\ k - 1 # m /\ g[k - 1] = f[k - 1]
          OBVIOUS
        <4>2. CASE k = m
          BY <4>1, <4>2
        <4>3. CASE k # m
          BY <2>1, <4>1, <4>3
        <4>4. QED
          BY <4>2, <4>3
      <3>2. QED
        BY <3>1
    <2> HIDE DEF g
    <2>5. Upto(m)
      BY <2>3, <2>4
    <2>6. QED
      BY <2>5
  <1> HIDE DEF T
  <1>3. n \in T
    BY <1>1, <1>2, StepByStep
  <1>4. QED
    BY <1>3 DEF T, Stepwise

\* A forest of items.
IsForest(F, items) ==
  /\ F = [parent |-> F.parent, rank |-> F.rank]
  /\ F.parent \in [items -> items] /\ F.rank \in [items -> Nat]

\* A forest whose trees are the classes of rep: the parents stay in the class,
\* rep is the one root of it, and the ranks rise on the way to it.
Represents(F, items, rep) ==
  /\ IsForest(F, items) /\ rep \in [items -> items]
  /\ \A x \in items :
       /\ F.parent[x] = x => rep[x] = x
       /\ rep[F.parent[x]] = rep[x]
       /\ F.parent[rep[x]] = rep[x]
       /\ F.parent[x] # x => F.rank[x] < F.rank[F.parent[x]]
       /\ x # rep[x] => F.rank[x] < F.rank[rep[x]]

\* The climb is what its definition says.
LEMMA ClimbSteps ==
  ASSUME NEW F, NEW items, IsForest(F, items), IsFiniteSet(items), NEW x \in items
  PROVE  LET up == Climb(F, x)
             n == Cardinality(items)
         IN  /\ up \in [0 .. n -> items] /\ up[0] = x
             /\ \A k \in 1 .. n : up[k] = F.parent[up[k - 1]]
             /\ DOMAIN F.parent = items /\ n \in Nat
  <1> DEFINE n == Cardinality(items)
             G == [p \in items \X (1 .. n) |-> F.parent[p[1]]]
  <1>1. DOMAIN F.parent = items /\ n \in Nat
    BY FS_CardinalityType DEF IsForest
  <1>2. G \in [items \X (1 .. n) -> items]
    BY DEF IsForest
  <1> HIDE DEF n
  <1>3. PICK f \in [0 .. n -> items] : f[0] = x /\ \A k \in 1 .. n : f[k] = G[<<f[k - 1], k>>]
    <2> HIDE DEF G
    <2>1. \E f : Stepwise(f, items, x, n, G)
      BY <1>1, <1>2, StepFunction
    <2>2. QED
      BY <2>1 DEF Stepwise
  <1>4. \A k \in 1 .. n : f[k] = F.parent[f[k - 1]]
    <2>1. ASSUME NEW k \in 1 .. n PROVE f[k] = F.parent[f[k - 1]]
      <3>1. k - 1 \in 0 .. n
        BY <1>1
      <3>2. <<f[k - 1], k>> \in items \X (1 .. n)
        BY <1>3, <3>1
      <3>3. QED
        BY <1>3, <3>2
    <2>2. QED
      BY <2>1
  <1>5. f = [k \in 0 .. n |-> IF k = 0 THEN x ELSE F.parent[f[k - 1]]]
    BY <1>1, <1>3, <1>4
  <1>6. Climb(F, x) = [k \in 0 .. n |-> IF k = 0 THEN x ELSE F.parent[Climb(F, x)[k - 1]]]
    BY <1>1, <1>5, Zenon DEF Climb, n
  <1> DEFINE up == Climb(F, x)
  <1> HIDE DEF up
  <1>7. /\ up[0] = x /\ DOMAIN up = 0 .. n
        /\ \A k \in 1 .. n : up[k] = F.parent[up[k - 1]]
        /\ up = [k \in 0 .. n |-> up[k]]
    <2>1. up = [k \in 0 .. n |-> IF k = 0 THEN x ELSE F.parent[up[k - 1]]]
      BY <1>6 DEF up
    <2>2. QED
      BY <1>1, <2>1
  <1>8. \A k \in 0 .. n : up[k] \in items
    <2> DEFINE T == {k \in 0 .. n : up[k] \in items}
    <2>1. 0 \in T
      BY <1>1, <1>7
    <2>2. ASSUME NEW k \in 1 .. n, k - 1 \in T PROVE k \in T
      <3>1. up[k - 1] \in items
        BY <2>2
      <3>2. k \in 0 .. n
        BY <1>1
      <3>3. \A j \in 1 .. n : up[j] = F.parent[up[j - 1]]
        BY <1>7
      <3>4. up[k] = F.parent[up[k - 1]]
        BY <3>3
      <3>5. up[k] \in items
        BY <3>1, <3>4 DEF IsForest
      <3>6. QED
        BY <3>2, <3>5
    <2>3. \A k \in 0 .. n : k \in T
      <3> HIDE DEF T
      <3>1. QED
        BY <1>1, <2>1, <2>2, StepByStep
    <2>4. QED
      BY <2>3
  <1>9. QED
    BY <1>1, <1>7, <1>8 DEF up, n

\* The path from x stays in its class and its one root is the class's.
LEMMA RootIsRep ==
  ASSUME NEW F, NEW items, NEW rep, Represents(F, items, rep), IsFiniteSet(items),
         NEW x \in items
  PROVE  /\ Root(F, x) = rep[x]
         /\ PathOf(F, x) \in SUBSET items /\ x \in PathOf(F, x)
         /\ \A y \in PathOf(F, x) : rep[y] = rep[x]
  <1> DEFINE n == Cardinality(items)
             up == Climb(F, x)
  <1>1. /\ up \in [0 .. n -> items] /\ up[0] = x
        /\ \A k \in 1 .. n : up[k] = F.parent[up[k - 1]]
        /\ n \in Nat
    BY ClimbSteps DEF Represents
  <1>2. PathOf(F, x) = {up[k] : k \in 0 .. n}
    BY <1>1 DEF PathOf
  <1> HIDE DEF n, up
  <1>3. \A k \in 0 .. n : rep[up[k]] = rep[x]
    <2> DEFINE T == {k \in 0 .. n : rep[up[k]] = rep[x]}
    <2>1. 0 \in T
      BY <1>1
    <2>2. ASSUME NEW k \in 1 .. n, k - 1 \in T PROVE k \in T
      <3>1. k - 1 \in 0 .. n /\ k \in 0 .. n /\ rep[up[k - 1]] = rep[x] /\ up[k - 1] \in items
        BY <1>1, <2>2
      <3>2. rep[up[k]] = rep[up[k - 1]]
        BY <1>1, <3>1 DEF Represents
      <3>3. QED
        BY <3>1, <3>2
    <2>3. \A k \in 0 .. n : k \in T
      <3> HIDE DEF T
      <3>1. QED
        BY <1>1, <2>1, <2>2, StepByStep
    <2>4. QED
      BY <2>3
  <1>4. \E k \in 0 .. n : F.parent[up[k]] = up[k]
    <2>1. SUFFICES ASSUME \A k \in 0 .. n : F.parent[up[k]] # up[k] PROVE FALSE
      OBVIOUS
    <2>2. ASSUME NEW k \in 1 .. n PROVE F.rank[up[k - 1]] < F.rank[up[k]]
      BY <1>1, <2>1 DEF Represents
    <2>3. \A k \in 0 .. n : F.rank[up[k]] \in Nat
      BY <1>1 DEF Represents, IsForest
    <2>4. ASSUME NEW i \in 0 .. n
          PROVE  \A k \in 0 .. n : i < k => F.rank[up[i]] < F.rank[up[k]]
      <3> DEFINE T == {k \in 0 .. n : i < k => F.rank[up[i]] < F.rank[up[k]]}
      <3>1. 0 \in T
        BY <1>1
      <3>2. ASSUME NEW k \in 1 .. n, k - 1 \in T PROVE k \in T
        <4>1. k - 1 \in 0 .. n /\ k \in 0 .. n /\ (i < k - 1 => F.rank[up[i]] < F.rank[up[k - 1]])
          BY <1>1, <3>2
        <4>2. F.rank[up[k - 1]] < F.rank[up[k]]
          BY <2>2
        <4>3. i < k => i = k - 1 \/ i < k - 1
          BY <1>1
        <4>4. i < k => F.rank[up[i]] < F.rank[up[k]]
          BY <2>3, <4>1, <4>2, <4>3
        <4>5. QED
          BY <4>1, <4>4
      <3>3. \A k \in 0 .. n : k \in T
        <4> HIDE DEF T
        <4>1. QED
          BY <1>1, <3>1, <3>2, StepByStep
      <3>4. QED
        BY <3>3
    <2>5. \A i, k \in 0 .. n : i # k => up[i] # up[k]
      <3>1. ASSUME NEW i \in 0 .. n, NEW k \in 0 .. n, i < k PROVE up[i] # up[k]
        BY <2>3, <2>4, <3>1
      <3>2. QED
        BY <1>1, <3>1
    <2>6. IsFiniteSet(0 .. n) /\ Cardinality(0 .. n) = n + 1
      BY <1>1, FS_Interval
    <2>7. Cardinality(items) < Cardinality(0 .. n)
      BY <1>1, <2>6 DEF n
    <2>8. QED
      BY <1>1, <2>5, <2>6, <2>7, FS_PigeonHole
  <1>5. rep[x] \in PathOf(F, x) /\ F.parent[rep[x]] = rep[x]
    BY <1>1, <1>2, <1>3, <1>4 DEF Represents
  <1>6. \A r \in PathOf(F, x) : F.parent[r] = r => r = rep[x]
    BY <1>1, <1>2, <1>3 DEF Represents
  <1>7. Root(F, x) = rep[x]
    BY <1>5, <1>6 DEF Root
  <1>8. QED
    BY <1>1, <1>2, <1>3, <1>7

\* Compressing a path changes no class.
LEMMA CompressedRepresents ==
  ASSUME NEW F, NEW items, NEW rep, Represents(F, items, rep), IsFiniteSet(items),
         NEW x \in items
  PROVE  Represents(Compressed(F, x), items, rep)
  <1> DEFINE path == PathOf(F, x)
             C == Compressed(F, x)
  <1>1. Root(F, x) = rep[x] /\ path \in SUBSET items /\ \A y \in path : rep[y] = rep[x]
    BY RootIsRep
  <1>2. /\ F = [parent |-> F.parent, rank |-> F.rank]
        /\ F.parent \in [items -> items] /\ F.rank \in [items -> Nat] /\ rep \in [items -> items]
    BY DEF Represents, IsForest
  <1>3. C = [parent |-> [y \in items |-> IF y \in path THEN rep[x] ELSE F.parent[y]],
             rank |-> F.rank]
    BY <1>1, <1>2 DEF Compressed
  <1> HIDE DEF path, C
  <1>4. IsForest(C, items) /\ C.rank = F.rank
    BY <1>2, <1>3 DEF IsForest
  <1>5. \A y \in items : C.parent[y] = IF y \in path THEN rep[x] ELSE F.parent[y]
    BY <1>3
  <1>6. rep[rep[x]] = rep[x] /\ F.parent[rep[x]] = rep[x] /\ rep[x] \in items
    BY <1>2 DEF Represents
  <1>7. ASSUME NEW y \in items
        PROVE  /\ C.parent[y] = y => rep[y] = y
               /\ rep[C.parent[y]] = rep[y]
               /\ C.parent[rep[y]] = rep[y]
               /\ C.parent[y] # y => C.rank[y] < C.rank[C.parent[y]]
               /\ y # rep[y] => C.rank[y] < C.rank[rep[y]]
    <2>1. /\ F.parent[y] = y => rep[y] = y
          /\ rep[F.parent[y]] = rep[y]
          /\ F.parent[rep[y]] = rep[y]
          /\ F.parent[y] # y => F.rank[y] < F.rank[F.parent[y]]
          /\ y # rep[y] => F.rank[y] < F.rank[rep[y]]
      BY DEF Represents
    <2>2. rep[y] \in items /\ rep[rep[y]] = rep[y]
      BY <1>2 DEF Represents
    <2>3. C.parent[rep[y]] = rep[y]
      BY <1>1, <1>5, <2>1, <2>2
    <2>4. CASE y \in path
      BY <1>1, <1>4, <1>5, <1>6, <2>1, <2>3, <2>4
    <2>5. CASE y \notin path
      BY <1>4, <1>5, <2>1, <2>3, <2>5
    <2>6. QED
      BY <2>4, <2>5
  <1>8. QED
    BY <1>2, <1>4, <1>7 DEF Represents, C

\* The classes of w and l made one, under w.
MadeOne(items, rep, w, l) == [z \in items |-> IF rep[z] = l THEN w ELSE rep[z]]

\* Hanging the root l below the root w makes their classes one.
LEMMA HangRepresents ==
  ASSUME NEW F, NEW items, NEW rep, Represents(F, items, rep),
         NEW w \in items, NEW l \in items, rep[w] = w, rep[l] = l, w # l,
         NEW H, IsForest(H, items), H.parent = [F.parent EXCEPT ![l] = w],
         \A z \in items : H.rank[z] >= F.rank[z] /\ (z # w => H.rank[z] = F.rank[z]),
         H.rank[l] < H.rank[w]
  PROVE  Represents(H, items, MadeOne(items, rep, w, l))
  <1> DEFINE m == MadeOne(items, rep, w, l)
  <1>1. /\ F.parent \in [items -> items] /\ F.rank \in [items -> Nat] /\ rep \in [items -> items]
        /\ H.rank \in [items -> Nat]
    BY DEF Represents, IsForest
  <1>2. m \in [items -> items] /\ \A z \in items : m[z] = IF rep[z] = l THEN w ELSE rep[z]
    BY <1>1 DEF MadeOne
  <1>3. \A z \in items : H.parent[z] = IF z = l THEN w ELSE F.parent[z]
    BY <1>1
  <1>4. F.parent[w] = w
    BY DEF Represents
  <1> HIDE DEF m
  <1>5. ASSUME NEW z \in items
        PROVE  /\ H.parent[z] = z => m[z] = z
               /\ m[H.parent[z]] = m[z]
               /\ H.parent[m[z]] = m[z]
               /\ H.parent[z] # z => H.rank[z] < H.rank[H.parent[z]]
               /\ z # m[z] => H.rank[z] < H.rank[m[z]]
    <2>1. /\ F.parent[z] = z => rep[z] = z
          /\ rep[F.parent[z]] = rep[z]
          /\ F.parent[rep[z]] = rep[z]
          /\ F.parent[z] # z => F.rank[z] < F.rank[F.parent[z]]
          /\ z # rep[z] => F.rank[z] < F.rank[rep[z]]
          /\ rep[z] \in items /\ F.parent[z] \in items
      BY <1>1 DEF Represents
    <2>2. H.parent[z] = z => m[z] = z
      BY <1>2, <1>3, <2>1
    <2>3. m[H.parent[z]] = m[z]
      BY <1>2, <1>3, <2>1
    <2>4. H.parent[m[z]] = m[z]
      BY <1>2, <1>3, <1>4, <2>1
    <2>5. ASSUME H.parent[z] # z PROVE H.rank[z] < H.rank[H.parent[z]]
      <3>1. CASE z = l
        BY <1>3, <3>1
      <3>2. CASE z # l
        <4>1. H.parent[z] = F.parent[z] /\ F.rank[z] < F.rank[F.parent[z]] /\ z # w
          BY <1>3, <1>4, <2>1, <2>5, <3>2
        <4>2. H.rank[z] = F.rank[z] /\ H.rank[F.parent[z]] >= F.rank[F.parent[z]]
          BY <2>1, <4>1
        <4>3. F.rank[z] \in Nat /\ F.rank[F.parent[z]] \in Nat /\ H.rank[F.parent[z]] \in Nat
          BY <1>1, <2>1
        <4>4. QED
          BY <4>1, <4>2, <4>3
      <3>3. QED
        BY <3>1, <3>2
    <2>6. ASSUME z # m[z] PROVE H.rank[z] < H.rank[m[z]]
      <3>1. F.rank[z] \in Nat /\ F.rank[rep[z]] \in Nat /\ H.rank[rep[z]] \in Nat /\ H.rank[w] \in Nat
        BY <1>1, <2>1
      <3>2. CASE rep[z] = l
        <4>1. m[z] = w /\ z # w /\ H.rank[z] = F.rank[z] /\ F.rank[l] = H.rank[l]
          BY <1>2, <2>6, <3>2
        <4>2. CASE z = l
          BY <4>1, <4>2
        <4>3. CASE z # l
          <5>1. F.rank[z] < H.rank[l]
            BY <2>1, <3>2, <4>1, <4>3
          <5>2. H.rank[l] \in Nat
            BY <3>1, <3>2
          <5>3. QED
            BY <3>1, <4>1, <5>1, <5>2
        <4>4. QED
          BY <4>2, <4>3
      <3>3. CASE rep[z] # l
        <4>1. m[z] = rep[z] /\ z # w /\ F.rank[z] < F.rank[rep[z]]
          BY <1>2, <2>1, <2>6, <3>3
        <4>2. H.rank[z] = F.rank[z] /\ H.rank[rep[z]] >= F.rank[rep[z]]
          BY <2>1, <4>1
        <4>3. QED
          BY <3>1, <4>1, <4>2
      <3>4. QED
        BY <3>2, <3>3
    <2>7. QED
      BY <2>2, <2>3, <2>4, <2>5, <2>6
  <1>6. QED
    BY <1>2, <1>5 DEF Represents, m

\* m makes the classes of x and y one, and no other.
Unites(m, items, rep, x, y) ==
  /\ m \in [items -> items] /\ m[x] = m[y]
  /\ \A u, v \in items :
       /\ rep[u] = rep[v] => m[u] = m[v]
       /\ m[u] = m[v] => \/ rep[u] = rep[v]
                         \/ rep[u] \in {rep[x], rep[y]} /\ rep[v] \in {rep[x], rep[y]}

\* Joining x and y makes their classes one and no other.
LEMMA JoinRepresents ==
  ASSUME NEW F, NEW items, NEW rep, Represents(F, items, rep), IsFiniteSet(items),
         NEW x \in items, NEW y \in items
  PROVE  \E m : Represents(Join(F, x, y), items, m) /\ Unites(m, items, rep, x, y)
  <1> DEFINE f == Compressed(Compressed(F, x), y)
             rx == Root(f, x)
             ry == Root(f, y)
             J == Join(F, x, y)
  <1>1. Represents(f, items, rep)
    <2>1. Represents(Compressed(F, x), items, rep)
      BY CompressedRepresents
    <2>2. QED
      BY <2>1, CompressedRepresents
  <1>2. J = CASE rx = ry -> f
              [] rx # ry /\ f.rank[rx] < f.rank[ry] -> [f EXCEPT !.parent[rx] = ry]
              [] rx # ry /\ f.rank[rx] > f.rank[ry] -> [f EXCEPT !.parent[ry] = rx]
              [] rx # ry /\ f.rank[rx] = f.rank[ry] ->
                   [f EXCEPT !.parent[ry] = rx, !.rank[rx] = @ + 1]
    BY DEF Join
  <1> HIDE DEF J, f
  <1>3. rx = rep[x] /\ ry = rep[y]
    BY <1>1, RootIsRep
  <1> HIDE DEF rx, ry
  <1>4. /\ f = [parent |-> f.parent, rank |-> f.rank]
        /\ f.parent \in [items -> items] /\ f.rank \in [items -> Nat] /\ rep \in [items -> items]
    BY <1>1 DEF Represents, IsForest
  <1>5. rx \in items /\ ry \in items /\ rep[rx] = rx /\ rep[ry] = ry
    BY <1>1, <1>3, <1>4 DEF Represents
  <1>6. f.rank[rx] \in Nat /\ f.rank[ry] \in Nat
    BY <1>4, <1>5
  <1>7. ASSUME NEW w \in {rx, ry}, NEW l \in {rx, ry}, w # l,
               Represents(J, items, MadeOne(items, rep, w, l))
        PROVE  \E m : Represents(J, items, m) /\ Unites(m, items, rep, x, y)
    <2> DEFINE m == MadeOne(items, rep, w, l)
    <2>1. m \in [items -> items] /\ \A z \in items : m[z] = IF rep[z] = l THEN w ELSE rep[z]
      BY <1>4, <1>5 DEF MadeOne
    <2> HIDE DEF m
    <2>2. m[x] = m[y]
      BY <1>3, <1>7, <2>1
    <2>3. \A u, v \in items : rep[u] = rep[v] => m[u] = m[v]
      BY <2>1
    <2>4. ASSUME NEW u \in items, NEW v \in items, m[u] = m[v]
          PROVE  \/ rep[u] = rep[v]
                 \/ rep[u] \in {rep[x], rep[y]} /\ rep[v] \in {rep[x], rep[y]}
      BY <1>3, <1>7, <2>1, <2>4
    <2>5. Unites(m, items, rep, x, y)
      BY <2>1, <2>2, <2>3, <2>4 DEF Unites
    <2>6. QED
      BY <1>7, <2>5 DEF m
  <1>8. CASE rx = ry
    <2>1. J = f
      BY <1>2, <1>8
    <2>2. Represents(J, items, rep) /\ rep[x] = rep[y]
      BY <1>1, <1>3, <1>8, <2>1
    <2>3. Unites(rep, items, rep, x, y)
      BY <1>4, <2>2 DEF Unites
    <2>4. QED
      BY <2>2, <2>3 DEF J
  <1>9. CASE rx # ry /\ f.rank[rx] < f.rank[ry]
    <2>1. J = [f EXCEPT !.parent[rx] = ry]
      BY <1>2, <1>6, <1>9
    <2>2. J = [parent |-> [f.parent EXCEPT ![rx] = ry], rank |-> f.rank]
      BY <1>4, <2>1
    <2>3. IsForest(J, items) /\ J.parent = [f.parent EXCEPT ![rx] = ry] /\ J.rank = f.rank
      BY <1>4, <1>5, <2>2 DEF IsForest
    <2>4. \A z \in items : J.rank[z] >= f.rank[z] /\ (z # ry => J.rank[z] = f.rank[z])
      BY <1>4, <2>3
    <2>5. J.rank[rx] < J.rank[ry]
      BY <1>9, <2>3
    <2>6. Represents(J, items, MadeOne(items, rep, ry, rx))
      BY <1>1, <1>5, <1>9, <2>3, <2>4, <2>5, HangRepresents
    <2>7. QED
      BY <1>7, <1>9, <2>6 DEF J
  <1>10. CASE rx # ry /\ f.rank[rx] > f.rank[ry]
    <2>1. J = [f EXCEPT !.parent[ry] = rx]
      BY <1>2, <1>6, <1>10
    <2>2. J = [parent |-> [f.parent EXCEPT ![ry] = rx], rank |-> f.rank]
      BY <1>4, <2>1
    <2>3. IsForest(J, items) /\ J.parent = [f.parent EXCEPT ![ry] = rx] /\ J.rank = f.rank
      BY <1>4, <1>5, <2>2 DEF IsForest
    <2>4. \A z \in items : J.rank[z] >= f.rank[z] /\ (z # rx => J.rank[z] = f.rank[z])
      BY <1>4, <2>3
    <2>5. J.rank[ry] < J.rank[rx]
      BY <1>6, <1>10, <2>3
    <2>6. Represents(J, items, MadeOne(items, rep, rx, ry))
      BY <1>1, <1>5, <1>10, <2>3, <2>4, <2>5, HangRepresents
    <2>7. QED
      BY <1>7, <1>10, <2>6 DEF J
  <1>11. CASE rx # ry /\ f.rank[rx] = f.rank[ry]
    <2>1. J = [f EXCEPT !.parent[ry] = rx, !.rank[rx] = @ + 1]
      BY <1>2, <1>6, <1>11
    <2>2. J = [parent |-> [f.parent EXCEPT ![ry] = rx],
               rank |-> [f.rank EXCEPT ![rx] = f.rank[rx] + 1]]
      BY <1>4, <2>1
    <2>3. /\ J.parent = [f.parent EXCEPT ![ry] = rx]
          /\ J.rank = [f.rank EXCEPT ![rx] = f.rank[rx] + 1]
          /\ J = [parent |-> J.parent, rank |-> J.rank]
      BY <2>2
    <2>4. IsForest(J, items)
      BY <1>4, <1>5, <1>6, <2>3 DEF IsForest
    <2>5. \A z \in items : J.rank[z] = IF z = rx THEN f.rank[rx] + 1 ELSE f.rank[z]
      BY <1>4, <2>3
    <2>6. \A z \in items : J.rank[z] >= f.rank[z] /\ (z # rx => J.rank[z] = f.rank[z])
      BY <1>4, <1>6, <2>5
    <2>7. J.rank[ry] < J.rank[rx]
      BY <1>5, <1>6, <1>11, <2>5
    <2>8. Represents(J, items, MadeOne(items, rep, rx, ry))
      BY <1>1, <1>5, <1>11, <2>3, <2>4, <2>6, <2>7, HangRepresents
    <2>9. QED
      BY <1>7, <1>11, <2>8 DEF J
  <1>12. QED
    BY <1>6, <1>8, <1>9, <1>10, <1>11

\* The forest nobody joined: everyone is a root.
LEMMA NewRepresents ==
  ASSUME NEW items
  PROVE  Represents(NewForest(items), items, [x \in items |-> x])
  BY DEF Represents, IsForest, NewForest

\* The forests are what their definition says.
LEMMA ForestsSteps ==
  ASSUME NEW items, IsFiniteSet(items), NEW D, NEW pairs \in Seq(D)
  PROVE  LET n == Len(pairs)
             joined == Forests(items, pairs)
         IN  /\ joined[0] = NewForest(items)
             /\ \A k \in 1 .. n : joined[k] = JoinPair(joined[k - 1], pairs[k])
             /\ \A k \in 0 .. n : \E rep \in [items -> items] : Represents(joined[k], items, rep)
             /\ n \in Nat /\ DOMAIN pairs = 1 .. n
  <1> DEFINE n == Len(pairs)
             Trees == [parent : [items -> items], rank : [items -> Nat]]
             S == {F \in Trees : \E rep \in [items -> items] : Represents(F, items, rep)}
             G == [p \in S \X (1 .. n) |-> JoinPair(p[1], pairs[p[2]])]
             new == NewForest(items)
  <1>1. n \in Nat /\ DOMAIN pairs = 1 .. n
    OBVIOUS
  <1>2. \A F, rep : Represents(F, items, rep) => F \in Trees
    BY DEF Represents, IsForest
  <1>3. new \in S
    <2>1. Represents(new, items, [x \in items |-> x])
      BY NewRepresents
    <2>2. QED
      BY <1>2, <2>1
  <1>4. ASSUME NEW F \in S, NEW k \in 1 .. n PROVE JoinPair(F, pairs[k]) \in S
    <2>1. PICK rep \in [items -> items] : Represents(F, items, rep)
      OBVIOUS
    <2>2. DOMAIN F.parent = items
      BY <2>1 DEF Represents, IsForest
    <2>3. CASE Among(items, pairs[k])
      <3> DEFINE x == pairs[k][1]
                 y == pairs[k][2]
      <3>1. JoinPair(F, pairs[k]) = Join(F, x, y) /\ x \in items /\ y \in items
        BY <2>2, <2>3 DEF JoinPair, Among
      <3> HIDE DEF x, y
      <3>2. \E m : Represents(Join(F, x, y), items, m)
        <4>1. x \in items /\ y \in items
          BY <3>1
        <4> HIDE DEF S, n, G, new
        <4>2. QED
          BY <2>1, <4>1, JoinRepresents
      <3>3. PICK m : Represents(JoinPair(F, pairs[k]), items, m)
        BY <3>1, <3>2
      <3>4. JoinPair(F, pairs[k]) \in Trees /\ m \in [items -> items]
        BY <1>2, <3>3 DEF Represents
      <3>5. QED
        BY <3>3, <3>4
    <2>4. CASE ~Among(items, pairs[k])
      BY <2>2, <2>4 DEF JoinPair
    <2>5. QED
      BY <2>3, <2>4
  <1>5. G \in [S \X (1 .. n) -> S]
    <2> HIDE DEF S, n
    <2>1. ASSUME NEW p \in S \X (1 .. n) PROVE G[p] \in S
      <3>1. p[1] \in S /\ p[2] \in 1 .. n
        OBVIOUS
      <3>2. QED
        BY <1>4, <3>1
    <2>2. QED
      BY <2>1
  <1> HIDE DEF n, S, new
  <1>6. PICK f \in [0 .. n -> S] : f[0] = new /\ \A k \in 1 .. n : f[k] = G[<<f[k - 1], k>>]
    <2> HIDE DEF G
    <2>1. n \in Nat
      BY <1>1
    <2>2. \E f : Stepwise(f, S, new, n, G)
      BY <1>3, <1>5, <2>1, StepFunction
    <2>3. QED
      BY <2>2 DEF Stepwise
  <1>7. \A k \in 1 .. n : f[k] = JoinPair(f[k - 1], pairs[k])
    <2>1. ASSUME NEW k \in 1 .. n PROVE f[k] = JoinPair(f[k - 1], pairs[k])
      <3>1. k - 1 \in 0 .. n
        BY <1>1
      <3>2. <<f[k - 1], k>> \in S \X (1 .. n)
        BY <1>6, <3>1
      <3>3. QED
        BY <1>6, <3>2
    <2>2. QED
      BY <2>1
  <1>8. f = [k \in 0 .. n |-> IF k = 0 THEN new ELSE JoinPair(f[k - 1], pairs[k])]
    BY <1>1, <1>6, <1>7
  <1>9. Forests(items, pairs) =
          [k \in 0 .. n |-> IF k = 0 THEN new ELSE JoinPair(Forests(items, pairs)[k - 1], pairs[k])]
    BY <1>8, Zenon DEF Forests, n, new
  <1> DEFINE joined == Forests(items, pairs)
  <1> HIDE DEF joined
  <1>10. joined = [k \in 0 .. n |-> IF k = 0 THEN new ELSE JoinPair(joined[k - 1], pairs[k])]
    BY <1>9 DEF joined
  <1>11. joined[0] = new /\ \A k \in 1 .. n : joined[k] = JoinPair(joined[k - 1], pairs[k])
    <2>1. 0 \in 0 .. n /\ \A k \in 1 .. n : k \in 0 .. n /\ k # 0
      BY <1>1
    <2>2. QED
      BY <1>10, <2>1
  <1>12. \A k \in 0 .. n : joined[k] \in S
    <2> DEFINE T == {k \in 0 .. n : joined[k] \in S}
    <2>1. 0 \in T
      BY <1>1, <1>3, <1>11
    <2>2. ASSUME NEW k \in 1 .. n, k - 1 \in T PROVE k \in T
      <3>1. joined[k - 1] \in S
        BY <2>2
      <3>2. joined[k] = JoinPair(joined[k - 1], pairs[k])
        BY <1>11
      <3>3. k \in 0 .. n
        BY <1>1
      <3>4. QED
        BY <1>4, <3>1, <3>2, <3>3
    <2>3. \A k \in 0 .. n : k \in T
      <3> HIDE DEF T
      <3>1. QED
        BY <1>1, <2>1, <2>2, StepByStep
    <2>4. QED
      BY <2>3
  <1>13. QED
    BY <1>1, <1>11, <1>12 DEF n, S, new, joined

\* The classes hold together the items of the first k pairs, and keep apart
\* what a closed set keeps apart.
Follows(F, items, pairs, k, rep) ==
  /\ Represents(F, items, rep)
  /\ \A j \in 1 .. k : Among(items, pairs[j]) => rep[pairs[j][1]] = rep[pairs[j][2]]
  /\ \A h \in SUBSET items : Closed(h, items, pairs) =>
       \A u, v \in items : rep[u] = rep[v] => (u \in h <=> v \in h)

\* The last forest follows all pairs.
LEMMA JoinedFollows ==
  ASSUME NEW items, IsFiniteSet(items), NEW D, NEW pairs \in Seq(D)
  PROVE  \E rep \in [items -> items] :
           Follows(Forests(items, pairs)[Len(pairs)], items, pairs, Len(pairs), rep)
  <1> DEFINE n == Len(pairs)
             joined == Forests(items, pairs)
             T == {k \in 0 .. n : \E rep \in [items -> items] :
                                    Follows(joined[k], items, pairs, k, rep)}
  <1>1. /\ joined[0] = NewForest(items)
        /\ \A k \in 1 .. n : joined[k] = JoinPair(joined[k - 1], pairs[k])
        /\ n \in Nat /\ DOMAIN pairs = 1 .. n
    BY ForestsSteps
  <1> HIDE DEF n, joined
  <1>2. 0 \in T
    <2> DEFINE id == [x \in items |-> x]
    <2>1. Represents(joined[0], items, id) /\ id \in [items -> items] /\ \A u \in items : id[u] = u
      BY <1>1, NewRepresents
    <2> HIDE DEF id
    <2>2. Follows(joined[0], items, pairs, 0, id)
      BY <2>1 DEF Follows
    <2>3. QED
      BY <1>1, <2>1, <2>2
  <1>3. ASSUME NEW k \in 1 .. n, k - 1 \in T PROVE k \in T
    <2>1. PICK rep \in [items -> items] : Follows(joined[k - 1], items, pairs, k - 1, rep)
      BY <1>3
    <2>2. /\ joined[k] = JoinPair(joined[k - 1], pairs[k])
          /\ DOMAIN joined[k - 1].parent = items
      BY <1>1, <2>1 DEF Follows, Represents, IsForest
    <2>3. \A j \in 1 .. k : j = k \/ j \in 1 .. k - 1
      BY <1>1
    <2>4. k \in 0 .. n
      BY <1>1
    <2>5. CASE ~Among(items, pairs[k])
      <3>1. joined[k] = joined[k - 1]
        BY <2>2, <2>5 DEF JoinPair
      <3>2. Follows(joined[k], items, pairs, k, rep)
        BY <2>1, <2>3, <2>5, <3>1 DEF Follows
      <3>3. QED
        BY <2>4, <3>2
    <2>6. CASE Among(items, pairs[k])
      <3> DEFINE x == pairs[k][1]
                 y == pairs[k][2]
      <3>1. x \in items /\ y \in items /\ joined[k] = Join(joined[k - 1], x, y)
        BY <2>2, <2>6 DEF Among, JoinPair
      <3> HIDE DEF x, y
      <3>2. PICK m : Represents(joined[k], items, m) /\ Unites(m, items, rep, x, y)
        <4> DEFINE F == joined[k - 1]
        <4>1. Represents(F, items, rep)
          BY <2>1 DEF Follows
        <4>2. x \in items /\ y \in items /\ joined[k] = Join(F, x, y)
          BY <3>1
        <4> HIDE DEF F
        <4>3. \E m : Represents(Join(F, x, y), items, m) /\ Unites(m, items, rep, x, y)
          BY <4>1, <4>2, JoinRepresents
        <4>4. QED
          BY <4>2, <4>3
      <3>3. ASSUME NEW j \in 1 .. k, Among(items, pairs[j]) PROVE m[pairs[j][1]] = m[pairs[j][2]]
        <4>1. CASE j = k
          BY <3>2, <4>1 DEF x, y, Unites
        <4>2. CASE j \in 1 .. k - 1
          <5>1. rep[pairs[j][1]] = rep[pairs[j][2]]
            BY <2>1, <3>3, <4>2 DEF Follows
          <5>2. pairs[j][1] \in items /\ pairs[j][2] \in items
            BY <3>3 DEF Among
          <5>3. QED
            BY <3>2, <5>1, <5>2 DEF Unites
        <4>3. QED
          BY <2>3, <4>1, <4>2
      <3>4. ASSUME NEW h \in SUBSET items, Closed(h, items, pairs),
                   NEW u \in items, NEW v \in items, m[u] = m[v]
            PROVE  u \in h <=> v \in h
        <4>1. x \in h <=> y \in h
          BY <1>1, <2>6, <3>4 DEF Closed, x, y
        <4>2. \A a, b \in items : rep[a] = rep[b] => (a \in h <=> b \in h)
          BY <2>1, <3>4 DEF Follows
        <4>3. CASE rep[u] = rep[v]
          BY <4>2, <4>3
        <4>4. CASE rep[u] \in {rep[x], rep[y]} /\ rep[v] \in {rep[x], rep[y]}
          BY <3>1, <4>1, <4>2, <4>4
        <4>5. QED
          BY <3>2, <3>4, <4>3, <4>4 DEF Unites
      <3>5. Follows(joined[k], items, pairs, k, m)
        BY <3>2, <3>3, <3>4 DEF Follows
      <3>6. QED
        BY <2>4, <3>2, <3>5 DEF Unites
    <2>7. QED
      BY <2>5, <2>6
  <1>4. n \in T
    <2> HIDE DEF T
    <2>1. \A k \in 0 .. n : k \in T
      BY <1>1, <1>2, <1>3, StepByStep
    <2>2. QED
      BY <1>1, <2>1
  <1>5. QED
    BY <1>4 DEF n, joined

\* The groups are the connected components of the pairs.
LEMMA GroupsAreComponents ==
  ASSUME NEW items, IsFiniteSet(items), NEW D, NEW pairs \in Seq(D)
  PROVE  Groups(items, pairs) = Components(items, pairs)
  <1> DEFINE n == Len(pairs)
             joined == Forests(items, pairs)[n]
             SetOf(x) == {y \in items : Root(joined, y) = Root(joined, x)}
  <1>1. n \in Nat /\ DOMAIN pairs = 1 .. n
    OBVIOUS
  <1>2. PICK rep \in [items -> items] : Follows(joined, items, pairs, n, rep)
    BY JoinedFollows
  <1>3. Groups(items, pairs) = {g \in {SetOf(x) : x \in items} : Cardinality(g) >= 2}
    BY DEF Groups
  <1> HIDE DEF n, joined
  <1> DEFINE Class(x) == {y \in items : rep[y] = rep[x]}
  <1>4. ASSUME NEW x \in items PROVE SetOf(x) = Class(x)
    <2>1. \A y \in items : Root(joined, y) = rep[y]
      BY <1>2, RootIsRep DEF Follows
    <2>2. QED
      BY <2>1
  <1>5. Groups(items, pairs) = {g \in {Class(x) : x \in items} : Cardinality(g) >= 2}
    BY <1>3, <1>4
  <1> HIDE DEF SetOf
  <1>6. ASSUME NEW x \in items
        PROVE  Closed(Class(x), items, pairs)
    <2>1. ASSUME NEW k \in 1 .. n, Among(items, pairs[k])
          PROVE  pairs[k][1] \in Class(x) <=> pairs[k][2] \in Class(x)
      <3>1. rep[pairs[k][1]] = rep[pairs[k][2]]
        BY <1>2, <2>1 DEF Follows
      <3>2. pairs[k][1] \in items /\ pairs[k][2] \in items
        BY <2>1 DEF Among
      <3>3. QED
        BY <3>1, <3>2
    <2> HIDE DEF Class
    <2>2. QED
      BY <1>1, <2>1 DEF Closed
  <1>7. ASSUME NEW h \in SUBSET items, Closed(h, items, pairs), NEW x \in h
        PROVE  Class(x) \subseteq h
    BY <1>2, <1>7 DEF Follows
  <1>8. ASSUME NEW g \in Groups(items, pairs) PROVE g \in Components(items, pairs)
    <2>1. PICK x \in items : g = Class(x)
      BY <1>5
    <2>2. g \in SUBSET items /\ Cardinality(g) >= 2
      BY <1>5, <2>1
    <2>3. Closed(g, items, pairs)
      BY <1>6, <2>1
    <2>4. ASSUME NEW h \in SUBSET g, Closed(h, items, pairs), h # {} PROVE h = g
      <3>1. PICK z \in h : TRUE
        BY <2>4
      <3>2. Class(z) \subseteq h
        BY <1>7, <2>2, <2>4
      <3>3. Class(z) = Class(x)
        BY <2>1, <2>2
      <3>4. QED
        BY <2>1, <3>2, <3>3
    <2>5. QED
      BY <2>2, <2>3, <2>4 DEF Components
  <1>9. ASSUME NEW g \in Components(items, pairs) PROVE g \in Groups(items, pairs)
    <2>1. /\ g \in SUBSET items /\ Cardinality(g) >= 2 /\ Closed(g, items, pairs)
          /\ \A h \in SUBSET g : Closed(h, items, pairs) => h \in {{}, g}
      BY DEF Components
    <2>2. g # {}
      <3>1. Cardinality({}) = 0
        BY FS_EmptySet
      <3>2. CASE g = {}
        <4>1. 0 >= 2
          BY <2>1, <3>1, <3>2
        <4>2. QED
          BY <4>1
      <3>3. QED
        BY <3>2
    <2>3. PICK x \in g : TRUE
      BY <2>2
    <2>4. Class(x) \subseteq g /\ x \in Class(x) /\ x \in items
      BY <1>7, <2>1
    <2>5. Class(x) \in {{}, g}
      BY <1>6, <2>1, <2>4
    <2>6. g = Class(x)
      BY <2>4, <2>5
    <2>7. QED
      BY <1>5, <2>1, <2>4, <2>6
  <1>10. QED
    BY <1>8, <1>9

\* A group is made of what was scanned.
LEMMA GroupsWithin ==
  ASSUME NEW items, NEW pairs, NEW g \in Groups(items, pairs)
  PROVE  g \subseteq items
  BY DEF Groups

\* The constants.
LEMMA Constants ==
  /\ N \in Nat /\ N > 0 /\ 1 \in Memories /\ Memories \subseteq Nat
  /\ None \notin Memories /\ None \notin Callers
  /\ NoRev \in Stamps /\ NoRev[1] = None
  BY DuplicatesAssumption DEF Memories, NoRev, Stamps

\* A stamp of a caller.
LEMMA StampType ==
  ASSUME sent \in [Callers -> Nat], NEW c \in Callers
  PROVE  Stamp(c) \in Stamps /\ Stamp(c)[1] = c
  BY DEF Stamp, Stamps

\* What a goal is.
LEMMA GoalType ==
  ASSUME goal \in [Callers -> Goals \cup {None}], NEW c \in Callers, goal[c] # None
  PROVE  Canonical(c) \in Memories /\ goal[c].duplicates \subseteq Memories
  BY DEF Canonical, Goals

-----------------------------------------------------------------------------
(* Types *)

LEMMA InitType == Init => TypeOK
  <1> SUFFICES ASSUME Init PROVE TypeOK
    OBVIOUS
  <1> PICK w \in Workloads :
        /\ similar = w.pairs /\ events = w.events /\ faults = w.faults
        /\ bare = w.bare /\ nodes = Memories \ bare
        /\ marker = [m \in Memories |-> IF m \in w.hidden THEN 1 ELSE None]
        /\ pc = [c \in Callers |-> IF c \in w.callers THEN "idle" ELSE "done"]
    BY DEF Init
  <1>1. similar \in Seq(Memories \X Memories) /\ events \in Nat /\ faults \in Nat
    BY DuplicatesAssumption
  <1>2. marker \in [Memories -> Memories \cup {None}] /\ pc \in [Callers -> Places]
    BY Constants DEF Places
  <1>3. ever \subseteq Memories \X Memories
    BY <1>2 DEF Init
  <1>4. /\ live \subseteq Memories /\ nodes \subseteq Memories /\ edges = {} /\ leaving = {}
        /\ rev \in [Memories -> Stamps] /\ log \in [Memories -> SUBSET Stamps]
        /\ net = {} /\ lateEdges = {} /\ deleted = {} /\ edgeLost = {}
    BY Constants DEF Init
  <1>5. /\ bare \subseteq Memories /\ scanned \in [Callers -> SUBSET Memories]
        /\ goal \in [Callers -> Goals \cup {None}] /\ reply \in [Callers -> Replies \cup {None}]
        /\ todo \in [Callers -> SUBSET Memories] /\ pending \in [Callers -> SUBSET Memories]
    BY Constants, DuplicatesAssumption DEF Init
  <1>6. /\ base \in [Callers -> [Memories -> Stamps]]
        /\ written \in [Callers -> SUBSET (Memories \X Stamps)]
        /\ outcome \in [Callers -> [Memories -> Outcomes]]
        /\ round \in [Callers -> Nat] /\ sent \in [Callers -> Nat]
    BY Constants DEF Init, Outcomes
  <1>7. \A c \in Callers : IsFiniteSet(written[c])
    BY FS_EmptySet DEF Init
  <1>8. QED
    BY <1>1, <1>2, <1>3, <1>4, <1>5, <1>6, <1>7 DEF TypeOK

\* Writing a marker keeps the types of what it changes.
LEMMA MarkType ==
  ASSUME TypeOK, NEW m \in Memories, NEW r \in Stamps, NEW tok \in Stamps, NEW k \in Memories,
         Mark(m, r, tok, k)
  PROVE  /\ live' \subseteq Memories /\ marker' \in [Memories -> Memories \cup {None}]
         /\ rev' \in [Memories -> Stamps] /\ log' \in [Memories -> SUBSET Stamps]
         /\ ever' \subseteq Memories \X Memories
  <1> USE DEF TypeOK
  <1>1. CASE m \in live /\ rev[m] = r
    <2>1. /\ marker' = [marker EXCEPT ![m] = k] /\ rev' = [rev EXCEPT ![m] = tok]
          /\ log' = [log EXCEPT ![m] = @ \cup {tok}] /\ live' = live
          /\ ever' = ever \cup {<<m, k>>}
      BY <1>1 DEF Mark
    <2>2. marker' \in [Memories -> Memories \cup {None}] /\ rev' \in [Memories -> Stamps]
      BY <2>1
    <2>3. log' \in [Memories -> SUBSET Stamps]
      BY <2>1
    <2>4. ever' \subseteq Memories \X Memories
      BY <2>1
    <2>5. QED
      BY <2>1, <2>2, <2>3, <2>4
  <1>2. CASE ~ (m \in live /\ rev[m] = r)
    BY <1>2 DEF Mark, points
  <1>3. QED
    BY <1>1, <1>2

\* A choice: there is no group, or a goal.
LEMMA ChooseStep ==
  ASSUME scanned \in [Callers -> SUBSET Memories], NEW c \in Callers, Choose(c)
  PROVE  /\ pc[c] = "found" /\ reply' = reply
         /\ \/ UNCHANGED goal /\ pc' = [pc EXCEPT ![c] = "done"]
            \/ \E x \in Goals : goal' = [goal EXCEPT ![c] = x] /\ pc' = [pc EXCEPT ![c] = "check"]
  <1>1. CASE UNCHANGED goal /\ pc' = [pc EXCEPT ![c] = "done"]
    BY <1>1 DEF Choose
  <1>2. CASE \E g \in GroupsOf(c) : \E m \in g :
          /\ goal' = [goal EXCEPT ![c] = [canonical |-> m, duplicates |-> g \ {m}]]
          /\ pc' = [pc EXCEPT ![c] = "check"]
    <2>1. PICK g \in GroupsOf(c) : \E m \in g :
            /\ goal' = [goal EXCEPT ![c] = [canonical |-> m, duplicates |-> g \ {m}]]
            /\ pc' = [pc EXCEPT ![c] = "check"]
      BY <1>2
    <2>2. g \subseteq Memories
      BY GroupsWithin DEF GroupsOf
    <2>3. \A m \in g : [canonical |-> m, duplicates |-> g \ {m}] \in Goals
      BY <2>2 DEF Goals
    <2>4. QED
      BY <2>1, <2>3 DEF Choose
  <1>3. QED
    BY <1>1, <1>2 DEF Choose

\* Looking for duplicates keeps the types.
LEMMA LookType ==
  ASSUME TypeOK, NEW c \in Callers, Look(c) \/ ScanFails(c)
  PROVE  TypeOK'
  <1> USE DEF TypeOK, points, graph, transit, batch, bounds, history, Places, Merging
  <1>1. CASE FirstPage(c)
    <2>1. \A k : Least(k, live) \cap Visible \subseteq Memories
      BY DEF Visible
    <2>2. scanned' \in [Callers -> SUBSET Memories] /\ pc' \in [Callers -> Places]
      BY <1>1, <2>1 DEF FirstPage
    <2>3. QED
      BY <1>1, <2>2 DEF FirstPage
  <1>2. CASE NextPage(c)
    BY <1>2 DEF NextPage
  <1>3. CASE Choose(c)
    <2>1. goal' \in [Callers -> Goals \cup {None}] /\ pc' \in [Callers -> Places]
      <3>1. CASE UNCHANGED goal /\ pc' = [pc EXCEPT ![c] = "done"]
        BY <3>1
      <3>2. ASSUME NEW x \in Goals,
                   goal' = [goal EXCEPT ![c] = x], pc' = [pc EXCEPT ![c] = "check"]
            PROVE  goal' \in [Callers -> Goals \cup {None}] /\ pc' \in [Callers -> Places]
        BY <3>2
      <3>3. QED
        BY <1>3, <3>1, <3>2, ChooseStep
    <2>2. QED
      BY <1>3, <2>1 DEF Choose
  <1>4. CASE ScanFails(c)
    BY <1>4 DEF ScanFails
  <1>5. QED
    BY <1>1, <1>2, <1>3, <1>4 DEF Look

\* The checks and the batch keep the types.
LEMMA BatchType ==
  ASSUME TypeOK, GoalsSet, NEW c \in Callers,
         \/ CheckCanonical(c) \/ CheckDuplicates(c) \/ FindAbsent(c) \/ ReadBatch(c)
         \/ (\E m \in Memories : Write(c, m)) \/ (\E m \in Memories : WriteFails(c, m))
         \/ ReadBack(c) \/ BatchReadFails(c)
  PROVE  TypeOK'
  <1> USE DEF TypeOK, points, graph, transit, batch, bounds, history
  <1>g. pc[c] \in Merging => goal[c] # None
    BY DEF GoalsSet
  <1>1. CASE CheckCanonical(c)
    BY <1>1 DEF CheckCanonical, Places, Merging
  <1>2. CASE CheckDuplicates(c)
    <2>1. goal[c].duplicates \subseteq Memories
      BY <1>g, <1>2, GoalType DEF CheckDuplicates, Merging
    <2>2. Noted \in Replies
      BY DEF Noted, Replies
    <2>3. /\ todo' \in [Callers -> SUBSET Memories] /\ pending' \in [Callers -> SUBSET Memories]
      <3>1. ToSupersede(c) \subseteq Memories
        BY DEF ToSupersede
      <3>2. QED
        BY <1>2, <3>1 DEF CheckDuplicates
    <2>6. pc' \in [Callers -> Places] /\ reply' \in [Callers -> Replies \cup {None}]
      <3>1. CASE ToSupersede(c) = {}
        BY <1>2, <2>2, <3>1 DEF CheckDuplicates, Places
      <3>2. CASE ToSupersede(c) # {}
        BY <1>2, <3>2 DEF CheckDuplicates, Places, Merging
      <3>3. QED
        BY <3>1, <3>2
    <2>4. outcome' \in [Callers -> [Memories -> Outcomes]] /\ round' \in [Callers -> Nat]
      BY <1>2 DEF CheckDuplicates, Outcomes
    <2>5. QED
      BY <1>2, <2>3, <2>4, <2>6 DEF CheckDuplicates
  <1>3. CASE FindAbsent(c)
    <2>1. outcome' \in [Callers -> [Memories -> Outcomes]]
      BY <1>3 DEF FindAbsent, Outcomes
    <2>2. QED
      BY <1>3, <2>1 DEF FindAbsent, Places, Merging
  <1>4. CASE ReadBatch(c)
    <2>1. outcome' \in [Callers -> [Memories -> Outcomes]]
      BY <1>4 DEF ReadBatch, Outcomes
    <2>2. base' \in [Callers -> [Memories -> Stamps]]
      BY <1>4, Constants DEF ReadBatch
    <2>3. /\ pending' \in [Callers -> SUBSET Memories]
          /\ written' \in [Callers -> SUBSET (Memories \X Stamps)] /\ pc' \in [Callers -> Places]
          /\ \A d \in Callers : IsFiniteSet(written'[d])
      BY <1>4, FS_EmptySet DEF ReadBatch, Places, Merging
    <2>4. QED
      BY <1>4, <2>1, <2>2, <2>3 DEF ReadBatch
  <1>5. ASSUME NEW m \in Memories, Write(c, m) PROVE TypeOK'
    <2>1. Stamp(c) \in Stamps /\ Canonical(c) \in Memories /\ base[c][m] \in Stamps
      BY <1>g, <1>5, StampType, GoalType DEF Write, Merging
    <2>2. /\ live' \subseteq Memories /\ marker' \in [Memories -> Memories \cup {None}]
          /\ rev' \in [Memories -> Stamps] /\ log' \in [Memories -> SUBSET Stamps]
          /\ ever' \subseteq Memories \X Memories
      BY <1>5, <2>1, MarkType DEF Write
    <2>3. /\ sent' \in [Callers -> Nat] /\ written' \in [Callers -> SUBSET (Memories \X Stamps)]
          /\ pending' \in [Callers -> SUBSET Memories] /\ pc' \in [Callers -> Places]
      BY <1>5, <2>1 DEF Write, Places, Merging
    <2>4. \A d \in Callers : IsFiniteSet(written'[d])
      BY <1>5, FS_AddElement DEF Write
    <2>5. QED
      BY <1>5, <2>2, <2>3, <2>4 DEF Write
  <1>6. ASSUME NEW m \in Memories, WriteFails(c, m) PROVE TypeOK'
    <2>1. Stamp(c) \in Stamps /\ Canonical(c) \in Memories /\ base[c][m] \in Stamps
      BY <1>g, <1>6, StampType, GoalType DEF WriteFails, Merging
    <2>2. net' \subseteq [mem : Memories, base : Stamps, tok : Stamps, to : Memories]
      BY <1>6, <2>1 DEF WriteFails, Request
    <2>3. outcome' \in [Callers -> [Memories -> Outcomes]]
      BY <1>6 DEF WriteFails, Outcomes
    <2>4. /\ sent' \in [Callers -> Nat] /\ faults' \in Nat
          /\ pending' \in [Callers -> SUBSET Memories] /\ pc' \in [Callers -> Places]
      BY <1>6 DEF WriteFails, Places, Merging
    <2>5. QED
      BY <1>6, <2>2, <2>3, <2>4 DEF WriteFails
  <1>7. CASE ReadBack(c)
    <2>1. PICK v \in [written[c] -> {"landed", "lost", "deleted", "unconfirmed"}] :
            ReadBackAs(c, v)
      BY <1>7 DEF ReadBack
    <2> DEFINE unsure == {w \in written[c] : v[w] = "unconfirmed"}
               Of(m) == CHOOSE w \in written[c] : w[1] = m
    <2>2. faults' \in Nat
      <3>1. Cardinality(unsure) \in Nat
        BY FS_Subset, FS_CardinalityType
      <3>2. Cardinality(unsure) <= faults /\ faults' = faults - Cardinality(unsure)
        BY <2>1 DEF ReadBackAs
      <3>3. QED
        BY <3>1, <3>2
    <2>3. outcome' \in [Callers -> [Memories -> Outcomes]]
      <3>1. \A m \in Memories : (\E w \in written[c] : w[1] = m) =>
              v[Of(m)] \in {"landed", "lost", "deleted", "unconfirmed"}
        OBVIOUS
      <3>2. [m \in Memories |-> IF \E w \in written[c] : w[1] = m
               THEN IF v[Of(m)] = "lost"
                      THEN (IF round[c] + 1 = Rounds THEN "unconfirmed" ELSE "none")
                      ELSE v[Of(m)]
               ELSE outcome[c][m]] \in [Memories -> Outcomes]
        BY <3>1 DEF Outcomes
      <3>3. QED
        BY <2>1, <3>2 DEF ReadBackAs
    <2> DEFINE lost == {w \in written[c] : v[w] = "lost"}
    <2>4. /\ pc' \in [Callers -> Places] /\ pending' \in [Callers -> SUBSET Memories]
          /\ round' \in [Callers -> Nat]
      <3>1. CASE lost = {} \/ round[c] + 1 = Rounds
        BY <2>1, <3>1 DEF ReadBackAs, Places, Merging
      <3>2. CASE ~ (lost = {} \/ round[c] + 1 = Rounds)
        <4>1. {w[1] : w \in lost} \subseteq Memories
          OBVIOUS
        <4>2. /\ pc' = [pc EXCEPT ![c] = "read"] /\ round' = [round EXCEPT ![c] = @ + 1]
              /\ pending' = [pending EXCEPT ![c] = {w[1] : w \in lost}]
          BY <2>1, <3>2 DEF ReadBackAs
        <4>3. pending' \in [Callers -> SUBSET Memories]
          BY <4>1, <4>2
        <4>4. QED
          BY <4>2, <4>3 DEF Places, Merging
      <3>3. QED
        BY <3>1, <3>2
    <2>5. /\ written' \in [Callers -> SUBSET (Memories \X Stamps)]
          /\ \A d \in Callers : IsFiniteSet(written'[d])
      BY <1>7, FS_EmptySet DEF ReadBack
    <2>6. QED
      BY <1>7, <2>2, <2>3, <2>4, <2>5 DEF ReadBack
  <1>8. CASE BatchReadFails(c)
    BY <1>8 DEF BatchReadFails, Places, Merging
  <1>9. QED
    BY <1>1, <1>2, <1>3, <1>4, <1>5, <1>6, <1>7, <1>8

\* What a query on edges may match.
LEMMA EdgesType ==
  ASSUME TypeOK, NEW c \in Callers, goal[c] # None, reply[c] # None
  PROVE  EdgesOf(c) \subseteq Memories \X Memories
  BY GoalType DEF TypeOK, EdgesOf, Replies

\* The reply, the edges, the retries and what is cut off keep the types.
LEMMA ReplyType ==
  ASSUME TypeOK, GoalsSet, NEW c \in Callers,
         \/ Settle(c) \/ Reread(c) \/ RereadFails(c) \/ WriteEdges(c) \/ WriteEdgesFail(c)
         \/ CutOff(c) \/ Retry(c)
  PROVE  TypeOK'
  <1> USE DEF TypeOK, points, graph, transit, batch, bounds, history
  <1>g. pc[c] \in Merging => goal[c] # None
    BY DEF GoalsSet
  <1>e. pc[c] = "edges" => EdgesOf(c) \subseteq Memories \X Memories
    BY <1>g, EdgesType DEF GoalsSet, Merging
  <1>r. \A s, p, d \in SUBSET Memories : [superseded |-> s, plain |-> p, doubt |-> d] \in Replies
    BY DEF Replies
  <1>1. CASE Settle(c)
    <2>1. [Noted EXCEPT !.superseded = todo[c]] \in Replies
      BY DEF Noted, Replies
    <2>2. CASE Succeeds(c)
      <3>1. PICK r \in Replies : reply' = [reply EXCEPT ![c] = r]
        BY <1>1, <2>1, <2>2 DEF Settle
      <3>2. reply' \in [Callers -> Replies \cup {None}]
        BY <3>1
      <3>3. QED
        BY <1>1, <2>2, <3>2 DEF Settle, Places, Merging
    <2>3. CASE ~ Succeeds(c)
      BY <1>1, <2>3 DEF Settle, Places, Merging
    <2>4. QED
      BY <2>2, <2>3
  <1>2. CASE Reread(c)
    <2>1. [superseded |-> Marked(c), plain |-> todo[c] \ Marked(c), doubt |-> {}] \in Replies
      BY <1>r DEF Marked
    <2>2. QED
      BY <1>2, <2>1 DEF Reread, Places, Merging
  <1>3. CASE RereadFails(c)
    <2>1. [Noted EXCEPT !.doubt = todo[c]] \in Replies
      BY DEF Noted, Replies
    <2>2. QED
      BY <1>3, <2>1 DEF RereadFails, Places, Merging
  <1>4. CASE WriteEdges(c)
    BY <1>4, <1>e DEF WriteEdges, Matching, Told, Places, Merging
  <1>5. CASE WriteEdgesFail(c)
    BY <1>5, <1>e DEF WriteEdgesFail, Told, Places, Merging
  <1>6. CASE CutOff(c)
    <2>1. lateEdges' \subseteq Memories \X Memories
      BY <1>6, <1>e DEF CutOff
    <2>2. /\ net' \subseteq [mem : Memories, base : Stamps, tok : Stamps, to : Memories]
          /\ sent' \in [Callers -> Nat]
      <3>1. CASE UNCHANGED <<net, sent>>
        BY <3>1
      <3>2. CASE ~ UNCHANGED <<net, sent>>
        <4>0. sent' = [sent EXCEPT ![c] = @ + 1]
          BY <1>6, <3>2 DEF CutOff
        <4>1. PICK m \in pending[c] : net' = net \cup {Request(c, m)}
          BY <1>6, <3>2 DEF CutOff
        <4>2. Stamp(c) \in Stamps /\ Canonical(c) \in Memories /\ base[c][m] \in Stamps
          BY <1>g, <1>6, StampType, GoalType DEF CutOff, Merging
        <4>3. Request(c, m) \in [mem : Memories, base : Stamps, tok : Stamps, to : Memories]
          BY <4>2 DEF Request
        <4>4. QED
          BY <4>0, <4>1, <4>3
      <3>3. QED
        BY <3>1, <3>2
    <2>3. /\ pc' \in [Callers -> Places] /\ reply' \in [Callers -> Replies \cup {None}]
          /\ faults' \in Nat
      BY <1>6 DEF CutOff, Places
    <2>4. QED
      BY <1>6, <2>1, <2>2, <2>3 DEF CutOff
  <1>7. CASE Retry(c)
    BY <1>7 DEF Retry, Places, Merging
  <1>8. QED
    BY <1>1, <1>2, <1>3, <1>4, <1>5, <1>6, <1>7

\* What else happens keeps the types.
LEMMA OthersType ==
  ASSUME TypeOK, Others
  PROVE  TypeOK'
  <1> USE DEF TypeOK, points, graph, transit, batch, bounds, history
  <1>1. ASSUME NEW q \in net, LandLate(q) PROVE TypeOK'
    <2>1. /\ live' \subseteq Memories /\ marker' \in [Memories -> Memories \cup {None}]
          /\ rev' \in [Memories -> Stamps] /\ log' \in [Memories -> SUBSET Stamps]
          /\ ever' \subseteq Memories \X Memories
      BY <1>1, MarkType DEF LandLate
    <2>2. QED
      BY <1>1, <2>1 DEF LandLate
  <1>2. ASSUME NEW e \in lateEdges, LandLateEdge(e) PROVE TypeOK'
    BY <1>2 DEF LandLateEdge, Matching
  <1>3. ASSUME NEW m \in Memories, DeletePoint(m) PROVE TypeOK'
    BY <1>3, Constants DEF DeletePoint
  <1>4. ASSUME NEW m \in Memories, DeleteNode(m) PROVE TypeOK'
    BY <1>4 DEF DeleteNode
  <1>5. ASSUME NEW m \in Memories, Touch(m) PROVE TypeOK'
    <2>1. <<None, events>> \in Stamps
      BY DEF Stamps
    <2>2. rev' \in [Memories -> Stamps]
      BY <1>5, <2>1 DEF Touch
    <2>3. log' \in [Memories -> SUBSET Stamps]
      BY <1>5, <2>1 DEF Touch
    <2>4. QED
      BY <1>5, <2>2, <2>3 DEF Touch
  <1>6. QED
    BY <1>1, <1>2, <1>3, <1>4, <1>5 DEF Others

\* Every step keeps the types.
LEMMA NextType ==
  ASSUME TypeOK, GoalsSet, [Next]_vars
  PROVE  TypeOK'
  <1>1. CASE UNCHANGED vars
    BY <1>1 DEF TypeOK, vars, points, graph, transit, batch, bounds, history
  <1>2. CASE Next
    BY <1>2, LookType, BatchType, ReplyType, OthersType DEF Next, MergeStep, Fault
  <1>3. QED
    BY <1>1, <1>2

-----------------------------------------------------------------------------
(* Goals, and what is known of the writes *)

LEMMA InitInv == Init => DupInv
  <1> SUFFICES ASSUME Init PROVE DupInv
    OBVIOUS
  <1>1. TypeOK
    BY InitType
  <1>2. /\ \A c \in Callers : pc[c] \in {"idle", "done"} /\ goal[c] = None /\ reply[c] = None
        /\ \A c \in Callers : written[c] = {}
        /\ \A c \in Callers : \A m \in Memories : outcome[c][m] = "none"
        /\ \A m \in Memories : log[m] = {}
        /\ net = {} /\ edges = {} /\ lateEdges = {} /\ live = Memories
        /\ ever = {<<m, marker[m]>> : m \in {n \in Memories : marker[n] # None}}
    BY DEF Init
  <1>3. GoalsSet
    BY <1>2 DEF GoalsSet, Merging
  <1>4. Known
    BY <1>2 DEF Known, MarkersKnown, LogsKnown, NetKnown, BatchKnown
  <1>5. ReplyHolds /\ EdgesHaveMarkers
    BY <1>2 DEF ReplyHolds, EdgesHaveMarkers
  <1>6. Whole /\ DoneIsMerged
    <2>1. leaving = {} /\ Memories \ nodes \subseteq bare
      BY DEF Init
    <2>2. QED
      BY <1>2, <2>1 DEF Whole, NodesKnown, WholeBatch, DoneIsMerged
  <1>7. QED
    BY <1>1, <1>3, <1>4, <1>5, <1>6 DEF DupInv

\* A goal, once chosen, stays.
LEMMA GoalKept ==
  ASSUME TypeOK, GoalsSet, [Next]_vars, NEW c \in Callers, goal[c] # None
  PROVE  goal'[c] = goal[c] /\ Canonical(c)' = Canonical(c)
  <1>1. CASE UNCHANGED goal
    BY <1>1 DEF Canonical
  <1>2. ASSUME NEW d \in Callers, Choose(d) PROVE goal'[c] = goal[c]
    <2>1. goal[d] = None
      BY <1>2 DEF Choose, GoalsSet
    <2>2. d # c
      BY <2>1
    <2>3. QED
      BY <1>2, <2>2 DEF Choose, TypeOK
  <1>3. UNCHANGED goal \/ \E d \in Callers : Choose(d)
    BY DEF Next, Others, LandLate, LandLateEdge, DeletePoint, DeleteNode, Touch, Look, FirstPage,
           NextPage, MergeStep, CheckCanonical, CheckDuplicates, FindAbsent, ReadBatch, Write,
           ReadBack, Settle, Reread, WriteEdges, Retry, Fault, ScanFails, WriteFails,
           BatchReadFails, RereadFails, WriteEdgesFail, CutOff, vars
  <1>4. QED
    BY <1>1, <1>2, <1>3 DEF Canonical

\* A merge that moves on keeps the rule of goals and replies.
LEMMA MoveOn ==
  ASSUME TypeOK, GoalsSet, NEW c \in Callers, pc[c] \in Merging \cup {"retry"}, UNCHANGED goal,
         NEW p \in Merging \cup {"done", "refused", "retry"}, pc' = [pc EXCEPT ![c] = p],
         NEW r, reply' = [reply EXCEPT ![c] = r], p = "edges" => r # None
  PROVE  GoalsSet'
  BY DEF GoalsSet, TypeOK, Merging

LEMMA MoveOnly ==
  ASSUME TypeOK, GoalsSet, NEW c \in Callers, pc[c] \in Merging \cup {"retry"},
         NEW p \in (Merging \ {"edges"}) \cup {"done", "refused", "retry"},
         pc' = [pc EXCEPT ![c] = p], UNCHANGED <<goal, reply>>
  PROVE  GoalsSet'
  BY DEF GoalsSet, TypeOK, Merging

\* Calls have goals and replies when they should.
LEMMA NextGoals ==
  ASSUME TypeOK, GoalsSet, [Next]_vars
  PROVE  GoalsSet'
  <1>0. None \notin Replies /\ None \notin Goals
    BY DuplicatesAssumption
  <1>1. CASE UNCHANGED <<pc, goal, reply>>
    BY <1>1 DEF GoalsSet
  <1>2. ASSUME NEW c \in Callers, FirstPage(c) \/ NextPage(c) \/ ScanFails(c) PROVE GoalsSet'
    <2>1. pc[c] \in {"idle", "more", "found"} /\ UNCHANGED <<goal, reply>>
      BY <1>2 DEF FirstPage, NextPage, ScanFails
    <2>2. PICK p \in {"idle", "more", "found"} : pc' = [pc EXCEPT ![c] = p]
      BY <1>2 DEF FirstPage, NextPage, ScanFails
    <2>3. QED
      BY <2>1, <2>2 DEF GoalsSet, TypeOK, Merging
  <1>3. ASSUME NEW c \in Callers, Choose(c) PROVE GoalsSet'
    <2>1. pc[c] = "found" /\ reply' = reply /\ goal[c] = None /\ reply[c] = None
      BY <1>3, ChooseStep DEF GoalsSet, TypeOK
    <2>2. CASE UNCHANGED goal /\ pc' = [pc EXCEPT ![c] = "done"]
      BY <2>1, <2>2 DEF GoalsSet, TypeOK, Merging
    <2>3. ASSUME NEW x \in Goals, goal' = [goal EXCEPT ![c] = x], pc' = [pc EXCEPT ![c] = "check"]
          PROVE  GoalsSet'
      BY <1>0, <2>1, <2>3 DEF GoalsSet, TypeOK, Merging
    <2>4. QED
      BY <1>3, <2>2, <2>3, ChooseStep DEF TypeOK
  <1>4. ASSUME NEW c \in Callers, CheckCanonical(c) PROVE GoalsSet'
    <2>1. PICK p \in {"exist", "refused"} : pc' = [pc EXCEPT ![c] = p]
      BY <1>4 DEF CheckCanonical
    <2>2. QED
      BY <1>4, <2>1, MoveOn DEF CheckCanonical, Merging
  <1>5. ASSUME NEW c \in Callers, CheckDuplicates(c) PROVE GoalsSet'
    <2>1. CASE ToSupersede(c) = {}
      BY <1>5, <2>1, MoveOn DEF CheckDuplicates, Merging
    <2>2. CASE ToSupersede(c) # {}
      BY <1>5, <2>2, MoveOnly DEF CheckDuplicates, Merging
    <2>3. QED
      BY <2>1, <2>2
  <1>6. ASSUME NEW c \in Callers,
               \/ FindAbsent(c) \/ ReadBatch(c) \/ (\E m \in Memories : Write(c, m))
               \/ (\E m \in Memories : WriteFails(c, m)) \/ ReadBack(c) \/ BatchReadFails(c)
               \/ Retry(c)
        PROVE  GoalsSet'
    <2>1. UNCHANGED <<goal, reply>> /\ pc[c] \in Merging \cup {"retry"}
      BY <1>6 DEF FindAbsent, ReadBatch, Write, WriteFails, ReadBack, BatchReadFails, Retry, Merging
    <2>2. \E p \in (Merging \ {"edges"}) \cup {"done", "refused", "retry"} :
            pc' = [pc EXCEPT ![c] = p]
      BY <1>6 DEF FindAbsent, ReadBatch, Write, WriteFails, ReadBack, ReadBackAs, BatchReadFails,
                  Retry, Merging
    <2>3. QED
      BY <2>1, <2>2, MoveOnly
  <1>7. ASSUME NEW c \in Callers, Settle(c) PROVE GoalsSet'
    <2>1. [Noted EXCEPT !.superseded = todo[c]] \in Replies
      BY DEF Noted, Replies, TypeOK
    <2>2. CASE Succeeds(c)
      <3>1. PICK r \in Replies : reply' = [reply EXCEPT ![c] = r]
        BY <1>7, <2>1, <2>2 DEF Settle
      <3>2. QED
        BY <1>0, <1>7, <2>2, <3>1, MoveOn DEF Settle, Merging
    <2>3. CASE ~ Succeeds(c)
      BY <1>7, <2>3, MoveOnly DEF Settle, Merging
    <2>4. QED
      BY <2>2, <2>3
  <1>8. ASSUME NEW c \in Callers, Reread(c) PROVE GoalsSet'
    <2>1. [superseded |-> Marked(c), plain |-> todo[c] \ Marked(c), doubt |-> {}] \in Replies
      BY DEF Marked, Replies, TypeOK
    <2>2. QED
      BY <1>0, <1>8, <2>1, MoveOn DEF Reread, Merging
  <1>9. ASSUME NEW c \in Callers, RereadFails(c) \/ CutOff(c) PROVE GoalsSet'
    BY <1>9, MoveOn DEF RereadFails, CutOff, Merging
  <1>10. ASSUME NEW c \in Callers, WriteEdges(c) \/ WriteEdgesFail(c) PROVE GoalsSet'
    BY <1>10, MoveOnly DEF WriteEdges, WriteEdgesFail, Told, Merging
  <1>11. Others => UNCHANGED <<pc, goal, reply>>
    BY DEF Others, LandLate, LandLateEdge, DeletePoint, DeleteNode, Touch
  <1>12. QED
    BY <1>1, <1>2, <1>3, <1>4, <1>5, <1>6, <1>7, <1>8, <1>9, <1>10, <1>11
       DEF Next, Look, MergeStep, Fault, vars

\* Who changes the points, and what the change leaves of them.
LEMMA PointSteps ==
  ASSUME TypeOK, GoalsSet, NetKnown, [Next]_vars
  PROVE  \/ UNCHANGED <<live, marker, log, ever, deleted>>
         \/ \E m \in Memories, r \in Stamps, tok \in Stamps, c \in Callers :
              /\ Mark(m, r, tok, Canonical(c)) /\ tok[1] = c /\ goal[c] # None
              /\ UNCHANGED deleted
         \/ \E m \in Memories : DeletePoint(m)
         \/ \E m \in Memories : Touch(m)
  <1> DEFINE Marks == \E m \in Memories, r \in Stamps, tok \in Stamps, c \in Callers :
                /\ Mark(m, r, tok, Canonical(c)) /\ tok[1] = c /\ goal[c] # None
                /\ UNCHANGED deleted
  <1>1. ASSUME NEW c \in Callers, NEW m \in Memories, Write(c, m) PROVE Marks
    <2>1. Mark(m, base[c][m], Stamp(c), Canonical(c)) /\ UNCHANGED deleted /\ goal[c] # None
      BY <1>1 DEF Write, GoalsSet, Merging
    <2>2. Stamp(c) \in Stamps /\ Stamp(c)[1] = c /\ base[c][m] \in Stamps
      BY StampType DEF TypeOK
    <2>3. QED
      BY <2>1, <2>2
  <1>2. ASSUME NEW q \in net, LandLate(q) PROVE Marks
    <2>1. /\ q.mem \in Memories /\ q.base \in Stamps /\ q.tok \in Stamps /\ q.tok[1] \in Callers
          /\ goal[q.tok[1]] # None /\ q.to = Canonical(q.tok[1])
      BY DEF TypeOK, NetKnown, Stamps
    <2>2. Mark(q.mem, q.base, q.tok, q.to) /\ UNCHANGED deleted
      BY <1>2 DEF LandLate
    <2>3. QED
      BY <2>1, <2>2
  <1>3. ASSUME NEW c \in Callers,
               \/ Look(c) \/ Fault(c) \/ CheckCanonical(c) \/ CheckDuplicates(c) \/ FindAbsent(c)
               \/ ReadBatch(c) \/ ReadBack(c) \/ Settle(c) \/ Reread(c) \/ WriteEdges(c) \/ Retry(c)
        PROVE  UNCHANGED <<live, marker, log, ever, deleted>>
    BY <1>3 DEF Look, FirstPage, NextPage, Choose, Fault, ScanFails, WriteFails, BatchReadFails,
                RereadFails, WriteEdgesFail, CutOff, CheckCanonical, CheckDuplicates, FindAbsent,
                ReadBatch, ReadBack, Settle, Reread, WriteEdges, Retry, points, history
  <1>4. ASSUME \/ \E e \in lateEdges : LandLateEdge(e)
               \/ \E m \in Memories : DeleteNode(m)
        PROVE  UNCHANGED <<live, marker, log, ever, deleted>>
    BY <1>4 DEF LandLateEdge, DeleteNode, points, history
  <1>5. UNCHANGED vars => UNCHANGED <<live, marker, log, ever, deleted>>
    BY DEF vars, points, history
  <1>6. QED
    BY <1>1, <1>2, <1>3, <1>4, <1>5 DEF Next, Others, MergeStep

\* What has been marked or deleted stays in the history.
LEMMA HistoryGrows ==
  ASSUME TypeOK, GoalsSet, NetKnown, [Next]_vars
  PROVE  ever \subseteq ever' /\ deleted \subseteq deleted'
  <1>1. ASSUME NEW m \in Memories, NEW r \in Stamps, NEW tok \in Stamps, NEW k,
               Mark(m, r, tok, k), UNCHANGED deleted
        PROVE  ever \subseteq ever' /\ deleted \subseteq deleted'
    BY <1>1 DEF Mark
  <1>2. ASSUME NEW m \in Memories, DeletePoint(m) \/ Touch(m)
        PROVE  ever \subseteq ever' /\ deleted \subseteq deleted'
    BY <1>2 DEF DeletePoint, Touch, history
  <1>3. QED
    BY <1>1, <1>2, PointSteps

\* Markers and logs go on agreeing with the history.
LEMMA NextPoints ==
  ASSUME TypeOK, GoalsSet, MarkersKnown, LogsKnown, NetKnown, [Next]_vars
  PROVE  MarkersKnown' /\ LogsKnown'
  <1>1. ever \subseteq ever' /\ deleted \subseteq deleted'
    BY HistoryGrows
  <1>2. \A c \in Callers : goal[c] # None => goal'[c] # None /\ Canonical(c)' = Canonical(c)
    BY GoalKept
  \* What was in a log is known as before.
  <1>3. ASSUME NEW m \in Memories, NEW tok \in log[m], tok[1] # None
        PROVE  goal'[tok[1]] # None /\ <<m, Canonical(tok[1])'>> \in ever'
    <2>1. tok[1] \in Callers /\ goal[tok[1]] # None /\ <<m, Canonical(tok[1])>> \in ever
      BY <1>3 DEF LogsKnown, TypeOK, Stamps
    <2>2. QED
      BY <1>1, <1>2, <2>1
  <1>4. CASE UNCHANGED <<live, marker, log, ever, deleted>>
    <2>1. MarkersKnown'
      BY <1>4 DEF MarkersKnown
    <2>2. LogsKnown'
      BY <1>3, <1>4 DEF LogsKnown
    <2>3. QED
      BY <2>1, <2>2
  <1>5. ASSUME NEW m \in Memories, NEW r \in Stamps, NEW tok \in Stamps, NEW c \in Callers,
               Mark(m, r, tok, Canonical(c)), tok[1] = c, goal[c] # None, UNCHANGED deleted
        PROVE  MarkersKnown' /\ LogsKnown'
    <2>1. CASE m \in live /\ rev[m] = r
      <3>1. /\ marker' = [marker EXCEPT ![m] = Canonical(c)] /\ live' = live
            /\ log' = [log EXCEPT ![m] = @ \cup {tok}] /\ ever' = ever \cup {<<m, Canonical(c)>>}
        BY <1>5, <2>1 DEF Mark
      <3>2. MarkersKnown'
        BY <1>5, <3>1 DEF MarkersKnown, TypeOK
      <3>3. ASSUME NEW n \in Memories, NEW t \in log'[n], t[1] # None
            PROVE  goal'[t[1]] # None /\ <<n, Canonical(t[1])'>> \in ever'
        <4>1. CASE t \in log[n]
          BY <1>3, <3>3, <4>1
        <4>2. CASE t \notin log[n]
          <5>1. n = m /\ t = tok
            BY <3>1, <3>3, <4>2 DEF TypeOK
          <5>2. goal'[c] # None /\ Canonical(c)' = Canonical(c)
            BY <1>2, <1>5
          <5>3. QED
            BY <1>5, <3>1, <5>1, <5>2
        <4>3. QED
          BY <4>1, <4>2
      <3>4. LogsKnown'
        BY <3>3 DEF LogsKnown
      <3>5. QED
        BY <3>2, <3>4
    <2>2. CASE ~ (m \in live /\ rev[m] = r)
      BY <1>4, <1>5, <2>2 DEF Mark, points
    <2>3. QED
      BY <2>1, <2>2
  <1>6. ASSUME NEW m \in Memories, DeletePoint(m) PROVE MarkersKnown' /\ LogsKnown'
    <2>1. /\ marker' = [marker EXCEPT ![m] = None] /\ live' = live \ {m}
          /\ log' = [log EXCEPT ![m] = {}] /\ ever' = ever /\ deleted' = deleted \cup {m}
      BY <1>6 DEF DeletePoint
    <2>2. MarkersKnown'
      BY <2>1 DEF MarkersKnown, TypeOK
    <2>3. \A n \in Memories : log'[n] \subseteq log[n]
      BY <2>1 DEF TypeOK
    <2>4. LogsKnown'
      BY <1>3, <2>3 DEF LogsKnown
    <2>5. QED
      BY <2>2, <2>4
  <1>7. ASSUME NEW m \in Memories, Touch(m) PROVE MarkersKnown' /\ LogsKnown'
    <2>1. /\ marker' = marker /\ live' = live \cup {m} /\ ever' = ever /\ deleted' = deleted
          /\ log' = [log EXCEPT ![m] = @ \cup {<<None, events>>}]
      BY <1>7 DEF Touch, history
    <2>2. MarkersKnown'
      BY <2>1 DEF MarkersKnown
    <2>3. \A n \in Memories : \A t \in log'[n] : t[1] # None => t \in log[n]
      BY <2>1 DEF TypeOK
    <2>4. LogsKnown'
      BY <1>3, <2>3 DEF LogsKnown
    <2>5. QED
      BY <2>2, <2>4
  <1>8. QED
    BY <1>4, <1>5, <1>6, <1>7, PointSteps

\* A request under way carries the goal of the call that sent it.
LEMMA NextNet ==
  ASSUME TypeOK, GoalsSet, NetKnown, [Next]_vars
  PROVE  NetKnown'
  <1>1. ASSUME NEW q \in net
        PROVE q.tok[1] # None /\ goal'[q.tok[1]] # None /\ q.to = Canonical(q.tok[1])'
    <2>1. q.tok[1] \in Callers /\ goal[q.tok[1]] # None /\ q.to = Canonical(q.tok[1])
      BY DEF NetKnown, TypeOK, Stamps
    <2>2. QED
      BY <2>1, Constants, GoalKept
  <1>2. CASE net' \subseteq net
    BY <1>1, <1>2 DEF NetKnown
  <1>3. ASSUME NEW c \in Callers, NEW m \in Memories, net' = net \cup {Request(c, m)},
               pc[c] \in Merging
        PROVE  NetKnown'
    <2>1. goal[c] # None /\ Stamp(c)[1] = c
      BY <1>3, StampType DEF GoalsSet, TypeOK
    <2>2. goal'[c] # None /\ Canonical(c)' = Canonical(c)
      BY <2>1, GoalKept
    <2>3. Request(c, m).tok[1] = c /\ Request(c, m).to = Canonical(c)
      BY <2>1 DEF Request
    <2>4. QED
      BY <1>1, <1>3, <2>2, <2>3, Constants DEF NetKnown
  <1>4. ASSUME NEW c \in Callers, NEW m \in Memories, WriteFails(c, m) PROVE NetKnown'
    BY <1>3, <1>4 DEF WriteFails, Merging
  <1>5. ASSUME NEW c \in Callers, CutOff(c) PROVE NetKnown'
    <2>1. CASE UNCHANGED net
      BY <1>2, <2>1
    <2>2. CASE ~ UNCHANGED net
      <3>1. PICK m \in pending[c] : net' = net \cup {Request(c, m)}
        BY <1>5, <2>2 DEF CutOff
      <3>2. QED
        BY <1>3, <1>5, <3>1 DEF CutOff, TypeOK
    <2>3. QED
      BY <2>1, <2>2
  <1>6. \/ net' \subseteq net
        \/ \E c \in Callers : CutOff(c) \/ \E m \in Memories : WriteFails(c, m)
    BY DEF Next, Others, LandLate, LandLateEdge, DeletePoint, DeleteNode, Touch, Look, FirstPage,
           NextPage, Choose, MergeStep, CheckCanonical, CheckDuplicates, FindAbsent, ReadBatch,
           Write, ReadBack, Settle, Reread, WriteEdges, Retry, Fault, ScanFails, BatchReadFails,
           RereadFails, WriteEdgesFail, vars, transit
  <1>7. QED
    BY <1>2, <1>4, <1>5, <1>6

\* What a batch found out is so.
LEMMA NextBatch ==
  ASSUME TypeOK, GoalsSet, Known, [Next]_vars, NEW c \in Callers
  PROVE  BatchKnown(c)'
  <1>1. ever \subseteq ever' /\ deleted \subseteq deleted'
    BY HistoryGrows DEF Known
  <1>2. goal[c] # None => goal'[c] # None /\ Canonical(c)' = Canonical(c)
    BY GoalKept
  <1>3. BatchKnown(c)
    BY DEF Known
  <1>4. CASE written'[c] \subseteq written[c] \cup {<<m, Stamp(c)>> : m \in Memories}
             /\ \A m \in Memories :
                  \/ outcome'[c][m] \notin {"landed", "deleted"}
                  \/ outcome'[c][m] = outcome[c][m]
                  \/ outcome'[c][m] = "landed" /\ goal[c] # None /\ <<m, Canonical(c)>> \in ever
                  \/ outcome'[c][m] = "deleted" /\ m \notin live
    <2>1. \A w \in written'[c] : w[2][1] = c
      BY <1>3, <1>4, StampType DEF BatchKnown, TypeOK
    <2>2. \A m \in Memories : m \notin live => m \in deleted
      BY DEF Known, MarkersKnown
    <2>3. ASSUME NEW m \in Memories
          PROVE  /\ outcome'[c][m] = "landed" => goal'[c] # None /\ <<m, Canonical(c)'>> \in ever'
                 /\ outcome'[c][m] = "deleted" => m \in deleted'
      BY <1>1, <1>2, <1>3, <1>4, <2>2 DEF BatchKnown
    <2>4. QED
      BY <2>1, <2>3 DEF BatchKnown
  <1>5. CASE written'[c] = written[c] /\ outcome'[c] = outcome[c]
    BY <1>4, <1>5
  <1>6. CASE CheckDuplicates(c)
    BY <1>4, <1>6 DEF CheckDuplicates, TypeOK
  <1>7. CASE FindAbsent(c)
    BY <1>4, <1>7 DEF FindAbsent, TypeOK
  <1>8. CASE ReadBatch(c)
    BY <1>4, <1>8 DEF ReadBatch, TypeOK
  <1>9. ASSUME NEW m \in Memories, Write(c, m) PROVE BatchKnown(c)'
    BY <1>4, <1>9 DEF Write, TypeOK
  <1>10. ASSUME NEW m \in Memories, WriteFails(c, m) PROVE BatchKnown(c)'
    BY <1>4, <1>10 DEF WriteFails, TypeOK
  <1>11. CASE ReadBack(c)
    <2>1. PICK v \in [written[c] -> {"landed", "lost", "deleted", "unconfirmed"}] :
            ReadBackAs(c, v)
      BY <1>11 DEF ReadBack
    <2> DEFINE Of(m) == CHOOSE w \in written[c] : w[1] = m
    <2>2. ASSUME NEW m \in Memories
          PROVE  \/ outcome'[c][m] \notin {"landed", "deleted"}
                 \/ outcome'[c][m] = outcome[c][m]
                 \/ outcome'[c][m] = "landed" /\ goal[c] # None /\ <<m, Canonical(c)>> \in ever
                 \/ outcome'[c][m] = "deleted" /\ m \notin live
      <3>1. CASE \E w \in written[c] : w[1] = m
        <4>1. Of(m) \in written[c] /\ Of(m)[1] = m
          BY <3>1
        <4>2. v[Of(m)] \in Verdicts(c, m, Of(m)[2])
          BY <2>1, <4>1 DEF ReadBackAs
        <4>3. \/ outcome'[c][m] \in {"unconfirmed", "none"}
              \/ outcome'[c][m] = v[Of(m)]
          BY <2>1, <3>1 DEF ReadBackAs, TypeOK
        <4>4. v[Of(m)] = "landed" => Of(m)[2] \in log[m]
          BY <4>2 DEF Verdicts
        <4>5. v[Of(m)] = "deleted" => m \notin live
          BY <4>2 DEF Verdicts
        <4>6. Of(m)[2][1] = c
          BY <1>3, <4>1 DEF BatchKnown
        <4>7. v[Of(m)] = "landed" => goal[c] # None /\ <<m, Canonical(c)>> \in ever
          BY <4>4, <4>6, Constants DEF Known, LogsKnown
        <4>8. QED
          BY <4>3, <4>5, <4>7
      <3>2. CASE ~ \E w \in written[c] : w[1] = m
        BY <2>1, <3>2 DEF ReadBackAs, TypeOK
      <3>3. QED
        BY <3>1, <3>2
    <2>3. written'[c] = {}
      BY <1>11 DEF ReadBack, TypeOK
    <2>4. QED
      BY <1>4, <2>2, <2>3
  <1>12. ASSUME NEW d \in Callers, d # c,
                \/ CheckDuplicates(d) \/ FindAbsent(d) \/ ReadBatch(d)
                \/ (\E m \in Memories : Write(d, m)) \/ (\E m \in Memories : WriteFails(d, m))
                \/ ReadBack(d)
         PROVE  written'[c] = written[c] /\ outcome'[c] = outcome[c]
    BY <1>12 DEF CheckDuplicates, FindAbsent, ReadBatch, Write, WriteFails, ReadBack, ReadBackAs,
                 TypeOK
  <1>13. ASSUME NEW d \in Callers,
                \/ Look(d) \/ CheckCanonical(d) \/ Settle(d) \/ Reread(d) \/ WriteEdges(d)
                \/ Retry(d) \/ ScanFails(d) \/ BatchReadFails(d) \/ RereadFails(d)
                \/ WriteEdgesFail(d) \/ CutOff(d)
         PROVE  written' = written /\ outcome' = outcome
    BY <1>13 DEF Look, FirstPage, NextPage, Choose, CheckCanonical, Settle, Reread, WriteEdges,
                 Retry, ScanFails, BatchReadFails, RereadFails, WriteEdgesFail, CutOff, batch
  <1>14. Others \/ UNCHANGED vars => written' = written /\ outcome' = outcome
    BY DEF Others, LandLate, LandLateEdge, DeletePoint, DeleteNode, Touch, vars, batch
  <1>15. QED
    BY <1>5, <1>6, <1>7, <1>8, <1>9, <1>10, <1>11, <1>12, <1>13, <1>14
       DEF Next, MergeStep, Fault

-----------------------------------------------------------------------------
(* Replies and edges *)

\* What is settled stays so.
LEMMA SettledStays ==
  ASSUME TypeOK, GoalsSet, NetKnown, [Next]_vars, NEW m, NEW k, Settled(m, k)
  PROVE  Settled(m, k)'
  BY HistoryGrows DEF Settled

\* A reply goes on holding, and a new one holds.
LEMMA NextReplies ==
  ASSUME TypeOK, GoalsSet, Known, ReplyHolds, [Next]_vars
  PROVE  ReplyHolds'
  <1> SUFFICES ASSUME NEW c \in Callers, reply'[c] # None, NEW m \in reply'[c].superseded
               PROVE  Settled(m, Canonical(c))'
    BY DEF ReplyHolds
  <1>1. goal[c] # None => Canonical(c)' = Canonical(c)
    BY GoalKept
  <1>2. ASSUME goal[c] # None, Settled(m, Canonical(c)) PROVE Settled(m, Canonical(c))'
    BY <1>1, <1>2, HistoryGrows DEF Settled, Known
  <1>3. CASE reply'[c] = reply[c]
    BY <1>2, <1>3 DEF ReplyHolds, GoalsSet
  <1>4. CASE CheckCanonical(c) \/ CutOff(c)
    BY <1>4 DEF CheckCanonical, CutOff, TypeOK
  <1>5. CASE CheckDuplicates(c) \/ RereadFails(c)
    <2>1. CASE reply'[c] = reply[c]
      BY <1>3, <2>1
    <2>2. CASE reply'[c] # reply[c]
      <3>1. reply'[c] \in {Noted, [Noted EXCEPT !.doubt = todo[c]]}
        BY <1>5, <2>2 DEF CheckDuplicates, RereadFails, TypeOK
      <3>2. reply'[c].superseded = {}
        BY <3>1 DEF Noted
      <3>3. QED
        BY <3>2
    <2>3. QED
      BY <2>1, <2>2
  <1>6. CASE Settle(c)
    <2>1. CASE Succeeds(c)
      <3>1. reply'[c].superseded = todo[c]
        BY <1>6, <2>1 DEF Settle, Noted, TypeOK
      <3>2. m \in Memories /\ outcome[c][m] \in {"landed", "deleted"}
        BY <2>1, <3>1 DEF Succeeds, TypeOK
      <3>3. goal[c] # None /\ Settled(m, Canonical(c))
        BY <1>6, <3>2 DEF Known, BatchKnown, Settled, Settle, GoalsSet, Merging
      <3>4. QED
        BY <1>2, <3>3
    <2>2. CASE ~ Succeeds(c)
      BY <1>3, <1>6, <2>2 DEF Settle
    <2>3. QED
      BY <2>1, <2>2
  <1>7. CASE Reread(c)
    <2>1. reply'[c].superseded = Marked(c)
      BY <1>7 DEF Reread, TypeOK
    <2>2. goal[c] # None /\ Canonical(c) # None
      BY <1>7, GoalType, Constants DEF Reread, GoalsSet, Merging, TypeOK
    <2>3. m \in Memories /\ marker[m] = Canonical(c)
      BY <2>1 DEF Marked, TypeOK
    <2>4. Settled(m, Canonical(c))
      BY <2>2, <2>3 DEF Known, MarkersKnown, Settled
    <2>5. QED
      BY <1>2, <2>2, <2>4
  <1>8. ASSUME NEW d \in Callers, d # c,
               \/ CheckCanonical(d) \/ CutOff(d) \/ CheckDuplicates(d) \/ RereadFails(d)
               \/ Settle(d) \/ Reread(d)
        PROVE  reply'[c] = reply[c]
    BY <1>8 DEF CheckCanonical, CutOff, CheckDuplicates, RereadFails, Settle, Reread, TypeOK
  <1>9. ASSUME NEW d \in Callers,
               \/ Look(d) \/ FindAbsent(d) \/ ReadBatch(d) \/ (\E n \in Memories : Write(d, n))
               \/ (\E n \in Memories : WriteFails(d, n)) \/ ReadBack(d) \/ WriteEdges(d)
               \/ WriteEdgesFail(d) \/ Retry(d) \/ ScanFails(d) \/ BatchReadFails(d)
        PROVE  reply' = reply
    BY <1>9 DEF Look, FirstPage, NextPage, Choose, FindAbsent, ReadBatch, Write, WriteFails,
                ReadBack, WriteEdges, WriteEdgesFail, Retry, ScanFails, BatchReadFails
  <1>10. Others \/ UNCHANGED vars => reply' = reply
    BY DEF Others, LandLate, LandLateEdge, DeletePoint, DeleteNode, Touch, vars
  <1>11. QED
    BY <1>3, <1>4, <1>5, <1>6, <1>7, <1>8, <1>9, <1>10 DEF Next, MergeStep, Fault

\* An edge, written or on its way, comes from a reply that names its memory.
LEMMA NextEdges ==
  ASSUME TypeOK, GoalsSet, Known, ReplyHolds, EdgesHaveMarkers, [Next]_vars
  PROVE  EdgesHaveMarkers'
  <1>1. ASSUME NEW e \in edges \cup lateEdges PROVE Settled(e[2], e[1])'
    BY SettledStays DEF EdgesHaveMarkers, Known
  <1>2. CASE edges' \cup lateEdges' \subseteq edges \cup lateEdges
    BY <1>1, <1>2 DEF EdgesHaveMarkers
  <1>3. ASSUME NEW c \in Callers, pc[c] = "edges",
               edges' \cup lateEdges' \subseteq edges \cup lateEdges \cup EdgesOf(c)
        PROVE  EdgesHaveMarkers'
    <2>1. reply[c] # None
      BY <1>3 DEF GoalsSet
    <2>2. \A e \in EdgesOf(c) : Settled(e[2], e[1])
      BY <2>1 DEF EdgesOf, ReplyHolds
    <2>3. \A e \in EdgesOf(c) : Settled(e[2], e[1])'
      BY <2>2, SettledStays DEF Known
    <2>4. QED
      BY <1>1, <1>3, <2>3 DEF EdgesHaveMarkers
  <1>4. ASSUME NEW c \in Callers, WriteEdges(c) \/ WriteEdgesFail(c) PROVE EdgesHaveMarkers'
    BY <1>3, <1>4 DEF WriteEdges, WriteEdgesFail, Matching, transit, graph
  <1>5. ASSUME NEW c \in Callers, CutOff(c) PROVE EdgesHaveMarkers'
    <2>1. CASE pc[c] = "edges"
      BY <1>3, <1>5, <2>1 DEF CutOff, graph
    <2>2. CASE pc[c] # "edges"
      BY <1>2, <1>5, <2>2 DEF CutOff, graph
    <2>3. QED
      BY <2>1, <2>2
  <1>6. ASSUME NEW c \in Callers,
               \/ Look(c) \/ CheckCanonical(c) \/ CheckDuplicates(c) \/ FindAbsent(c) \/ ReadBatch(c)
               \/ (\E m \in Memories : Write(c, m)) \/ (\E m \in Memories : WriteFails(c, m))
               \/ ReadBack(c) \/ Settle(c) \/ Reread(c) \/ Retry(c) \/ ScanFails(c)
               \/ BatchReadFails(c) \/ RereadFails(c)
        PROVE  UNCHANGED <<edges, lateEdges>>
    BY <1>6 DEF Look, FirstPage, NextPage, Choose, CheckCanonical, CheckDuplicates, FindAbsent,
                ReadBatch, Write, WriteFails, ReadBack, Settle, Reread, Retry, ScanFails,
                BatchReadFails, RereadFails, graph, transit
  <1>7. Others \/ UNCHANGED vars => edges' \cup lateEdges' \subseteq edges \cup lateEdges
    BY DEF Others, LandLate, LandLateEdge, Matching, DeletePoint, DeleteNode, Touch, vars, graph,
           transit
  <1>8. QED
    BY <1>2, <1>4, <1>5, <1>6, <1>7 DEF Next, MergeStep, Fault

-----------------------------------------------------------------------------
(* What a merge leaves behind *)

\* What a call is about is its own business.
LEMMA OtherCalls ==
  ASSUME TypeOK, [Next]_vars, NEW c \in Callers, ~ (Look(c) \/ MergeStep(c) \/ Fault(c))
  PROVE  /\ pc'[c] = pc[c] /\ goal'[c] = goal[c] /\ todo'[c] = todo[c] /\ reply'[c] = reply[c]
  <1>1. ASSUME NEW d \in Callers, d # c, Look(d)
        PROVE  /\ pc'[c] = pc[c] /\ goal'[c] = goal[c] /\ UNCHANGED <<todo, reply>>
    <2>1. CASE FirstPage(d) \/ NextPage(d)
      BY <1>1, <2>1 DEF FirstPage, NextPage, batch, TypeOK
    <2>2. CASE Choose(d)
      BY <1>1, <2>2 DEF Choose, batch, TypeOK
    <2>3. QED
      BY <1>1, <2>1, <2>2 DEF Look
  <1>2. ASSUME NEW d \in Callers, d # c, Fault(d)
        PROVE  /\ pc'[c] = pc[c] /\ UNCHANGED <<goal, todo>> /\ reply'[c] = reply[c]
    BY <1>2 DEF Fault, ScanFails, WriteFails, BatchReadFails, RereadFails, WriteEdgesFail, CutOff,
                batch, TypeOK
  <1>3. ASSUME NEW d \in Callers, d # c,
               \/ CheckCanonical(d) \/ CheckDuplicates(d) \/ Settle(d) \/ Reread(d)
               \/ WriteEdges(d) \/ Retry(d)
        PROVE  /\ pc'[c] = pc[c] /\ goal' = goal /\ todo'[c] = todo[c] /\ reply'[c] = reply[c]
    BY <1>3 DEF CheckCanonical, CheckDuplicates, Settle, Reread, WriteEdges, Retry, batch, TypeOK
  <1>4. ASSUME NEW d \in Callers, d # c,
               \/ FindAbsent(d) \/ ReadBatch(d) \/ (\E m \in Memories : Write(d, m)) \/ ReadBack(d)
        PROVE  /\ pc'[c] = pc[c] /\ UNCHANGED <<goal, todo, reply>>
    BY <1>4 DEF FindAbsent, ReadBatch, Write, ReadBack, ReadBackAs, TypeOK
  <1>5. Others \/ UNCHANGED vars => UNCHANGED <<pc, goal, todo, reply>>
    BY DEF Others, LandLate, LandLateEdge, DeletePoint, DeleteNode, Touch, vars, batch
  <1>6. QED
    BY <1>1, <1>2, <1>3, <1>4, <1>5 DEF Next, MergeStep

\* Which memories had no node to begin with is settled.
LEMMA BareStays ==
  ASSUME [Next]_vars
  PROVE  bare' = bare
  BY DEF Next, Others, LandLate, LandLateEdge, DeletePoint, DeleteNode, Touch, Look, FirstPage,
         NextPage, Choose, MergeStep, CheckCanonical, CheckDuplicates, FindAbsent, ReadBatch, Write,
         ReadBack, Settle, Reread, WriteEdges, Retry, Fault, ScanFails, WriteFails, BatchReadFails,
         RereadFails, WriteEdgesFail, CutOff, vars, history

\* A node goes only after its point did.
LEMMA NextNodes ==
  ASSUME TypeOK, GoalsSet, NetKnown, NodesKnown, [Next]_vars
  PROVE  NodesKnown'
  <1>1. deleted \subseteq deleted' /\ bare' = bare
    BY HistoryGrows, BareStays
  <1>2. CASE UNCHANGED <<nodes, leaving>>
    BY <1>1, <1>2 DEF NodesKnown
  <1>3. ASSUME NEW m \in Memories, DeletePoint(m) \/ DeleteNode(m) \/ Touch(m) PROVE NodesKnown'
    BY <1>1, <1>3 DEF DeletePoint, DeleteNode, Touch, NodesKnown, graph, history
  <1>4. \A c \in Callers : Look(c) \/ MergeStep(c) \/ Fault(c) => UNCHANGED <<nodes, leaving>>
    BY DEF Look, FirstPage, NextPage, Choose, MergeStep, CheckCanonical, CheckDuplicates,
           FindAbsent,
           ReadBatch, Write, ReadBack, Settle, Reread, WriteEdges, Retry, Fault, ScanFails,
           WriteFails, BatchReadFails, RereadFails, WriteEdgesFail, CutOff, graph
  <1>5. ASSUME \/ \E q \in net : LandLate(q)
               \/ \E e \in lateEdges : LandLateEdge(e)
               \/ UNCHANGED vars
        PROVE  UNCHANGED <<nodes, leaving>>
    BY <1>5 DEF LandLate, LandLateEdge, vars, graph
  <1>6. QED
    BY <1>2, <1>3, <1>4, <1>5 DEF Next, Others

\* The batch and the reply go on leaving nothing out.
LEMMA NextWholeBatch ==
  ASSUME TypeOK, GoalsSet, Known, Whole, [Next]_vars, NEW c \in Callers
  PROVE  WholeBatch(c)'
  <1>1. deleted \subseteq deleted' /\ Memories \ live \subseteq deleted
    BY HistoryGrows DEF Known, MarkersKnown
  <1>2. WholeBatch(c)
    BY DEF Whole
  <1>3. CASE /\ goal'[c] = goal[c] /\ todo'[c] = todo[c]
             /\ \/ pc'[c] = pc[c] /\ reply'[c] = reply[c]
                \/ /\ pc[c] \in {"read", "write", "back", "settle", "reread"}
                   /\ pc'[c] # "edges"
    BY <1>1, <1>2, <1>3 DEF WholeBatch
  <1>4. CASE pc'[c] \notin {"read", "write", "back", "settle", "reread", "edges"}
    BY <1>4 DEF WholeBatch
  <1>5. CASE CheckDuplicates(c)
    <2>1. /\ goal' = goal /\ todo'[c] = ToSupersede(c) /\ pc'[c] \in {"done", "read"}
          /\ goal[c] # None
      BY <1>5 DEF CheckDuplicates, GoalsSet, Merging, TypeOK
    <2>2. goal[c].duplicates \subseteq Memories
      BY <2>1, GoalType DEF TypeOK
    <2>3. goal'[c].duplicates \ todo'[c] \subseteq deleted'
      BY <1>1, <2>1, <2>2 DEF ToSupersede
    <2>4. QED
      BY <2>1, <2>3 DEF WholeBatch
  <1>6. CASE Settle(c)
    <2>1. UNCHANGED <<goal, todo>> /\ pc[c] = "settle"
      BY <1>6 DEF Settle, batch
    <2>2. CASE Succeeds(c)
      <3>1. reply'[c] = [Noted EXCEPT !.superseded = todo[c]]
        BY <1>6, <2>2 DEF Settle, TypeOK
      <3>2. reply'[c].superseded \cup reply'[c].plain = todo[c]
        BY <3>1 DEF Noted
      <3>3. QED
        BY <1>1, <1>2, <2>1, <3>2 DEF WholeBatch
    <2>3. CASE ~ Succeeds(c)
      <3>1. pc'[c] = "reread"
        BY <1>6, <2>3 DEF Settle, TypeOK
      <3>2. QED
        BY <1>3, <2>1, <3>1
    <2>4. QED
      BY <2>2, <2>3
  <1>7. CASE Reread(c)
    <2>1. UNCHANGED <<goal, todo>> /\ pc[c] = "reread"
      BY <1>7 DEF Reread, batch
    <2>2. reply'[c] = [superseded |-> Marked(c), plain |-> todo[c] \ Marked(c), doubt |-> {}]
      BY <1>7 DEF Reread, TypeOK
    <2>3. reply'[c].superseded \cup reply'[c].plain = todo[c]
      BY <2>2 DEF Marked
    <2>4. QED
      BY <1>1, <1>2, <2>1, <2>3 DEF WholeBatch
  <1>8. CASE \/ FindAbsent(c) \/ ReadBatch(c) \/ (\E m \in Memories : Write(c, m)) \/ ReadBack(c)
             \/ (\E m \in Memories : WriteFails(c, m)) \/ BatchReadFails(c)
    <2>1. UNCHANGED <<goal, todo>> /\ pc[c] \in {"read", "write", "back"}
      BY <1>8 DEF FindAbsent, ReadBatch, Write, ReadBack, WriteFails, BatchReadFails, batch
    <2>2. pc'[c] # "edges"
      BY <1>8 DEF FindAbsent, ReadBatch, Write, ReadBack, ReadBackAs, WriteFails, BatchReadFails,
                  TypeOK
    <2>3. QED
      BY <1>3, <2>1, <2>2
  <1>9. CASE Look(c)
    <2>1. CASE FirstPage(c) \/ NextPage(c)
      BY <1>4, <2>1 DEF FirstPage, NextPage, TypeOK
    <2>2. CASE Choose(c)
      BY <1>4, <2>2, ChooseStep DEF TypeOK
    <2>3. QED
      BY <1>9, <2>1, <2>2 DEF Look
  <1>10. CASE CheckCanonical(c) \/ Retry(c) \/ ScanFails(c) \/ RereadFails(c) \/ CutOff(c)
    BY <1>4, <1>10 DEF CheckCanonical, Retry, ScanFails, RereadFails, CutOff, TypeOK
  <1>11. CASE WriteEdges(c) \/ WriteEdgesFail(c)
    BY <1>4, <1>11 DEF WriteEdges, WriteEdgesFail, Told, TypeOK
  <1>12. CASE ~ (Look(c) \/ MergeStep(c) \/ Fault(c))
    BY <1>3, <1>12, OtherCalls
  <1>13. QED
    BY <1>5, <1>6, <1>7, <1>8, <1>9, <1>10, <1>11, <1>12 DEF MergeStep, Fault

\* Only a delete takes an edge away.
LEMMA EdgesStay ==
  ASSUME TypeOK, NodesKnown, [Next]_vars, NEW e \in edges, {e[1], e[2]} \cap deleted = {}
  PROVE  e \in edges'
  <1>1. ASSUME NEW m \in Memories, DeleteNode(m) PROVE e \in edges'
    BY <1>1 DEF DeleteNode, NodesKnown
  <1>2. ASSUME NEW m \in Memories, DeletePoint(m) \/ Touch(m) PROVE edges \subseteq edges'
    BY <1>2 DEF DeletePoint, Touch
  <1>3. \A c \in Callers : Look(c) \/ MergeStep(c) \/ Fault(c) => edges \subseteq edges'
    BY DEF Look, FirstPage, NextPage, Choose, MergeStep, CheckCanonical, CheckDuplicates,
           FindAbsent,
           ReadBatch, Write, ReadBack, Settle, Reread, WriteEdges, Retry, Fault, ScanFails,
           WriteFails, BatchReadFails, RereadFails, WriteEdgesFail, CutOff, graph
  <1>4. ASSUME \/ \E q \in net : LandLate(q)
               \/ \E x \in lateEdges : LandLateEdge(x)
               \/ UNCHANGED vars
        PROVE  edges \subseteq edges'
    BY <1>4 DEF LandLate, LandLateEdge, vars, graph
  <1>5. QED
    BY <1>1, <1>2, <1>3, <1>4 DEF Next, Others

\* A failed edge write is not forgotten.
LEMMA LossesStay ==
  ASSUME [Next]_vars
  PROVE  edgeLost \subseteq edgeLost'
  BY DEF Next, Others, LandLate, LandLateEdge, DeletePoint, DeleteNode, Touch, Look, FirstPage,
         NextPage, Choose, MergeStep, CheckCanonical, CheckDuplicates, FindAbsent, ReadBatch, Write,
         ReadBack, Settle, Reread, WriteEdges, Retry, Fault, ScanFails, WriteFails, BatchReadFails,
         RereadFails, WriteEdgesFail, CutOff, vars, history

\* What is merged stays merged, and a call that ends has merged.
LEMMA NextDone ==
  ASSUME TypeOK, GoalsSet, Known, ReplyHolds, Whole, DoneIsMerged, [Next]_vars
  PROVE  DoneIsMerged'
  <1> SUFFICES ASSUME NEW c \in Callers, goal'[c] # None, pc'[c] \in {"done", "refused"}
               PROVE  Merged(c)'
    BY DEF DoneIsMerged
  <1>1. /\ deleted \subseteq deleted' /\ ever \subseteq ever' /\ edgeLost \subseteq edgeLost'
        /\ bare' = bare
    BY HistoryGrows, LossesStay, BareStays DEF Known
  <1>2. goal[c] # None => /\ goal'[c] = goal[c] /\ Canonical(c)' = Canonical(c)
                          /\ Canonical(c) \in Memories /\ goal[c].duplicates \subseteq Memories
    BY GoalKept, GoalType DEF TypeOK
  <1>3. ASSUME goal[c] # None,
               \A m \in goal[c].duplicates : {m, Canonical(c)} \cap deleted = {} =>
                 /\ <<m, Canonical(c)>> \in ever
                 /\ \/ c \in edgeLost' \/ {m, Canonical(c)} \cap bare # {}
                    \/ <<Canonical(c), m>> \in edges'
        PROVE  Merged(c)'
    <2>1. goal'[c].duplicates = goal[c].duplicates /\ Canonical(c)' = Canonical(c)
      BY <1>2, <1>3
    <2>2. ASSUME NEW m \in goal[c].duplicates, {m, Canonical(c)} \cap deleted' = {}
          PROVE  /\ <<m, Canonical(c)>> \in ever'
                 /\ \/ c \in edgeLost' \/ {m, Canonical(c)} \cap bare # {}
                    \/ <<Canonical(c), m>> \in edges'
      <3>1. {m, Canonical(c)} \cap deleted = {}
        BY <1>1, <2>2
      <3>2. QED
        BY <1>1, <1>3, <3>1
    <2>3. QED
      BY <1>1, <2>1, <2>2 DEF Merged
  <1>4. CASE goal[c] # None /\ pc[c] \in {"done", "refused"}
    <2>1. Merged(c)
      BY <1>4 DEF DoneIsMerged
    <2>2. \A m : <<Canonical(c), m>> \in edges /\ {m, Canonical(c)} \cap deleted = {} =>
            <<Canonical(c), m>> \in edges'
      BY EdgesStay DEF Whole
    <2>3. QED
      BY <1>1, <1>3, <1>4, <2>1, <2>2 DEF Merged
  <1>5. CASE CheckCanonical(c)
    <2>1. goal[c] # None /\ pc'[c] = "refused"
      BY <1>5 DEF CheckCanonical, GoalsSet, Merging, TypeOK
    <2>2. Canonical(c) \notin live
      BY <1>5, <2>1 DEF CheckCanonical, TypeOK
    <2>3. Canonical(c) \in deleted
      BY <1>2, <2>1, <2>2 DEF Known, MarkersKnown
    <2>4. QED
      BY <1>3, <2>1, <2>3
  <1>6. CASE CheckDuplicates(c)
    <2>1. goal[c] # None
      BY <1>6 DEF CheckDuplicates, GoalsSet, Merging
    <2>2. goal[c].duplicates \cap live = {}
      BY <1>6 DEF CheckDuplicates, ToSupersede, TypeOK
    <2>3. goal[c].duplicates \subseteq deleted
      BY <1>2, <2>1, <2>2 DEF Known, MarkersKnown
    <2>4. QED
      BY <1>3, <2>1, <2>3
  <1>7. CASE WriteEdges(c) \/ WriteEdgesFail(c)
    <2>1. goal[c] # None /\ reply[c] # None /\ pc[c] = "edges"
      BY <1>7 DEF WriteEdges, WriteEdgesFail, GoalsSet, Merging
    <2>2. pc'[c] = Told(c)
      BY <1>7 DEF WriteEdges, WriteEdgesFail, TypeOK
    <2>3. reply[c].plain = {}
      BY <2>2 DEF Told
    <2>4. /\ goal[c].duplicates \ todo[c] \subseteq deleted
          /\ reply[c].superseded = todo[c]
      BY <2>1, <2>3 DEF Whole, WholeBatch
    <2>5. ASSUME NEW m \in goal[c].duplicates, {m, Canonical(c)} \cap deleted = {}
          PROVE  /\ <<m, Canonical(c)>> \in ever
                 /\ \/ c \in edgeLost' \/ {m, Canonical(c)} \cap bare # {}
                    \/ <<Canonical(c), m>> \in edges'
      <3>1. m \in reply[c].superseded /\ m \in Memories
        BY <1>2, <2>1, <2>4, <2>5
      <3>2. <<m, Canonical(c)>> \in ever
        BY <2>1, <2>5, <3>1 DEF ReplyHolds, Settled
      <3>3. {m, Canonical(c)} \cap bare # {} \/ (m \in nodes /\ Canonical(c) \in nodes)
        BY <1>2, <2>1, <2>5, <3>1 DEF Whole, NodesKnown
      <3>4. CASE {m, Canonical(c)} \cap bare # {}
        BY <3>2, <3>4
      <3>5. CASE WriteEdges(c) /\ m \in nodes /\ Canonical(c) \in nodes
        <4>1. <<Canonical(c), m>> \in Matching(EdgesOf(c))
          BY <3>1, <3>5 DEF Matching, EdgesOf
        <4>2. QED
          BY <3>2, <3>5, <4>1 DEF WriteEdges
      <3>6. CASE WriteEdgesFail(c)
        BY <3>2, <3>6 DEF WriteEdgesFail
      <3>7. QED
        BY <1>7, <3>3, <3>4, <3>5, <3>6
    <2>6. QED
      BY <1>3, <2>1, <2>5
  <1>8. CASE Choose(c)
    <2>1. goal[c] = None
      BY <1>8 DEF Choose, GoalsSet
    <2>2. CASE UNCHANGED goal
      BY <2>1, <2>2
    <2>3. CASE pc' = [pc EXCEPT ![c] = "check"]
      BY <2>3 DEF TypeOK
    <2>4. UNCHANGED goal \/ pc' = [pc EXCEPT ![c] = "check"]
      BY <1>8, ChooseStep DEF TypeOK
    <2>5. QED
      BY <2>2, <2>3, <2>4
  <1>9. ASSUME \/ FirstPage(c) \/ NextPage(c) \/ ScanFails(c) \/ BatchReadFails(c)
               \/ RereadFails(c) \/ CutOff(c) \/ Settle(c) \/ Reread(c) \/ Retry(c)
        PROVE  FALSE
    BY <1>9 DEF FirstPage, NextPage, ScanFails, BatchReadFails, RereadFails, CutOff, Settle, Reread,
                Retry, TypeOK
  <1>10. ASSUME \/ FindAbsent(c) \/ ReadBatch(c) \/ (\E m \in Memories : Write(c, m))
                \/ (\E m \in Memories : WriteFails(c, m)) \/ ReadBack(c)
         PROVE  FALSE
    BY <1>10 DEF FindAbsent, ReadBatch, Write, WriteFails, ReadBack, ReadBackAs, TypeOK
  <1>11. CASE ~ (Look(c) \/ MergeStep(c) \/ Fault(c))
    <2>1. pc'[c] = pc[c] /\ goal'[c] = goal[c]
      BY <1>11, OtherCalls
    <2>2. QED
      BY <1>4, <2>1
  <1>12. QED
    BY <1>5, <1>6, <1>7, <1>8, <1>9, <1>10, <1>11 DEF Look, MergeStep, Fault

-----------------------------------------------------------------------------
(* Theorems *)

LEMMA NextInv ==
  ASSUME DupInv, [Next]_vars
  PROVE  DupInv'
  <1>1. /\ TypeOK /\ GoalsSet /\ Known /\ ReplyHolds
        /\ EdgesHaveMarkers /\ Whole /\ DoneIsMerged
    BY DEF DupInv
  <1>2. MarkersKnown /\ LogsKnown /\ NetKnown
    BY <1>1 DEF Known
  <1>3. TypeOK' /\ GoalsSet'
    BY <1>1, <1>2, NextType, NextGoals
  <1>4. Known'
    BY <1>1, <1>2, NextPoints, NextNet, NextBatch DEF Known
  <1>5. ReplyHolds' /\ EdgesHaveMarkers'
    BY <1>1, NextReplies, NextEdges
  <1>6. Whole'
    BY <1>1, <1>2, NextNodes, NextWholeBatch DEF Whole
  <1>7. DoneIsMerged'
    BY <1>1, NextDone
  <1>8. QED
    BY <1>3, <1>4, <1>5, <1>6, <1>7 DEF DupInv

\* DupInv holds of every reachable state: the batches, the replies, the edges and
\* what is under way agree with the markers that were written, however many
\* merges, deletes, edits, lost and late requests there are.
THEOREM InvariantHolds == Spec => []DupInv
  BY InitInv, NextInv, PTL DEF Spec

\* Every variable keeps its type.
THEOREM TypeCorrect == Spec => []TypeOK
  <1>1. DupInv => TypeOK
    BY DEF DupInv
  <1>2. QED
    BY <1>1, InvariantHolds, PTL

\* A memory that merge_duplicates answers as superseded has carried the marker
\* of the canonical memory, or was deleted.
THEOREM RepliesHold == Spec => []ReplyHolds
  <1>1. DupInv => ReplyHolds
    BY DEF DupInv
  <1>2. QED
    BY <1>1, InvariantHolds, PTL

\* mark_superseded writes no edge to a memory whose marker never landed, and
\* leaves none under way.
THEOREM EdgesAreJustified == Spec => []EdgesHaveMarkers
  <1>1. DupInv => EdgesHaveMarkers
    BY DEF DupInv
  <1>2. QED
    BY <1>1, InvariantHolds, PTL

\* "Retry the same call; it is idempotent": a merge that tells its caller no
\* more to retry has marked every duplicate that was not deleted, in whichever
\* attempt, and has its edge in the graph, unless the write of the edges failed
\* or one of the two memories had no node from the start.
THEOREM DoneMergesAreWhole == Spec => []DoneIsMerged
  <1>1. DupInv => DoneIsMerged
    BY DEF DupInv
  <1>2. QED
    BY <1>1, InvariantHolds, PTL

\* group_duplicates "groups them transitively": whatever was scanned, whatever
\* the pairs and in whatever order they come, the sets that UnionFind leaves are
\* the connected components with two members or more.
THEOREM GroupsAreConnected == Spec => []GroupsAreClusters
  <1>1. TypeOK => GroupsAreClusters
    <2>1. SUFFICES ASSUME TypeOK, NEW c \in Callers
                   PROVE  GroupsOf(c) = Components(scanned[c], similar)
      BY DEF GroupsAreClusters
    <2>2. scanned[c] \subseteq Memories /\ similar \in Seq(Memories \X Memories)
      BY <2>1 DEF TypeOK
    <2>3. IsFiniteSet(Memories)
      BY Constants, FS_Interval DEF Memories
    <2>4. IsFiniteSet(scanned[c])
      BY <2>2, <2>3, FS_Subset
    <2>5. QED
      BY <2>2, <2>4, GroupsAreComponents DEF GroupsOf
  <1>2. QED
    BY <1>1, TypeCorrect, PTL

=============================================================================
