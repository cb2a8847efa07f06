---------------------------- MODULE MCDuplicates ----------------------------
(* An instance of Duplicates for TLC. *)
EXTENDS Duplicates, TLC

CONSTANTS a, b

StrategyOf == a :> "keep_newest" @@ b :> "keep_most_accessed"
AccessesOf == <<0, 1, 1, 0, 0>>

\* Callers who keep different ends of a chain of three, and what may happen.
Chain == <<<<2, 3>>, <<1, 2>>>>
MergeWithout(nodeless, who, e, f) ==
  [pairs |-> Chain, hidden |-> {4, 5}, bare |-> nodeless, callers |-> who, events |-> e,
   faults |-> f]
Merge(who, e, f) == MergeWithout({}, who, e, f)

\* One look at four memories, similar in any way and in any order, and at a
\* fifth that the limit leaves out.
AllPairs == {p \in (1 .. 4) \X (1 .. 4) : p[1] < p[2]}
Orders == {s \in UNION {[1 .. k -> AllPairs] : k \in 0 .. 4} :
             \A i, j \in DOMAIN s : s[i] = s[j] => i = j}
Look4(s) ==
  [pairs |-> s, hidden |-> {}, bare |-> {}, callers |-> {b}, events |-> 0, faults |-> 0]
Looks == {Look4(s) : s \in Orders}

Races ==
  Looks \cup
  {Merge({a, b}, 1, 0), Merge({a, b}, 0, 1), Merge({a}, 2, 0), Merge({a}, 1, 2),
   MergeWithout({1}, {a, b}, 1, 0), MergeWithout({2}, {a, b}, 0, 1),
   MergeWithout({1, 2, 3}, {a}, 1, 1)}
=============================================================================
