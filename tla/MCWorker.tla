------------------------------ MODULE MCWorker ------------------------------
(* An instance of Worker for TLC. *)
EXTENDS Worker, TLC

CONSTANTS i1, q1, q2, b1, b2

\* A write, two searches for one slot and one gate, two backfills for one flag.
\* (Sweeps and stats differ from a backfill in their deadline, which they share
\* with searches; a sixth call would be too many.)
MixKind == i1 :> "inline" @@ q1 :> "search" @@ q2 :> "search"
           @@ b1 :> "backfill" @@ b2 :> "backfill"
MixOf == [c \in Calls |-> MixKind[c]]

\* Two searches are as good as each other, and two backfills.
Both(f, g) == [x \in Calls |-> IF x \in DOMAIN f THEN f[x] ELSE IF x \in DOMAIN g THEN g[x] ELSE x]
MixSymmetry == {Both(f, g) : f \in Permutations({q1, q2}), g \in Permutations({b1, b2})}

=============================================================================
