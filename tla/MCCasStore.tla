----------------------------- MODULE MCCasStore -----------------------------
(* An instance of CasStore for TLC: who calls what, and from which process. *)
EXTENDS CasStore, TLC

CONSTANTS s1, s2, m1, b1, b2, b3, d1, pA, pB

KindOf == s1 :> "store" @@ s2 :> "insertOnly" @@ d1 :> "delete" @@ m1 :> "modify"
          @@ b1 :> "bump" @@ b2 :> "bump" @@ b3 :> "bump"
ClientOf == s1 :> pA @@ d1 :> pA @@ m1 :> pA @@ b2 :> pA @@ b3 :> pA
            @@ s2 :> pB @@ b1 :> pB

\* Two processes: a re-store, an insert-only store, an access increment and a
\* delete of the same memory.
Race == {s1, s2, b1, d1}
\* One process: a writer between two increments.
Turn == {m1, b2, b3}
RaceOrTurn == {Race, Turn}
=============================================================================
