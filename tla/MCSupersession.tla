--------------------------- MODULE MCSupersession ---------------------------
(* Instances of Supersession for TLC. *)
EXTENDS Supersession, TLC

CONSTANTS a1, a2, r1, u1, u2, o1, s1, s2

\* All nodes are there, or that of the other survivor is missing.
OneMayMiss == {{s1}, {s1, s2}}

\* A supersede and a refute by different survivors, two reversals, an operator.
RaceKind == a1 :> "supersede" @@ r1 :> "refute" @@ u1 :> "unsupersede"
            @@ u2 :> "unsupersede" @@ o1 :> "resolve"
RaceSurvivor == a1 :> s1 @@ r1 :> s2 @@ u1 :> s1 @@ u2 :> s1 @@ o1 :> s1
RaceReason == a1 :> "a" @@ r1 :> "r" @@ u1 :> "u" @@ u2 :> "u" @@ o1 :> "o"
\* The two reversals are alike.
Reversals == Permutations({u1, u2})

\* Two supersessions, of which one may be the present survivor's again, and
\* two reversals.
BackKind == a1 :> "supersede" @@ a2 :> "supersede" @@ u1 :> "unsupersede"
            @@ u2 :> "unsupersede"
BackSurvivor == a1 :> s1 @@ a2 :> s2 @@ u1 :> s1 @@ u2 :> s1
BackReason == a1 :> "a" @@ a2 :> "b" @@ u1 :> "u" @@ u2 :> "u"

=============================================================================
