----------------------------- MODULE MCKeyCache -----------------------------
(* An instance of KeyCache for TLC. *)
EXTENDS KeyCache, TLC

CONSTANTS a, b, c, k1, forged

\* A token of the one key, a token of a key that never was, and a login.
KidOf == a :> k1 @@ b :> forged @@ c :> Login
=============================================================================
