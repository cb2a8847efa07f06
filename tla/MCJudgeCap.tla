----------------------------- MODULE MCJudgeCap -----------------------------
(* Instances of JudgeCap for TLC. *)
EXTENDS JudgeCap

CONSTANTS t1, t2, t3, b2, p1

\* One pair: the store path's tasks judge it again each time a memory of it
\* is stored again, and so does the backfill.
OnePair == [j \in Tasks \cup Backfills |-> p1]

=============================================================================
