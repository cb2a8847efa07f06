---------------------------- MODULE DailyBudget ----------------------------
(***************************************************************************)
(* What the daily cap on judge calls promises (LAB-3895; the doc comments  *)
(* of JudgeDailyCap and spawn_store_contradiction_judges,                  *)
(* crates/alaya-server/src/main.rs): a budget for every UTC day.  A task   *)
(* is billed to the day it runs on, while that day's budget lasts; it is   *)
(* turned away only on a day whose budget is spent; and what it gives back *)
(* goes to the day it was drawn from, however late.                        *)
(*                                                                         *)
(* The code keeps no such ledger, only a day and a counter.                *)
(***************************************************************************)
EXTENDS Naturals, FiniteSets

CONSTANTS Tasks, Cap, Days

VARIABLES today,
          bills,     \* per day: the tasks it pays for
          answered   \* what became of each task

vars == <<today, bills, answered>>

Init ==
  /\ today = 0
  /\ bills = [d \in 0..Days |-> {}]
  /\ answered = [t \in Tasks |-> "none"]

Lasts == Cardinality(bills[today]) < Cap

Bill(t) ==
  /\ answered[t] = "none" /\ Lasts
  /\ bills' = [bills EXCEPT ![today] = @ \cup {t}]
  /\ answered' = [answered EXCEPT ![t] = "billed"]
  /\ UNCHANGED today

TurnAway(t) ==
  /\ answered[t] = "none" /\ ~Lasts
  /\ answered' = [answered EXCEPT ![t] = "turned away"]
  /\ UNCHANGED <<today, bills>>

GiveBack(t) ==
  /\ answered[t] = "billed"
  /\ bills' = [d \in 0..Days |-> bills[d] \ {t}]
  /\ answered' = [answered EXCEPT ![t] = "given back"]
  /\ UNCHANGED today

NextDay ==
  /\ today < Days
  /\ today' = today + 1
  /\ UNCHANGED <<bills, answered>>

Next == NextDay \/ \E t \in Tasks : Bill(t) \/ TurnAway(t) \/ GiveBack(t)

Spec == Init /\ [][Next]_vars

=============================================================================
