------------------------------ MODULE JudgeCap ------------------------------
(***************************************************************************)
(* Judging contradictions off the store path, within a daily budget        *)
(* (crates/alaya-server/src/main.rs: JudgeDailyCap,                        *)
(* spawn_store_contradiction_judges, backfill_judge, with_backoff;         *)
(* crates/alaya-core/src/service.rs: judge_contradiction).                 *)
(*                                                                         *)
(* A store that contradicts a memory spawns a task that judges the pair    *)
(* with a paid call to a model.  A task takes one of Backlog slots when it *)
(* is spawned and keeps it to its end; it waits for one of Concurrency     *)
(* permits, which it shares with operators' backfills; with the permit it  *)
(* is billed to the day's budget, calls, and is refunded if nothing was    *)
(* spent.  A backfill judges pairs without slot or budget, takes a permit  *)
(* for each attempt, and sleeps and retries when it is rate limited.       *)
(* Midnight may pass between any two steps.                                *)
(*                                                                         *)
(* One process is modelled, with a clock that never steps back; a job is   *)
(* one task or one pair of a backfill.                                     *)
(***************************************************************************)
EXTENDS Naturals, FiniteSets

CONSTANTS Tasks,        \* store-path judge tasks
          Backfills,    \* pairs that backfill passes judge
          PairOf,       \* PairOf[j]: the CONTRADICTS edge job j judges
          Rejudges,     \* those of a re-judge, which selects more
          Cap,          \* JUDGE_DAILY_CAP
          Concurrency,  \* JUDGE_CONCURRENCY
          Backlog,      \* JUDGE_STORE_BACKLOG_MAX
          Retries,      \* JUDGE_MAX_RETRIES
          Days,         \* bound: UTC days
          None

Jobs == Tasks \cup Backfills
Pairs == {PairOf[j] : j \in Jobs}

ASSUME JudgeAssumption ==
  /\ IsFiniteSet(Tasks) /\ Tasks \cap Backfills = {} /\ Rejudges \subseteq Backfills
  /\ Cap \in Nat /\ Concurrency \in Nat \ {0} /\ Backlog \in Nat /\ Retries \in Nat
  /\ Days \in Nat /\ None \notin Nat

VARIABLES today,    \* the UTC day of the clock
          day,      \* current_day of the limiter; None is u64::MAX
          count,    \* calls billed to that day
          slots,    \* tasks that hold a slot
          permits,  \* jobs that hold a permit of the gate
          pc,
          billed,   \* the day a task was billed to
          tries,    \* attempts of a backfill that were rate limited
          verdict,  \* e.verdict of each edge; "old" is a verdict of another model
          \* history variables
          sent,     \* the day a task's call to the model left
          free      \* tasks that ended unspent after they were billed

limiter == <<day, count, billed>>
gate == <<slots, permits>>
vars == <<today, limiter, gate, pc, tries, verdict, sent, free>>

-----------------------------------------------------------------------------
(* JudgeDailyCap *)

\* roll_day: the calls billed so far to the day the clock shows.
CountToday == IF day = today THEN count ELSE 0
RollDay == day' = today /\ count' = CountToday

\* refund: only on the day that was billed.
\* (Slip: whatever day it is.)
RefundAnyDay(j) == count' = IF count > 0 THEN count - 1 ELSE 0
Refund(j) == count' = IF day = billed[j] /\ count > 0 THEN count - 1 ELSE count

Goto(j, l) == pc' = [pc EXCEPT ![j] = l]

-----------------------------------------------------------------------------
(* Getting to the gate and through it *)

\* try_slot when there is one.
SlotLeft == Cardinality(slots) < Backlog

Spawn(j) ==
  /\ j \in Tasks /\ pc[j] = "idle"
  /\ SlotLeft
  /\ slots' = slots \cup {j}
  /\ Goto(j, "gate")
  /\ UNCHANGED <<today, limiter, permits, tries, verdict, sent, free>>

\* The backlog is full: the pair stays unjudged for a backfill.
Skip(j) ==
  /\ j \in Tasks /\ pc[j] = "idle"
  /\ ~SlotLeft
  /\ RollDay
  /\ Goto(j, "skipped")
  /\ UNCHANGED <<today, billed, gate, tries, verdict, sent, free>>

\* backfill_running: one pass at a time, which selects a pair once.
SamePass(j, k) == (j \in Rejudges <=> k \in Rejudges) /\ PairOf[j] # PairOf[k]

\* backfill_selection: edges with no verdict; a re-judge also those of another
\* model and those with a marker.
Select(j) ==
  /\ j \in Backfills /\ pc[j] = "idle"
  /\ \A k \in Backfills : pc[k] \in {"idle", "done"} \/ SamePass(j, k)
  /\ verdict[PairOf[j]] \in {"none"} \cup (IF j \in Rejudges THEN {"old", "unjudged"} ELSE {})
  /\ Goto(j, "gate")
  /\ UNCHANGED <<today, limiter, gate, tries, verdict, sent, free>>

PermitLeft == Cardinality(permits) < Concurrency

\* try_admit, with the permit in hand.
\* (Slip: the count is not reset.)
AdmitUnreset(j) ==
  /\ CountToday < Cap
  /\ count' = count + 1 /\ day' = today
  /\ billed' = [billed EXCEPT ![j] = today]
Admit(j) ==
  /\ CountToday < Cap
  /\ count' = CountToday + 1 /\ day' = today
  /\ billed' = [billed EXCEPT ![j] = today]

\* (Slip: the permit is dropped as soon as it is acquired.)
EnterTaskDropping(j) ==
  /\ j \in Tasks /\ pc[j] = "gate" /\ PermitLeft
  /\ Admit(j)
  /\ Goto(j, "fetch")
  /\ UNCHANGED <<today, gate, tries, verdict, sent, free>>
EnterTask(j) ==
  /\ j \in Tasks /\ pc[j] = "gate" /\ PermitLeft
  /\ Admit(j)
  /\ permits' = permits \cup {j}
  /\ Goto(j, "fetch")
  /\ UNCHANGED <<today, slots, tries, verdict, sent, free>>

\* The day's budget is spent: the task ends.
RefuseTask(j) ==
  /\ j \in Tasks /\ pc[j] = "gate" /\ PermitLeft
  /\ CountToday >= Cap
  /\ RollDay
  /\ slots' = slots \ {j}
  /\ Goto(j, "done")
  /\ UNCHANGED <<today, billed, permits, tries, verdict, sent, free>>

EnterBackfill(j) ==
  /\ j \in Backfills /\ pc[j] = "gate" /\ PermitLeft
  /\ permits' = permits \cup {j}
  /\ Goto(j, "fetch")
  /\ UNCHANGED <<today, limiter, slots, tries, verdict, sent, free>>

-----------------------------------------------------------------------------
(* judge_contradiction *)

\* The end of a job; a task that spent nothing gives its unit back.
\* (Slip: the permit is kept.)
EndHolding(j) ==
  /\ Goto(j, "done") /\ slots' = slots \ {j} /\ UNCHANGED <<permits, today, day, billed, tries, sent>>
End(j) ==
  /\ Goto(j, "done") /\ slots' = slots \ {j} /\ permits' = permits \ {j}
  /\ UNCHANGED <<today, day, billed, tries, sent>>
Spent(j) == End(j) /\ UNCHANGED <<count, free>>
Unspent(j) ==
  /\ End(j)
  /\ IF j \in Tasks THEN Refund(j) /\ free' = free \cup {j} ELSE UNCHANGED <<count, free>>

\* Both memories are read, and the call leaves.
Fetch(j) ==
  /\ pc[j] = "fetch"
  /\ Goto(j, "ask")
  /\ sent' = IF j \in Tasks THEN [sent EXCEPT ![j] = today] ELSE sent
  /\ UNCHANGED <<today, limiter, gate, tries, verdict, free>>

\* The read fails.
FetchFails(j) == pc[j] = "fetch" /\ Unspent(j) /\ UNCHANGED verdict

\* A memory is missing: the edge is to be marked.
FetchMisses(j) ==
  /\ pc[j] = "fetch"
  /\ Goto(j, "mark_free")
  /\ UNCHANGED <<today, limiter, gate, tries, verdict, sent, free>>

\* A verdict, or an answer that fails for good: the edge is to be written.
Answered(j) ==
  /\ pc[j] = "ask"
  /\ \E l \in {"write", "mark"} : Goto(j, l)
  /\ UNCHANGED <<today, limiter, gate, tries, verdict, sent, free>>

\* Unavailable: billed for or not, nothing is written.
Unavailable(j) == pc[j] = "ask" /\ (Spent(j) \/ Unspent(j)) /\ UNCHANGED verdict

\* 429.  A task ends; a backfill sleeps without its permit, up to Retries times.
TaskLimited(j) == j \in Tasks /\ pc[j] = "ask" /\ Unspent(j) /\ UNCHANGED verdict

BackfillLimited(j) ==
  /\ j \in Backfills /\ pc[j] = "ask"
  /\ permits' = permits \ {j}
  /\ IF tries[j] = Retries
       THEN Goto(j, "done") /\ UNCHANGED tries
       ELSE Goto(j, "sleep") /\ tries' = [tries EXCEPT ![j] = @ + 1]
  /\ UNCHANGED <<today, limiter, slots, verdict, sent, free>>

Wake(j) ==
  /\ pc[j] = "sleep"
  /\ Goto(j, "gate")
  /\ UNCHANGED <<today, limiter, gate, tries, verdict, sent, free>>

\* set_contradiction_verdict: a marker lands only where there is no verdict.
Real == {"judged", "old"}
Markable(p) == verdict[p] \notin Real

\* The edge is written, or that fails, which changes nothing else.
Write(j) ==
  /\ pc[j] = "write"
  /\ verdict' \in {verdict, [verdict EXCEPT ![PairOf[j]] = "judged"]}
  /\ Spent(j)

WriteMark(j) ==
  /\ pc[j] \in {"mark", "mark_free"}
  /\ \/ verdict' = verdict
     \/ Markable(PairOf[j]) /\ verdict' = [verdict EXCEPT ![PairOf[j]] = "unjudged"]
  /\ IF pc[j] = "mark" THEN Spent(j) ELSE Unspent(j)

-----------------------------------------------------------------------------

Midnight ==
  /\ today < Days
  /\ today' = today + 1
  /\ UNCHANGED <<limiter, gate, pc, tries, verdict, sent, free>>

Init ==
  /\ today = 0 /\ day = None /\ count = 0
  /\ slots = {} /\ permits = {}
  /\ pc = [j \in Jobs |-> "idle"]
  /\ billed = [j \in Tasks |-> None] /\ sent = [j \in Tasks |-> None]
  /\ tries = [j \in Backfills |-> 0]
  /\ verdict \in [Pairs -> {"none", "old"}]
  /\ free = {}

\* What a job does on its own once it was spawned or selected.
Run(j) ==
  \/ EnterTask(j) \/ RefuseTask(j) \/ EnterBackfill(j)
  \/ Fetch(j) \/ FetchFails(j) \/ FetchMisses(j)
  \/ Answered(j) \/ Unavailable(j) \/ TaskLimited(j) \/ BackfillLimited(j) \/ Wake(j)
  \/ Write(j) \/ WriteMark(j)

Step(j) == Spawn(j) \/ Skip(j) \/ Select(j) \/ Run(j)

Next == Midnight \/ \E j \in Jobs : Step(j)

Spec == Init /\ [][Next]_vars

\* Every await of a job ends: the calls have timeouts, a sleep is bounded by
\* JUDGE_MAX_BACKOFF, and the gate hands its permits to those who wait.
FairSpec == Spec /\ \A j \in Jobs : WF_vars(Run(j))

-----------------------------------------------------------------------------
(* Properties *)

Places == {"idle", "skipped", "gate", "fetch", "ask", "sleep", "write", "mark", "mark_free",
           "done"}
DayOrNone == (0..Days) \cup {None}
Verdicts == {"none", "unjudged", "judged", "old"}

\* Types of the state, and no more permits and slots than there are.
TypeOK ==
  /\ today \in 0..Days /\ day \in DayOrNone /\ count \in 0..Cap
  /\ slots \subseteq Tasks /\ permits \subseteq Jobs
  /\ IsFiniteSet(permits) /\ Cardinality(permits) <= Concurrency
  /\ Cardinality(slots) <= Backlog
  /\ pc \in [Jobs -> Places]
  /\ billed \in [Tasks -> DayOrNone] /\ sent \in [Tasks -> DayOrNone]
  /\ tries \in [Backfills -> 0..Retries]
  /\ verdict \in [Pairs -> Verdicts]
  /\ free \subseteq Tasks

BilledOn(d) == {j \in Tasks \ free : billed[j] = d}
SentOn(d) == {j \in Tasks \ free : sent[j] = d}

\* README: a pair that never reached the judge "is refunded rather than
\* billed".  The counter is exactly the tasks billed to its day and not
\* refunded, whichever midnights passed between the two: no unit leaks from
\* the budget and none is credited to another day.
BudgetIsExact == day # None => count = Cardinality(BilledOn(day))

\* No day is ever billed for more than the cap.
BilledWithinCap == \A d \in 0..Days : Cardinality(BilledOn(d)) <= Cap

\* The calls that leave on a day, refunded ones aside, exceed the cap by no
\* more than the calls that were admitted before midnight and left after it,
\* and the gate bounds those.
CallsNearCap == \A d \in 0..Days : Cardinality(SentOn(d)) <= Cap + Concurrency

-----------------------------------------------------------------------------
(* What makes the budget hold: the invariant of the proofs *)

\* A task is billed once, when it enters with a permit that it keeps while it
\* works; its call leaves no earlier, and it is refunded only at its end.
\* Only backfills sleep.
Working == {"fetch", "ask", "write", "mark", "mark_free"}
Phases ==
  /\ \A j \in Jobs : pc[j] \in Working => j \in permits
  /\ \A j \in Tasks :
       /\ pc[j] \in {"idle", "skipped", "gate"} => billed[j] = None
       /\ pc[j] \in Working => billed[j] # None
       /\ billed[j] = None => sent[j] = None
       /\ pc[j] \in {"fetch", "mark_free"} => sent[j] = None
       /\ pc[j] # "done" => j \notin free
       /\ pc[j] # "sleep"

\* Days only pass: what was billed, counted or sent lies behind.
DaysInOrder ==
  /\ day # None => day <= today
  /\ \A j \in Tasks : billed[j] # None => day # None /\ billed[j] <= day
  /\ \A j \in Tasks : sent[j] # None => billed[j] <= sent[j] /\ sent[j] <= today

\* Tasks billed before day d whose call leaves on d or later: those that held
\* a permit at the midnight before.
Carried(d) ==
  {j \in Tasks : /\ billed[j] # None /\ billed[j] < d
                 /\ IF sent[j] = None THEN pc[j] = "fetch" ELSE sent[j] >= d}
CarryBounded == \A d \in 0..today : Cardinality(Carried(d)) <= Concurrency

\* OwnedSemaphorePermit: a task holds its slot from its spawn to its end, and a
\* job its permit exactly while it works, on every way out; a backfill that
\* sleeps on a rate limit holds none.
NothingLeaks ==
  /\ slots = {j \in Tasks : pc[j] \in {"gate"} \cup Working}
  /\ permits = {j \in Jobs : pc[j] \in Working}

\* So a job waits at the gate only for one that works.
GateServes == \A j \in Jobs : pc[j] = "gate" => PermitLeft \/ \E k \in Jobs : pc[k] \in Working

\* The parts above, inductive together.
JudgeInv ==
  /\ TypeOK /\ Phases /\ DaysInOrder /\ BudgetIsExact /\ BilledWithinCap /\ CarryBounded
  /\ NothingLeaks

-----------------------------------------------------------------------------

\* Every job that waits at the gate ends, and gives back its slot and permit.
JobsEnd ==
  \A j \in Jobs : pc[j] = "gate" ~> pc[j] = "done" /\ j \notin slots \cup permits

-----------------------------------------------------------------------------
(* The budget that the tasks are promised *)

\* What became of a task, as the budget has it.
Account(j) ==
  IF j \in free THEN "given back"
  ELSE IF billed[j] # None THEN "billed"
  ELSE IF pc[j] = "done" THEN "turned away" ELSE "none"

Budget == INSTANCE DailyBudget
            WITH bills <- [d \in 0..Days |-> BilledOn(d)],
                 answered <- [j \in Tasks |-> Account(j)]

\* JudgeDailyCap, "a pair queued before UTC midnight is billed to the day it
\* actually runs": one counter for one day is as good as a ledger of every day,
\* whichever midnight falls between a bill and its refund.
ImplementsDailyBudget == Budget!Spec

=============================================================================
