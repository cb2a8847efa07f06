--------------------------- MODULE JudgeCapProofs ---------------------------
(***************************************************************************)
(* Theorems about JudgeCap, for any number of tasks, backfills and days,   *)
(* any cap, gate and backlog.  JudgeInv is inductive; that no day is       *)
(* billed beyond the cap, that calls exceed it by the gate at most, that   *)
(* the gate leaks nothing, and that the counter is as good as a ledger of  *)
(* every day (DailyBudget), follow from it.                                *)
(***************************************************************************)
EXTENDS JudgeCap, FiniteSetTheorems, TLAPS

\* Sets of tasks are finite, and a subset is no larger.
LEMMA FiniteTasks ==
  ASSUME NEW S \in SUBSET Tasks
  PROVE  /\ IsFiniteSet(S) /\ Cardinality(S) \in Nat
         /\ \A T \in SUBSET S : Cardinality(T) \in Nat /\ Cardinality(T) <= Cardinality(S)
  <1>1. IsFiniteSet(S) /\ Cardinality(S) \in Nat
    BY JudgeAssumption, FS_Subset, FS_CardinalityType
  <1>2. ASSUME NEW T \in SUBSET S
        PROVE  Cardinality(T) \in Nat /\ Cardinality(T) <= Cardinality(S)
    BY <1>1, FS_Subset, FS_CardinalityType
  <1>3. QED
    BY <1>1, <1>2

\* A permit more, a permit less.
LEMMA PermitSets ==
  ASSUME TypeOK, NEW j \in Jobs
  PROVE  /\ IsFiniteSet(permits \ {j}) /\ Cardinality(permits \ {j}) <= Concurrency
         /\ PermitLeft => /\ IsFiniteSet(permits \cup {j})
                          /\ Cardinality(permits \cup {j}) <= Concurrency
  <1>1. IsFiniteSet(permits) /\ Cardinality(permits) \in Nat /\ Cardinality(permits) <= Concurrency
    BY FS_CardinalityType DEF TypeOK
  <1>2. /\ IsFiniteSet(permits \ {j}) /\ Cardinality(permits \ {j}) \in Nat
        /\ Cardinality(permits \ {j}) <= Cardinality(permits)
    BY <1>1, FS_Subset, FS_CardinalityType
  <1>3. IsFiniteSet(permits \cup {j}) /\ Cardinality(permits \cup {j}) <= Cardinality(permits) + 1
    BY <1>1, FS_AddElement
  <1>4. Cardinality(permits \cup {j}) \in Nat
    BY <1>3, FS_CardinalityType
  <1>5. QED
    BY <1>1, <1>2, <1>3, <1>4, JudgeAssumption DEF PermitLeft

\* A slot more, a slot less.
LEMMA SlotSets ==
  ASSUME TypeOK, NEW j
  PROVE  /\ Cardinality(slots \ {j}) <= Backlog
         /\ j \in Tasks /\ SlotLeft => Cardinality(slots \cup {j}) <= Backlog
  <1>1. IsFiniteSet(slots) /\ Cardinality(slots) \in Nat /\ Cardinality(slots) <= Backlog
    BY FiniteTasks DEF TypeOK
  <1>2. Cardinality(slots \ {j}) \in Nat /\ Cardinality(slots \ {j}) <= Cardinality(slots)
    BY <1>1, FS_Subset, FS_CardinalityType
  <1>3. IsFiniteSet(slots \cup {j}) /\ Cardinality(slots \cup {j}) <= Cardinality(slots) + 1
    BY <1>1, FS_AddElement
  <1>4. Cardinality(slots \cup {j}) \in Nat
    BY <1>3, FS_CardinalityType
  <1>5. QED
    BY <1>1, <1>2, <1>3, <1>4, JudgeAssumption DEF SlotLeft

\* The steps that touch neither the budget nor its history.
Quiet(j) ==
  /\ UNCHANGED <<today, limiter, sent, free>>
  /\ \/ Spawn(j) \/ Select(j) \/ EnterBackfill(j) \/ FetchMisses(j) \/ Answered(j)
     \/ BackfillLimited(j) \/ Wake(j)
     \/ pc[j] \in {"ask", "write", "mark"} /\ Spent(j) /\ verdict' \in [Pairs -> Verdicts]

\* The steps that end a job for nothing.
Refunding(j) ==
  /\ pc[j] \in {"fetch", "ask", "mark_free"} /\ Unspent(j)
  /\ verdict' \in [Pairs -> Verdicts]

\* Every step of a job is one of these.
LEMMA StepKinds ==
  ASSUME TypeOK, NEW j \in Jobs, Step(j)
  PROVE  Quiet(j) \/ Refunding(j) \/ EnterTask(j) \/ RefuseTask(j) \/ Skip(j) \/ Fetch(j)
  <1>1. PairOf[j] \in Pairs
    BY DEF Pairs
  <1>2. CASE Spawn(j) \/ Select(j) \/ EnterBackfill(j) \/ FetchMisses(j) \/ Answered(j)
             \/ BackfillLimited(j) \/ Wake(j)
    BY <1>2 DEF Quiet, Spawn, Select, EnterBackfill, FetchMisses, Answered, BackfillLimited, Wake,
       limiter
  <1>3. CASE FetchFails(j) \/ TaskLimited(j)
    BY <1>3 DEF FetchFails, TaskLimited, Refunding, TypeOK
  <1>4. CASE Unavailable(j)
    BY <1>4 DEF Unavailable, Refunding, Quiet, Spent, End, limiter, TypeOK
  <1>5. CASE Write(j)
    <2>1. verdict' \in [Pairs -> Verdicts]
      BY <1>1, <1>5 DEF Write, TypeOK, Verdicts
    <2>2. QED
      BY <1>5, <2>1 DEF Write, Quiet, Spent, End, limiter
  <1>6. CASE WriteMark(j)
    <2>1. verdict' \in [Pairs -> Verdicts]
      BY <1>1, <1>6 DEF WriteMark, TypeOK, Verdicts
    <2>2. QED
      BY <1>6, <2>1 DEF WriteMark, Quiet, Refunding, Spent, End, limiter
  <1>7. QED
    BY <1>2, <1>3, <1>4, <1>5, <1>6 DEF Step, Run

\* The calls billed so far to the present day are the tasks billed to it.
LEMMA CountTodayIs ==
  ASSUME JudgeInv
  PROVE  CountToday = Cardinality(BilledOn(today)) /\ CountToday \in 0..Cap
  <1> USE JudgeAssumption DEF JudgeInv, TypeOK, DayOrNone
  <1>1. CASE day = today
    BY <1>1 DEF BudgetIsExact, CountToday
  <1>2. CASE day # today
    <2>1. BilledOn(today) = {}
      BY <1>2 DEF BilledOn, DaysInOrder
    <2>2. QED
      BY <1>2, <2>1, FS_EmptySet DEF CountToday
  <1>3. QED
    BY <1>1, <1>2

\* The invariant holds at the start.
LEMMA InitInv == Init => JudgeInv
  <1> SUFFICES ASSUME Init PROVE JudgeInv
    OBVIOUS
  <1> USE JudgeAssumption
  <1>1. TypeOK
    BY FS_EmptySet DEF Init, TypeOK, Places, DayOrNone, Verdicts
  <1>2. Phases /\ DaysInOrder
    BY DEF Init, Phases, DaysInOrder, Working, Jobs
  <1>3. \A d \in Nat : BilledOn(d) = {} /\ Carried(d) = {}
    BY DEF Init, BilledOn, Carried
  <1>4. BudgetIsExact /\ BilledWithinCap /\ CarryBounded
    BY <1>3, FS_EmptySet DEF Init, BudgetIsExact, BilledWithinCap, CarryBounded
  <1>5. NothingLeaks
    BY DEF Init, NothingLeaks, Working, Jobs
  <1>6. QED
    BY <1>1, <1>2, <1>4, <1>5 DEF JudgeInv

\* Every step keeps the types.
LEMMA NextType == JudgeInv /\ [Next]_vars => TypeOK'
  <1> SUFFICES ASSUME JudgeInv, [Next]_vars PROVE TypeOK'
    OBVIOUS
  <1> USE JudgeAssumption DEF JudgeInv, TypeOK, limiter, gate, DayOrNone
  <1>1. CASE UNCHANGED vars
    BY <1>1 DEF vars
  <1>2. CASE Midnight
    BY <1>2 DEF Midnight
  <1>3. ASSUME NEW j \in Jobs, Quiet(j) PROVE TypeOK'
    <2>1. CASE Spawn(j)
      BY <1>3, <2>1, SlotSets DEF Spawn, Goto, Places
    <2>2. CASE Select(j)
      BY <1>3, <2>2 DEF Select, Goto, Places
    <2>3. CASE EnterBackfill(j)
      BY <1>3, <2>3, PermitSets DEF EnterBackfill, Goto, Places
    <2>4. CASE FetchMisses(j) \/ Answered(j) \/ Wake(j)
      BY <1>3, <2>4 DEF FetchMisses, Answered, Wake, Goto, Places
    <2>5. CASE BackfillLimited(j)
      <3>1. tries' \in [Backfills -> 0..Retries] /\ pc' \in [Jobs -> Places]
        BY <2>5 DEF BackfillLimited, Goto, Places
      <3>2. QED
        BY <2>5, <3>1, PermitSets DEF BackfillLimited
    <2>6. CASE Spent(j) /\ verdict' \in [Pairs -> Verdicts]
      BY <2>6, PermitSets, SlotSets DEF Spent, End, Goto, Places
    <2>7. QED
      BY <1>3, <2>1, <2>2, <2>3, <2>4, <2>5, <2>6 DEF Quiet
  <1>4. ASSUME NEW j \in Jobs, Refunding(j) PROVE TypeOK'
    <2>1. count' \in 0..Cap /\ free' \subseteq Tasks
      BY <1>4 DEF Refunding, Unspent, Refund
    <2>2. QED
      BY <1>4, <2>1, PermitSets, SlotSets DEF Refunding, Unspent, End, Goto, Places
  <1>5. ASSUME NEW j \in Jobs, EnterTask(j) PROVE TypeOK'
    <2>1. count' \in 0..Cap /\ day' \in DayOrNone /\ billed' \in [Tasks -> DayOrNone]
      BY <1>5, CountTodayIs DEF EnterTask, Admit
    <2>2. QED
      BY <1>5, <2>1, PermitSets DEF EnterTask, Goto, Places
  <1>6. ASSUME NEW j \in Jobs, RefuseTask(j) \/ Skip(j) PROVE TypeOK'
    <2>1. count' \in 0..Cap /\ day' \in DayOrNone
      BY <1>6, CountTodayIs DEF RefuseTask, Skip, RollDay
    <2>2. QED
      BY <1>6, <2>1, SlotSets DEF RefuseTask, Skip, Goto, Places
  <1>7. ASSUME NEW j \in Jobs, Fetch(j) PROVE TypeOK'
    BY <1>7 DEF Fetch, Goto, Places
  <1>8. QED
    BY <1>1, <1>2, <1>3, <1>4, <1>5, <1>6, <1>7, StepKinds DEF Next

\* Every step keeps a task's bill, its call and its permit in order.
LEMMA NextPhases == JudgeInv /\ [Next]_vars => Phases'
  <1> SUFFICES ASSUME JudgeInv, [Next]_vars PROVE Phases'
    OBVIOUS
  <1> USE JudgeAssumption DEF JudgeInv, TypeOK, limiter, gate, Phases, Working
  <1>1. CASE UNCHANGED vars \/ Midnight
    BY <1>1 DEF vars, Midnight
  <1>2. ASSUME NEW j \in Jobs, Quiet(j) PROVE Phases'
    <2>1. UNCHANGED <<billed, sent, free>>
          /\ \A u \in Jobs \ {j} : pc'[u] = pc[u] /\ (u \in permits => u \in permits')
      BY <1>2 DEF Quiet, Spawn, Select, EnterBackfill, FetchMisses, Answered, BackfillLimited,
         Wake, Spent, End, Goto
    <2>2. /\ pc'[j] \in Working => j \in permits'
          /\ j \in Tasks => \/ pc[j] = "idle" /\ pc'[j] = "gate"
                            \/ pc[j] \in Working /\ pc'[j] = "done"
                            \/ pc[j] = "fetch" /\ pc'[j] = "mark_free"
                            \/ pc[j] = "ask" /\ pc'[j] \in {"write", "mark"}
      <3>1. CASE Wake(j)
        BY <1>2, <3>1 DEF Wake, Goto
      <3>2. CASE ~Wake(j)
        BY <1>2, <3>2 DEF Quiet, Spawn, Select, EnterBackfill, FetchMisses, Answered,
           BackfillLimited, Spent, End, Goto
      <3>3. QED
        BY <3>1, <3>2
    <2>3. QED
      BY <2>1, <2>2 DEF Jobs
  <1>3. ASSUME NEW j \in Jobs, Refunding(j) PROVE Phases'
    BY <1>3 DEF Refunding, Unspent, End, Goto
  <1>4. ASSUME NEW j \in Jobs, EnterTask(j) PROVE Phases'
    <2>1. /\ UNCHANGED <<sent, free>> /\ j \in Tasks /\ pc[j] = "gate" /\ permits' = permits \cup {j}
          /\ pc' = [pc EXCEPT ![j] = "fetch"] /\ billed' = [billed EXCEPT ![j] = today]
      BY <1>4 DEF EnterTask, Admit, Goto
    <2>2. sent[j] = None /\ j \notin free /\ today # None
      BY <2>1
    <2>3. /\ \A u \in Jobs \ {j} : pc'[u] = pc[u]
          /\ \A u \in Tasks \ {j} : billed'[u] = billed[u]
          /\ pc'[j] = "fetch" /\ billed'[j] = today
      BY <2>1
    <2>4. QED
      BY <2>1, <2>2, <2>3 DEF Jobs
  <1>5. ASSUME NEW j \in Jobs, RefuseTask(j) \/ Skip(j) PROVE Phases'
    <2>1. /\ UNCHANGED <<sent, free, billed, permits>>
          /\ \/ pc' = [pc EXCEPT ![j] = "done"]
             \/ pc' = [pc EXCEPT ![j] = "skipped"] /\ pc[j] = "idle"
      BY <1>5 DEF RefuseTask, Skip, Goto
    <2>2. /\ \A u \in Jobs \ {j} : pc'[u] = pc[u]
          /\ \/ pc'[j] = "done"
             \/ pc'[j] = "skipped" /\ pc[j] = "idle"
      BY <2>1
    <2>3. QED
      BY <2>1, <2>2 DEF Jobs
  <1>6. ASSUME NEW j \in Jobs, Fetch(j) PROVE Phases'
    BY <1>6 DEF Fetch, Goto
  <1>7. QED
    BY <1>1, <1>2, <1>3, <1>4, <1>5, <1>6, StepKinds DEF Next

\* Every step leaves days behind it in order.
LEMMA NextDays == JudgeInv /\ [Next]_vars => DaysInOrder'
  <1> SUFFICES ASSUME JudgeInv, [Next]_vars PROVE DaysInOrder'
    OBVIOUS
  <1> USE JudgeAssumption DEF JudgeInv, TypeOK, limiter, gate, DaysInOrder, DayOrNone
  <1>1. CASE UNCHANGED vars \/ Midnight
    BY <1>1 DEF vars, Midnight
  <1>2. ASSUME NEW j \in Jobs, Quiet(j) PROVE DaysInOrder'
    BY <1>2 DEF Quiet
  <1>3. ASSUME NEW j \in Jobs, Refunding(j) PROVE DaysInOrder'
    BY <1>3 DEF Refunding, Unspent, End
  <1>4. ASSUME NEW j \in Jobs, EnterTask(j) PROVE DaysInOrder'
    <2>1. sent[j] = None
      BY <1>4 DEF EnterTask, Phases
    <2>2. QED
      BY <1>4, <2>1 DEF EnterTask, Admit
  <1>5. ASSUME NEW j \in Jobs, RefuseTask(j) \/ Skip(j) PROVE DaysInOrder'
    BY <1>5 DEF RefuseTask, Skip, RollDay
  <1>6. ASSUME NEW j \in Jobs, Fetch(j) PROVE DaysInOrder'
    BY <1>6 DEF Fetch, Phases, Working
  <1>7. QED
    BY <1>1, <1>2, <1>3, <1>4, <1>5, <1>6, StepKinds DEF Next

\* Every step keeps the counter exact and every day within the cap.
LEMMA NextBudget == JudgeInv /\ [Next]_vars => BudgetIsExact' /\ BilledWithinCap'
  <1> SUFFICES ASSUME JudgeInv, [Next]_vars PROVE BudgetIsExact' /\ BilledWithinCap'
    OBVIOUS
  <1> USE JudgeAssumption DEF JudgeInv, TypeOK, limiter, gate, DayOrNone
  <1>0. \A d : BilledOn(d) \in SUBSET Tasks
    BY DEF BilledOn
  <1>1. CASE UNCHANGED <<limiter, free>>
    BY <1>1 DEF BudgetIsExact, BilledWithinCap, BilledOn
  <1>2. CASE UNCHANGED vars \/ Midnight
    BY <1>1, <1>2 DEF vars, Midnight
  <1>3. ASSUME NEW j \in Jobs, Quiet(j) \/ Fetch(j) PROVE UNCHANGED <<limiter, free>>
    BY <1>3 DEF Quiet, Fetch
  <1>4. ASSUME NEW j \in Jobs, Refunding(j) PROVE BudgetIsExact' /\ BilledWithinCap'
    <2>1. CASE j \notin Tasks
      BY <1>1, <1>4, <2>1 DEF Refunding, Unspent, End
    <2>2. CASE j \in Tasks
      <3>1. /\ UNCHANGED <<day, billed>> /\ free' = free \cup {j} /\ Refund(j)
            /\ pc[j] \in Working /\ pc[j] # "done"
        BY <1>4, <2>2 DEF Refunding, Unspent, End, Working
      <3>2. billed[j] \in 0..Days /\ j \in BilledOn(billed[j])
        BY <2>2, <3>1 DEF Phases, BilledOn
      <3>3. /\ BilledOn(billed[j])' = BilledOn(billed[j]) \ {j}
            /\ \A d \in 0..Days : d # billed[j] => BilledOn(d)' = BilledOn(d)
        BY <3>1, <3>2 DEF BilledOn
      <3>4. /\ Cardinality(BilledOn(billed[j])) \in Nat
            /\ Cardinality(BilledOn(billed[j]) \ {j}) = Cardinality(BilledOn(billed[j])) - 1
            /\ Cardinality(BilledOn(billed[j])) > 0
        <4>1. IsFiniteSet(BilledOn(billed[j])) /\ Cardinality(BilledOn(billed[j])) \in Nat
          BY <1>0, FiniteTasks
        <4>2. Cardinality(BilledOn(billed[j])) # 0
          BY <3>2, <4>1, FS_EmptySet
        <4>3. Cardinality(BilledOn(billed[j]) \ {j}) = Cardinality(BilledOn(billed[j])) - 1
          BY <3>2, <4>1, FS_RemoveElement
        <4>4. QED
          BY <4>1, <4>2, <4>3
      <3>5. BilledWithinCap'
        <4>1. ASSUME NEW d \in 0..Days PROVE Cardinality(BilledOn(d)') <= Cap
          <5>1. CASE d = billed[j]
            <6>1. BilledOn(d)' = BilledOn(billed[j]) \ {j}
              BY <3>1, <3>2, <5>1 DEF BilledOn
            <6>2. Cardinality(BilledOn(billed[j])) <= Cap
              BY <3>2 DEF BilledWithinCap
            <6>3. QED
              BY <3>4, <6>1, <6>2
          <5>2. CASE d # billed[j]
            BY <3>3, <5>2 DEF BilledWithinCap
          <5>3. QED
            BY <5>1, <5>2
        <4>2. QED
          BY <4>1 DEF BilledWithinCap
      <3>6. BudgetIsExact'
        <4>1. CASE day = billed[j]
          BY <3>1, <3>3, <3>4, <4>1 DEF BudgetIsExact, Refund
        <4>2. CASE day # billed[j]
          BY <3>1, <3>3, <4>2 DEF BudgetIsExact, Refund
        <4>3. QED
          BY <4>1, <4>2
      <3>7. QED
        BY <3>5, <3>6
    <2>3. QED
      BY <2>1, <2>2
  <1>5. ASSUME NEW j \in Jobs, EnterTask(j) PROVE BudgetIsExact' /\ BilledWithinCap'
    <2>1. /\ j \in Tasks /\ billed[j] = None /\ j \notin free /\ free' = free
          /\ day' = today /\ count' = CountToday + 1 /\ CountToday < Cap
          /\ billed' = [billed EXCEPT ![j] = today]
      BY <1>5 DEF EnterTask, Admit, Phases
    <2>2. /\ BilledOn(today)' = BilledOn(today) \cup {j} /\ j \notin BilledOn(today)
          /\ \A d \in 0..Days : d # today => BilledOn(d)' = BilledOn(d)
      BY <2>1, <1>5 DEF BilledOn, EnterTask
    <2>3. IsFiniteSet(BilledOn(today))
      BY <1>0, FiniteTasks
    <2>4. Cardinality(BilledOn(today) \cup {j}) = CountToday + 1 /\ CountToday + 1 <= Cap
      <3>1. Cardinality(BilledOn(today) \cup {j}) = Cardinality(BilledOn(today)) + 1
        BY <2>2, <2>3, FS_AddElement
      <3>2. CountToday = Cardinality(BilledOn(today)) /\ CountToday \in 0..Cap
        BY CountTodayIs
      <3>3. QED
        BY <2>1, <3>1, <3>2
    <2>5. day' # None /\ BilledOn(day)' = BilledOn(today) \cup {j}
      BY <2>1, <2>2 DEF BilledOn
    <2>6. BudgetIsExact'
      BY <2>1, <2>4, <2>5 DEF BudgetIsExact
    <2>7. ASSUME NEW d \in 0..Days PROVE Cardinality(BilledOn(d)') <= Cap
      <3>1. CASE d = today
        BY <1>5, <2>1, <2>4, <2>5, <3>1 DEF BilledOn
      <3>2. CASE d # today
        BY <2>2, <3>2 DEF BilledWithinCap
      <3>3. QED
        BY <3>1, <3>2
    <2>8. QED
      BY <2>6, <2>7 DEF BilledWithinCap
  <1>6. ASSUME NEW j \in Jobs, RefuseTask(j) \/ Skip(j) PROVE BudgetIsExact' /\ BilledWithinCap'
    <2>1. UNCHANGED <<billed, free>> /\ day' = today /\ count' = CountToday
      BY <1>6 DEF RefuseTask, Skip, RollDay
    <2>2. BilledOn(day)' = BilledOn(today) /\ \A d : BilledOn(d)' = BilledOn(d)
      BY <2>1 DEF BilledOn
    <2>3. QED
      BY <2>1, <2>2, CountTodayIs DEF BudgetIsExact, BilledWithinCap
  <1>7. QED
    BY <1>1, <1>2, <1>3, <1>4, <1>5, <1>6, StepKinds DEF Next

\* What is carried into a day never grows, and at midnight it holds permits.
LEMMA NextCarry == JudgeInv /\ [Next]_vars => CarryBounded'
  <1> SUFFICES ASSUME JudgeInv, [Next]_vars PROVE CarryBounded'
    OBVIOUS
  <1> USE JudgeAssumption DEF JudgeInv, TypeOK, limiter, gate, DayOrNone
  <1>1. ASSUME today' = today, \A d \in 0..today : Carried(d)' \in SUBSET Carried(d)
        PROVE  CarryBounded'
    <2>1. ASSUME NEW d \in 0..today PROVE Cardinality(Carried(d)') <= Concurrency
      <3>1. Carried(d) \in SUBSET Tasks
        BY DEF Carried
      <3>2. /\ Cardinality(Carried(d)) \in Nat /\ Cardinality(Carried(d)') \in Nat
            /\ Cardinality(Carried(d)') <= Cardinality(Carried(d))
        BY <1>1, <3>1, FiniteTasks
      <3>3. QED
        BY <3>2 DEF CarryBounded
    <2>2. QED
      BY <1>1, <2>1 DEF CarryBounded
  <1>2. CASE UNCHANGED vars
    BY <1>1, <1>2 DEF vars, Carried
  <1>3. CASE Midnight
    <2>1. today' = today + 1 /\ UNCHANGED <<billed, sent, pc, permits>>
      BY <1>3 DEF Midnight
    <2>2. \A d : Carried(d)' = Carried(d)
      BY <2>1 DEF Carried
    <2>3. Carried(today + 1) \in SUBSET permits
      BY DEF Carried, DaysInOrder, Phases, Working, Jobs
    <2>4. Cardinality(Carried(today + 1)) <= Concurrency
      <3>1. /\ IsFiniteSet(permits) /\ Cardinality(permits) \in Nat
            /\ Cardinality(permits) <= Concurrency
        BY FS_CardinalityType
      <3>2. /\ Cardinality(Carried(today + 1)) <= Cardinality(permits)
            /\ Cardinality(Carried(today + 1)) \in Nat
        BY <2>3, <3>1, FS_Subset, FS_CardinalityType
      <3>3. QED
        BY <3>1, <3>2
    <2>5. ASSUME NEW d \in 0..(today + 1) PROVE Cardinality(Carried(d)') <= Concurrency
      <3>1. CASE d = today + 1
        BY <2>2, <2>4, <3>1
      <3>2. CASE d # today + 1
        BY <2>2, <3>2 DEF CarryBounded
      <3>3. QED
        BY <3>1, <3>2
    <2>6. QED
      BY <2>1, <2>5 DEF CarryBounded
  <1>4. ASSUME NEW j \in Jobs, Quiet(j) \/ Refunding(j) \/ RefuseTask(j) \/ Skip(j)
        PROVE  CarryBounded'
    <2>1. UNCHANGED <<today, billed, sent>>
      BY <1>4 DEF Quiet, Refunding, Unspent, End, RefuseTask, Skip
    <2>2. \A u \in Tasks : pc'[u] = "fetch" => pc[u] = "fetch"
      <3>1. CASE Quiet(j)
        BY <3>1 DEF Quiet, Spawn, Select, EnterBackfill, FetchMisses, Answered, BackfillLimited,
           Wake, Spent, End, Goto, Jobs
      <3>2. CASE Refunding(j)
        BY <3>2 DEF Refunding, Unspent, End, Goto, Jobs
      <3>3. CASE RefuseTask(j) \/ Skip(j)
        BY <3>3 DEF RefuseTask, Skip, Goto, Jobs
      <3>4. QED
        BY <1>4, <3>1, <3>2, <3>3
    <2>3. \A d \in 0..today : Carried(d)' \in SUBSET Carried(d)
      BY <2>1, <2>2 DEF Carried
    <2>4. QED
      BY <1>1, <2>1, <2>3
  <1>5. ASSUME NEW j \in Jobs, EnterTask(j) PROVE CarryBounded'
    <2>1. /\ UNCHANGED <<today, sent>> /\ billed' = [billed EXCEPT ![j] = today]
          /\ pc' = [pc EXCEPT ![j] = "fetch"] /\ j \in Tasks
      BY <1>5 DEF EnterTask, Admit, Goto
    <2>2. \A d \in 0..today : Carried(d)' \in SUBSET Carried(d)
      BY <2>1 DEF Carried
    <2>3. QED
      BY <1>1, <2>1, <2>2
  <1>6. ASSUME NEW j \in Jobs, Fetch(j) PROVE CarryBounded'
    <2>1. UNCHANGED <<today, billed>> /\ pc[j] = "fetch" /\ pc' = [pc EXCEPT ![j] = "ask"]
          /\ sent' = IF j \in Tasks THEN [sent EXCEPT ![j] = today] ELSE sent
      BY <1>6 DEF Fetch, Goto
    <2>2. j \in Tasks => sent[j] = None
      BY <2>1 DEF Phases
    <2>3. \A d \in 0..today : Carried(d)' \in SUBSET Carried(d)
      BY <2>1, <2>2 DEF Carried
    <2>4. QED
      BY <1>1, <2>1, <2>3
  <1>7. QED
    BY <1>2, <1>3, <1>4, <1>5, <1>6, StepKinds DEF Next

\* Every step gives back what its job no longer needs.
LEMMA NextHolders == JudgeInv /\ [Next]_vars => NothingLeaks'
  <1> SUFFICES ASSUME JudgeInv, [Next]_vars PROVE NothingLeaks'
    OBVIOUS
  <1> USE JudgeAssumption DEF JudgeInv, TypeOK, NothingLeaks, Working, limiter, gate, Goto
  <1>1. CASE UNCHANGED vars \/ Midnight
    BY <1>1 DEF vars, Midnight
  <1>2. ASSUME NEW j \in Jobs, Spawn(j) \/ Skip(j) PROVE NothingLeaks'
    BY <1>2 DEF Spawn, Skip, Jobs
  <1>3. ASSUME NEW j \in Jobs, Select(j) \/ EnterBackfill(j) \/ Wake(j) PROVE NothingLeaks'
    <2>1. j \in Backfills
      BY <1>3 DEF Select, EnterBackfill, Wake, Phases, Jobs
    <2>2. QED
      BY <1>3, <2>1 DEF Select, EnterBackfill, Wake, Jobs
  <1>4. ASSUME NEW j \in Jobs, EnterTask(j) \/ RefuseTask(j) PROVE NothingLeaks'
    BY <1>4 DEF EnterTask, RefuseTask, Jobs
  <1>5. ASSUME NEW j \in Jobs, Fetch(j) \/ FetchMisses(j) \/ Answered(j) PROVE NothingLeaks'
    BY <1>5 DEF Fetch, FetchMisses, Answered, Jobs
  <1>6. ASSUME NEW j \in Jobs, BackfillLimited(j) PROVE NothingLeaks'
    <2>1. /\ j \in Backfills /\ permits' = permits \ {j} /\ slots' = slots
          /\ \E l \in {"done", "sleep"} : pc' = [pc EXCEPT ![j] = l]
      BY <1>6 DEF BackfillLimited
    <2>2. QED
      BY <2>1 DEF Jobs
  <1>7. ASSUME NEW j \in Jobs, End(j) PROVE NothingLeaks'
    BY <1>7 DEF End, Jobs
  <1>8. QED
    BY <1>1, <1>2, <1>3, <1>4, <1>5, <1>6, <1>7
       DEF Next, Step, Run, FetchFails, Unavailable, TaskLimited, Write, WriteMark, Spent, Unspent

\* Holds of every behaviour, for any number of tasks, backfills and days: the
\* budget is exact, its days in order, and what is carried over bounded.
THEOREM InvariantHolds == Spec => []JudgeInv
  <1>1. JudgeInv /\ [Next]_vars => JudgeInv'
    BY NextType, NextPhases, NextDays, NextBudget, NextCarry, NextHolders DEF JudgeInv
  <1>2. QED
    BY InitInv, <1>1, PTL DEF Spec

\* The state has the types TypeOK names.
THEOREM TypeCorrect == Spec => []TypeOK
  <1>1. JudgeInv => TypeOK
    BY DEF JudgeInv
  <1>2. QED
    BY InvariantHolds, <1>1, PTL

\* JudgeDailyCap: the counter is exactly what its day was billed and not
\* refunded.
THEOREM BudgetExact == Spec => []BudgetIsExact
  <1>1. JudgeInv => BudgetIsExact
    BY DEF JudgeInv
  <1>2. QED
    BY InvariantHolds, <1>1, PTL

\* JudgeDailyCap: no day is billed beyond the cap, whatever is refunded when.
THEOREM BillsKeepCap == Spec => []BilledWithinCap
  <1>1. JudgeInv => BilledWithinCap
    BY DEF JudgeInv
  <1>2. QED
    BY InvariantHolds, <1>1, PTL

\* A day's calls are those billed to it and those carried into it.
LEMMA SentSplit ==
  ASSUME JudgeInv, NEW d \in 0..Days
  PROVE  Cardinality(SentOn(d)) <= Cap + Concurrency
  <1> USE JudgeAssumption DEF JudgeInv, TypeOK, DayOrNone
  <1>1. CASE d <= today
    <2>1. SentOn(d) \in SUBSET (BilledOn(d) \cup Carried(d))
      BY DEF SentOn, BilledOn, Carried, DaysInOrder, Phases
    <2>2. BilledOn(d) \in SUBSET Tasks /\ Carried(d) \in SUBSET Tasks
      BY DEF BilledOn, Carried
    <2>3. /\ IsFiniteSet(BilledOn(d)) /\ IsFiniteSet(Carried(d))
          /\ Cardinality(BilledOn(d)) \in Nat /\ Cardinality(Carried(d)) \in Nat
          /\ Cardinality(BilledOn(d) \cap Carried(d)) \in Nat
          /\ Cardinality(BilledOn(d) \cup Carried(d)) \in Nat
      BY <2>2, FiniteTasks
    <2>4. Cardinality(BilledOn(d) \cup Carried(d)) <= Cardinality(BilledOn(d)) + Cardinality(Carried(d))
      <3>1. Cardinality(BilledOn(d) \cup Carried(d))
              = Cardinality(BilledOn(d)) + Cardinality(Carried(d)) - Cardinality(BilledOn(d) \cap Carried(d))
        BY <2>3, FS_Union
      <3>2. QED
        BY <2>3, <3>1
    <2>5. Cardinality(SentOn(d)) \in Nat
          /\ Cardinality(SentOn(d)) <= Cardinality(BilledOn(d) \cup Carried(d))
      BY <2>1, <2>2, FiniteTasks
    <2>6. Cardinality(BilledOn(d)) <= Cap /\ Cardinality(Carried(d)) <= Concurrency
      BY <1>1 DEF BilledWithinCap, CarryBounded
    <2>7. QED
      BY <2>3, <2>4, <2>5, <2>6
  <1>2. CASE ~(d <= today)
    <2>1. SentOn(d) = {}
      BY <1>2 DEF SentOn, DaysInOrder
    <2>2. QED
      BY <2>1, FS_EmptySet
  <1>3. QED
    BY <1>1, <1>2

\* spawn_store_contradiction_judges: the calls that leave on one day exceed the
\* cap by the permits of the gate at most.
THEOREM CallsBounded == Spec => []CallsNearCap
  <1>1. JudgeInv => CallsNearCap
    BY SentSplit DEF CallsNearCap
  <1>2. QED
    BY InvariantHolds, <1>1, PTL

\* spawn_store_contradiction_judges, backfill_judge: slots and permits are held
\* exactly by the jobs that need them, so none leaks on any way out of a job.
THEOREM GateLeaksNothing == Spec => []NothingLeaks
  <1>1. JudgeInv => NothingLeaks
    BY DEF JudgeInv
  <1>2. QED
    BY InvariantHolds, <1>1, PTL

\* No job waits at the gate while nobody works: what JobsEnd needs of the gate
\* besides fairness.
THEOREM GateKeepsServing == Spec => []GateServes
  <1>1. JudgeInv => GateServes
    <2> SUFFICES ASSUME JudgeInv, ~PermitLeft PROVE \E k \in Jobs : pc[k] \in Working
      BY DEF GateServes
    <2>1. permits # {}
      BY JudgeAssumption, FS_EmptySet DEF PermitLeft
    <2>2. QED
      BY <2>1 DEF JudgeInv, NothingLeaks
  <1>2. QED
    BY InvariantHolds, <1>1, PTL

-----------------------------------------------------------------------------
(* The ledger that the counter stands for *)

Ledger == [d \in 0..Days |-> BilledOn(d)]
Accounts == [u \in Tasks |-> Account(u)]

\* A step that bills nobody, refunds nobody and turns nobody away.
LEMMA SameAccounts ==
  ASSUME UNCHANGED <<billed, free>>,
         \A u \in Tasks : billed[u] = None => (pc'[u] = "done" <=> pc[u] = "done")
  PROVE  Ledger' = Ledger /\ Accounts' = Accounts
  <1>1. \A d : BilledOn(d)' = BilledOn(d)
    BY DEF BilledOn
  <1>2. \A u \in Tasks : Account(u)' = Account(u)
    BY DEF Account
  <1>3. QED
    BY <1>1, <1>2 DEF Ledger, Accounts

\* The day's budget lasts while the counter is below the cap.
LEMMA BudgetLasts == TypeOK => (Budget!Lasts <=> Cardinality(BilledOn(today)) < Cap)
  <1>1. \A S : Budget!Cardinality(S) = Cardinality(S)
    BY DEF Budget!Cardinality, Cardinality
  <1>2. TypeOK => Ledger[today] = BilledOn(today)
    BY DEF TypeOK, Ledger
  <1>3. QED
    BY <1>1, <1>2 DEF Budget!Lasts, Ledger

\* The ledger starts empty.
LEMMA BudgetInit == Init => Budget!Init
  <1> SUFFICES ASSUME Init PROVE Budget!Init
    OBVIOUS
  <1>1. \A d \in 0..Days : BilledOn(d) = {}
    BY JudgeAssumption DEF Init, BilledOn
  <1>2. \A u \in Tasks : Account(u) = "none"
    BY DEF Init, Account, Jobs
  <1>3. QED
    BY <1>1, <1>2 DEF Budget!Init, Init

\* Every step is a step of the budget, or none.
LEMMA BudgetStep == JudgeInv /\ [Next]_vars => [Budget!Next]_Budget!vars
  <1> SUFFICES ASSUME JudgeInv, [Next]_vars
               PROVE  Budget!Next \/ (today' = today /\ Ledger' = Ledger /\ Accounts' = Accounts)
    BY DEF Budget!vars, Ledger, Accounts
  <1> USE JudgeAssumption DEF JudgeInv, TypeOK, limiter, gate, DayOrNone
  <1>1. CASE UNCHANGED vars
    BY <1>1, SameAccounts DEF vars
  <1>2. CASE Midnight
    <2>1. Ledger' = Ledger /\ Accounts' = Accounts
      BY <1>2, SameAccounts DEF Midnight
    <2>2. Budget!NextDay
      BY <1>2, <2>1 DEF Midnight, Budget!NextDay, Ledger, Accounts
    <2>3. QED
      BY <2>2 DEF Budget!Next
  <1>3. ASSUME NEW j \in Jobs, Quiet(j) \/ Fetch(j) \/ Skip(j)
        PROVE  today' = today /\ Ledger' = Ledger /\ Accounts' = Accounts
    <2>1. UNCHANGED <<today, billed, free>> /\ \A u \in Jobs \ {j} : pc'[u] = pc[u]
      BY <1>3 DEF Quiet, Fetch, Skip, Spawn, Select, EnterBackfill, FetchMisses, Answered,
         BackfillLimited, Wake, Spent, End, Goto
    <2>2. j \in Tasks /\ billed[j] = None => pc'[j] # "done" /\ pc[j] # "done"
      BY <1>3 DEF Quiet, Fetch, Skip, Spawn, Select, EnterBackfill, FetchMisses, Answered,
         BackfillLimited, Wake, Spent, End, Goto, Phases, Working
    <2>3. \A u \in Tasks : billed[u] = None => (pc'[u] = "done" <=> pc[u] = "done")
      BY <2>1, <2>2 DEF Jobs
    <2>4. QED
      BY <2>1, <2>3, SameAccounts
  <1>4. ASSUME NEW j \in Jobs, Refunding(j)
        PROVE  Budget!Next \/ (today' = today /\ Ledger' = Ledger /\ Accounts' = Accounts)
    <2>1. /\ UNCHANGED <<today, billed>> /\ pc' = [pc EXCEPT ![j] = "done"]
          /\ free' = IF j \in Tasks THEN free \cup {j} ELSE free
      BY <1>4 DEF Refunding, Unspent, End, Goto
    <2>2. CASE j \in Tasks
      <3>1. j \notin free /\ billed[j] # None
        BY <1>4, <2>2 DEF Refunding, Phases, Working
      <3>2. \A d \in 0..Days : BilledOn(d)' = BilledOn(d) \ {j}
        BY <2>1, <2>2 DEF BilledOn
      <3>3. /\ Account(j) = "billed" /\ Account(j)' = "given back"
            /\ \A u \in Tasks \ {j} : Account(u)' = Account(u)
        BY <2>1, <2>2, <3>1 DEF Account, Jobs
      <3>4. Ledger' = [d \in 0..Days |-> Ledger[d] \ {j}]
        BY <3>2 DEF Ledger
      <3>5. Accounts' = [Accounts EXCEPT ![j] = "given back"] /\ Accounts[j] = "billed"
        BY <2>2, <3>3 DEF Accounts
      <3>6. Budget!GiveBack(j)
        BY <2>1, <3>4, <3>5 DEF Budget!GiveBack, Ledger, Accounts
      <3>7. QED
        BY <2>2, <3>6 DEF Budget!Next
    <2>3. CASE j \notin Tasks
      <3>1. \A u \in Tasks : pc'[u] = pc[u]
        BY <2>1, <2>3 DEF Jobs
      <3>2. QED
        BY <2>1, <2>3, <3>1, SameAccounts
    <2>4. QED
      BY <2>2, <2>3
  <1>5. ASSUME NEW j \in Jobs, EnterTask(j) PROVE Budget!Next
    <2>1. /\ j \in Tasks /\ billed[j] = None /\ j \notin free /\ pc[j] = "gate"
          /\ UNCHANGED <<today, free>> /\ CountToday < Cap
          /\ billed' = [billed EXCEPT ![j] = today] /\ pc' = [pc EXCEPT ![j] = "fetch"]
      BY <1>5 DEF EnterTask, Admit, Goto, Phases
    <2>2. /\ BilledOn(today)' = BilledOn(today) \cup {j}
          /\ \A d \in 0..Days : d # today => BilledOn(d)' = BilledOn(d)
      BY <2>1 DEF BilledOn
    <2>3. /\ Account(j) = "none" /\ Account(j)' = "billed"
          /\ \A u \in Tasks \ {j} : Account(u)' = Account(u)
      BY <2>1 DEF Account, Jobs
    <2>4. Ledger' = [Ledger EXCEPT ![today] = @ \cup {j}]
      BY <2>1, <2>2 DEF Ledger
    <2>5. Accounts' = [Accounts EXCEPT ![j] = "billed"] /\ Accounts[j] = "none"
      BY <2>1, <2>3 DEF Accounts
    <2>6. Budget!Lasts
      BY <2>1, CountTodayIs, BudgetLasts
    <2>7. Budget!Bill(j)
      BY <2>1, <2>4, <2>5, <2>6 DEF Budget!Bill, Ledger, Accounts
    <2>8. QED
      BY <2>1, <2>7 DEF Budget!Next
  <1>6. ASSUME NEW j \in Jobs, RefuseTask(j) PROVE Budget!Next
    <2>1. /\ j \in Tasks /\ billed[j] = None /\ j \notin free /\ pc[j] = "gate"
          /\ UNCHANGED <<today, free, billed>> /\ CountToday >= Cap
          /\ pc' = [pc EXCEPT ![j] = "done"]
      BY <1>6 DEF RefuseTask, Goto, Phases
    <2>2. Ledger' = Ledger
      BY <2>1 DEF Ledger, BilledOn
    <2>3. /\ Account(j) = "none" /\ Account(j)' = "turned away"
          /\ \A u \in Tasks \ {j} : Account(u)' = Account(u)
      BY <2>1 DEF Account, Jobs
    <2>4. Accounts' = [Accounts EXCEPT ![j] = "turned away"] /\ Accounts[j] = "none"
      BY <2>1, <2>3 DEF Accounts
    <2>5. ~Budget!Lasts
      BY <2>1, CountTodayIs, BudgetLasts
    <2>6. Budget!TurnAway(j)
      BY <2>1, <2>2, <2>4, <2>5 DEF Budget!TurnAway, Ledger, Accounts
    <2>7. QED
      BY <2>1, <2>6 DEF Budget!Next
  <1>7. QED
    BY <1>1, <1>2, <1>3, <1>4, <1>5, <1>6, StepKinds DEF Next

\* JudgeDailyCap keeps, with one counter for one day, the budget of every day:
\* a task is billed only while its day's budget lasts, turned away only when it
\* is spent, and refunded to the day it was billed to.
THEOREM BudgetOfEveryDay == Spec => ImplementsDailyBudget
  <1>1. QED
    BY InvariantHolds, BudgetInit, BudgetStep, PTL
       DEF Spec, ImplementsDailyBudget, Budget!Spec

=============================================================================
