# Ālaya: TLA+ models, checks and proofs

Ālaya is a long-term memory service for LLM agents: a Rust server
(`crates/alaya-server`, `alaya-core`, `alaya-backends`) over Qdrant (one point
per memory) and FalkorDB behind a small HTTP bridge (`crates/alaya-bridge`: one
node per memory, edges between them). Neither store has transactions, nothing
spans the two, several server processes may share both, and any handler may be
dropped at a deadline with its requests still on their way. This directory
models how the code keeps its promises under those conditions, checks the models
with TLC and proves the main ones for all parameters with TLAPS.

Paths below are relative to `src/crates/`. Line numbers of every modelled
definition are in `PROJECT.json` (`map`).

## 1. Inventory

| Component | State | Operations | What is hard |
|---|---|---|---|
| Compare-and-set writes (`alaya-backends/src/qdrant.rs`, `update_points`) | a point's payload with revision and bounded revision log; per process a write lock, an access lock | store, insert-only store, payload writes, access increments, delete | Qdrant answers 200 whether or not a conditional write applied; several processes; answers lost or late; bounded log; delete and re-create |
| Supersession and reversal (`alaya-core/src/service.rs`) | Qdrant marker, SUPERSEDES edges, `keep_both` stamp on the contradiction pair | memory_supersede, refute's second step, memory_unsupersede, resolve_contradiction | three records, two stores, no transaction, any call failing with or without effect, payload writes landing after their call has answered, memories without a node |
| Graph sweep and node upkeep (`service.rs`, bridge `cypher.rs`) | points, nodes, sweep marks, a call's cursor | sweep_gone_memory_nodes, ensure_node, delete_memory | reads that are stale when the delete lands; two processes; late requests; partly restored collections |
| Contradiction judge (`alaya-server/src/main.rs`, `service.rs`) | day, counter, backlog slots, gate permits, edge verdicts | try_slot, try_admit, refund, judge_contradiction, backfill | midnights between any two steps; shared permits; paid calls refunded later |
| Service worker (`main.rs`) | command channel, search slots and gate, single-flight flags, progress stamp | dispatch, inline handlers, spawned tasks, pinger, health probe | deadlines (and one command without), backlogs, wedged handlers, false stalls |
| Refute (`service.rs`) | correction memory, marker or CONTRADICTS edge with its reason | refute_store, refute_finish, and the retries their replies ask for | two phases with a deadline between; deletes and edge deletions meanwhile; a second refute of the same memory |
| Store path (`service.rs`, `interference.rs`) | new point, node, CONTRADICTS and other edges, summary | store_memory_with, enrich_summary | point and edges are separate writes; follow-ups race edits |
| Payload edits (`qdrant.rs`) | the fields of a payload | patch, confirm, merge_while_live, carry_over, batches | who owns which field across concurrent writers |
| Duplicates (`service.rs`, `deduplication.rs`, the batch in `qdrant.rs`) | what a scan kept, similar pairs, groups, a batch of conditional writes | find_duplicates, merge_duplicates | transitive groups; each memory of a batch may fail, land late, be deleted on its own or have no node |
| Search (`service.rs`, `hybrid_search.rs`) | none of its own | search_with, access bumps | visibility of superseded memories; ranking is floating point |
| Hebbian edges (bridge `queue.rs`, `handlers/hebbian.rs`) | a Redis list, edge weights | enqueue, consume, decay, prune | at-most-once queue; decay racing strengthening |
| Contradiction edges (bridge `handlers/edges.rs`, `contradictions.rs`) | verdict, resolution and refute reason on an edge | create, delete (guarded), list, resolve | guard and delete are two queries |
| OIDC caches (`alaya-oidc`) | discovery document, keys, a gate with a cooldown for each, detached fetches | discovery, key_for_kid | callers that hang up, outages, key rotation, floods of unknown key ids |
| Embedding cache (`alaya-server/src/cached_embedding.rs`) | vectors by model, size, prompt and text, in process and in Redis; a circuit breaker | look up, fill | entries never change; concurrent batches feed one breaker, and all of them probe when it is half open |
| Operations console (`ops-console`) | sessions, pending confirmations, effects | login, confirm, act | expiry, replay of a confirmation |
| Pure scoring, telemetry, routing, scripts | none | | |

Interaction: an HTTP or MCP request becomes a command on the worker's channel;
single-memory writes run inline one at a time, searches and long operations as
spawned tasks of the same thread, so they interleave at every await. Handlers
call Qdrant directly and the graph through the bridge, and two processes meet
only in those stores.

What makes each component correct:

- compare-and-set: no update lost, no deleted memory brought back, no access
  counted twice, answers that are true, an atomic memory as far as callers can see;
- supersession: marker and edge agree once no call runs, and a marker that came too
  late for its edge is one whose caller was left in doubt; a write of the marker does
  what its call had read, however late it lands; stamps are taken back only by their
  writer;
- sweep: no node of a memory that is there and was ensured is taken, a call
  removes no more than its floor, a finished pass leaves no stray node;
- judge: the counter is exact, no day is billed beyond the cap, calls exceed it
  by no more than the gate, jobs end;
- refute: a success it told stands, whatever other refutes and retries there were;
  a refusal wrote nothing; a caller that retries as told comes to an end;
- duplicates: groups are the connected ones; replies and edges claim no supersession
  that was not marked; a merge that has ended has merged; retries converge;
- OIDC: at most one request of a kind per cooldown, and a provider that is back is
  used again one cooldown later, whoever hung up;
- worker: a draining worker is never reported stalled and a wedged one is; slots
  and flags come back however a task ends; callers and shutdown always return.

## 2. Plan

Done, in the order of weight: `CasStore` with `AtomicMemory` (every other component
writes through it); `Supersession`, `Refute` and `Duplicates` with `Clusters` (the
three ways a memory is corrected or replaced; a write that is answered is atomic in
them, which `CasStore` justifies, and `Duplicates` has the batch form of the
protocol); `GraphSweep`; `JudgeCap` with `DailyBudget`; `Worker` (what dispatches all
of them); `KeyCache`. Each has its proofs.

What is left that could be modelled, in this order:

1. `ContradictionEdges`: detection, listing and resolutions in the bridge (verdicts
   are in `JudgeCap`, the guarded delete in `Refute`, the stamps in `Supersession`).
2. `MemoryPayload`: what each payload writer keeps of the others' fields, with
   carry_over; abstract specification: one record per field owner.
3. `HebbianQueue`, `StorePath` (with the summary follow-up), `Chains` (supersession
   chains and what search shows), merging ranked lists against a reference.
4. `Breaker`: the embedding cache's circuit breaker under concurrent batches.
5. The console's confirmations and effects.

## 3. Modules

### CasStore, AtomicMemory, MCCasStore, CasStoreProofs

One memory's point. A task is one call; its program counter follows
`update_points`: `TakeWriteLock`/`TakeAccessLock` and `PassGate` (the two locks
and access_turn's order), `ReadAndSend` (read, build, stamp with a fresh revision,
send), `Decline`/`FindAbsent`/`Abort` (the early returns), `ReadBack` (the
verdict of `landed`: Yes, No, Unknown) and the bounded retries. Requests live in
`net` and `deleting` until the server applies them (`Apply`, `ApplyDelete`), or
never does; `SendFails` and `CutOff` leave them there. `hist`, `applied` and
`intruded` are history variables. `AtomicMemory` is what
`VectorStorage` promises in `traits.rs`; the refinement maps the point to the list
of calls it is made of.

### Supersession, MCSupersession, SupersessionProofs

One memory that may be superseded: `marker` (metadata.superseded_by and its
reason), `edges`, `stamp`. A supersede is mark, re-read on failure, edge; a
refute is the same with a conditional write; an unsupersede is settle, sweep,
reverse, resweep, recheck or unsettle; every store call has a failing twin, and
`CutOff` drops a call anywhere. A supersede whose write failed and is found to have
landed writes its edge and still returns its error (`repair`).

A payload write without an answer stays in `flight` and may land at any later time
(`LandLate`), also after its call has answered, as long as no other write of the
payload has landed since: each is conditional on the revision it was prepared for.
A graph query without an answer has run or never runs. `noded` are the survivors
that have a node at both ends: the query of an edge makes no node, and where one is
missing there is no edge and no error (`service.rs:2537` does not look at the count).

mark_superseded says that "a write that landed without being confirmed counts too"
(`service.rs:2449`). That holds up to its re-read. A marker that lands after it has no
edge and no call that owes it one, until the caller repeats the call; `late` is that
state. So EdgeOwed and SupersededHasEdge are stated for markers that are not late, and
LateIsTold says of the late ones that their caller ended with an error, in doubt or
cut off. An edge may also be written after its marker was reversed; `belated` holds
those, and StaleEdgeIsBelated says that no live memory has any other stale edge.
EdgeOwed, SupersededHasEdge, StaleEdgeIsBelated, OpenedByOther and one part of
ReversalTold are stated for runs in which nothing was given up (`trouble`); a marker
write that failed and was re-read is not given up. LateIsTold, StampsKept and WritesAsRead hold whatever fails.

### GraphSweep, MCGraphSweep, GraphSweepProofs

Points, nodes, the mark on each node, stores and deletes as separate point and
node writes (`PutPoint`/`EnsureNode`/`EnsureLost`, `DropPoint`/`DropNode`), and
a call of the sweep page by page: `List`, `Hold` or `Read`, `MarkPage`, `Reread`,
`Delete`. `CutOff` is an error or the deadline: the request may land later
(`LandLate`). Callers resume a pass from where the last call said.

### Refute, MCRefute, RefuteProofs

A wrong memory and its correction: a point and a node each, and the CONTRADICTS edge
between them. `ReadBoth`, `Insert`, `Confirm`, `Reread`, `StoreNode`, `Detect` are
refute_store, `Check` to `Recheck` the linking half of refute_finish, `Mark` and
`Remark` the replacing half. Their failing twins, `CutOff` (deadline or crash) and
`Retry` (the caller asks again where the reply says so) are actions. `Store`,
`DropPoint`/`DropNode`, `Supersede` and `Guard`/`Unlink` (edges.rs: guard query, then
delete) are the other requests on the same two memories. A write that fails has its
effect at once or never here: the late landings of conditional writes are `CasStore`'s
and `Supersession`'s. `wrote`, `taken` and `raised` (refutes that put back the node of
a deleted wrong memory) are history variables. A link deleted between guard and delete
although it had just got its reason is lost; the code accepts that, and `taken` names
it.

### Clusters, Duplicates, MCDuplicates, DuplicatesProofs

`Clusters` is deduplication.rs: disjoint sets with ranks and path compression, and
next to it what a group is meant to be (`Components`); a pair of which one side was
not scanned is skipped, as in group_duplicates. In `Duplicates`, `FirstPage`,
`NextPage` and `Choose` are find_duplicates and its caller's choice;
`CheckCanonical`, `CheckDuplicates`, `FindAbsent`, `ReadBatch`, `Write`, `ReadBack`,
`Settle`, `Reread` and `WriteEdges` are merge_duplicates over the Strict batch of
update_metadata_batch: one conditional write per memory, one read-back for all, a
verdict for each. `LandLate` and `LandLateEdge` are writes whose answer never came;
`DeletePoint`/`DeleteNode` and `Touch` (edit or re-store) what others do meanwhile:
a node removal that is sent late takes the node of a re-stored memory too
(`leaving`). Memories are numbered in the order of the scan; a re-stored memory keeps
its place, though the code gives it a new created_at. Embedding
and cosine similarity are the sequence `similar`. The dry run and malformed or
repeated hashes write nothing and are left out.

The scan has one page. get_all turns Qdrant's cursor, a JSON value, into text
with its quotes (`qdrant.rs:2008`) and sends the text back as a string
(`qdrant.rs:1982`), so it names no point and the second page is an error (`NextPage`);
where an ordered scroll has no cursor the scan ends with its first page. Which of the
two Qdrant does is left open. The same cursor serves the filtered listing
(`service.rs:1872`) and the summary backfill (`main.rs:2174`).

A store's ensure_node is not fatal (`service.rs:955`), so some memories start without a
node (`bare`), and a re-store may or may not make one. A merge marks them; their
edges are silently not made, and `Merged` asks for the edge only where both nodes
were made.

### KeyCache, MCKeyCache, KeyCacheProofs

One identity provider. `Call` is the first look into a cache; `EnterKeys`/`LeaveKeys`
the gate of the keys, `ServeDoc`, `FetchDoc`, `RefuseDoc` discovery with its own
gate, `FetchKeys` the refetch; `Respond`, `LandDoc`, `LandKeys` the spawned fetches,
which hold their gate and outlive a caller that leaves (`HangUp`). `Fault` is an
outage, a recovery or a key rotation; `Tick` is time, which waits for callers that
need not wait. Left out: the checks of a token once its key is found, that a
withdrawn key stays cached until the next refetch, and the fallback of cooled_down
on a host up for less than a minute.

### JudgeCap, DailyBudget, MCJudgeCap, JudgeCapProofs

`JudgeDailyCap` (`day`, `count`, `slots`), the gate (`permits`), the store path's
tasks and backfill pairs, and `verdict` on each edge. `Midnight` moves the clock
between any two steps. `Spawn`/`Skip` are try_slot, `EnterTask`/`RefuseTask`
try_admit with the permit in hand, `Fetch` to `WriteMark` judge_contradiction,
`BackfillLimited`/`Wake` with_backoff; `End` and `Refund` what a task gives back.
`DailyBudget` is what the cap promises: a ledger that has every day's bills. The
refinement maps the counter to the tasks billed and not refunded, day by day.

### Worker, MCWorker, WorkerProofs

`chan` is the command channel, `loop` what the thread awaits (a command, an inline
handler, or it is stuck or gone), `phase` where a command is. `Dispatch`, `GiveUp`
and `HangUp` are call_rpc and its caller; `TakePing`, `TakeInline`, `TakeSearch`,
`TakeFlagged` are the arms of the loop; `PassGate` is a search's turn at the gate;
`EndInline` and `EndTask` are a return, a deadline or (task only) a panic; `Wedge`
blocks the thread, `Die` is a panic of the loop with its supervisor; `Shut`, `Close`
and `Exit` are the shutdown. `Tick` is time, in units of 30 s: it waits for what is
due, so the thread's own steps take no time, and all timers count down. `waited` is a
history variable.

The single-flight commands are of three kinds, with a flag each: "sweep" (the graph
sweep; the keyword backfill has a flag of its own and is otherwise the same), "stats",
and "backfill", the contradiction backfill. That one runs under no timeout
(`main.rs:2349`, `main.rs:2768`; the comment at `main.rs:1453` says so), so its task
has no `Timed` deadline, need never end, and its caller may give up with no queue and
no wedge. The summary backfill has no flag and is left out.

## 4. Runs

| Run | Instance | Shows |
|---|---|---|
| cas_race | two stores, an increment and a delete from 2 processes, or a writer between two increments of one; log and attempts 2; fair | NoLostUpdate, AtMostOnce, TruthfulOutcome, CasInv, TurnBound, refinement of AtomicMemory, Returns |
| sup_race | supersede, refute, two reversals, an operator | EdgeOwed, LateIsTold, StaleEdgeIsBelated, ReversalTold, SupInv, WritesAsRead, StampsKept |
| sup_settled | two supersedes, two reversals | violated: see Findings |
| sweep_race | 2 processes, 2 hashes, 3 calls, one moving memory | SweepInv, EnsuredNodesStay |
| sweep_pages | 5 hashes (one malformed), window 3, floor 1, limits 1, 2, 3, 5, 4 calls | CallAllowance, PassComplete, EmptyCollectionKeepsNodes |
| sweep_link | 1 process, one moving memory | violated: see Findings |
| judge_cap | 3 tasks and a re-judging backfill on one pair, cap 1, gate 2, backlog 2, one retry, one midnight; fair | JudgeInv, BudgetIsExact, refinement of DailyBudget, JobsEnd |
| worker_safe | a write, two searches, two contradiction backfills; one place in the channel, one slot, gate 1 | NoFalseStall, WorkerInv |
| worker_live | a write, a search, a contradiction backfill; two places, one slot, gate 1; fair | CallersReturn, WedgeReported, SlotsReturn, ShutdownEnds |
| refute_race | two refutes and two requests out of delete, store, supersession and edge deletion; two failures; fair | RefuteInv, AnswersStand, StrayIsTold, RetriesEnd |
| key_cache | a token of the one key, a token of none, a login; two outages or rotations | KeyInv, ServedAfterCooldown, FetchesSpaced |
| dup_merge | two merges of one chain of three with an event or a fault, one merge with two events or with both; some memories without a node; every look at four memories; fair | DupInv, EdgesHaveMarkers, GroupsAreClusters, Converges |

The type invariant of each module is a part of its inductive invariant (`CasInv`,
`SupInv`, ...), which the runs check as the proofs use it.

Bounds. The revision log (production 8) and the attempts (8) are cut to 2: with three
writers both overflow, so every verdict and every give-up occurs. Two processes
suffice to bypass the in-process locks. In Supersession two survivors let a marker
move; two reversals let one overtake another (they are alike, so TLC takes them as
symmetric); `Nodings` lets the other survivor's node be missing or there. In
GraphSweep the window (500) is 3 and the floor (3) is 1, so a page, a window and an
allowance each end inside five hashes; `MaxCalls` bounds tokens; only `Moving` hashes
change while a sweep runs. In JudgeCap three tasks pass a budget of one, a gate of two
and a backlog of two, and `Days` gives one midnight, at any point of any job. In
Refute two refutes of one memory meet two requests that take away or put back what
they rely on, and `MaxFaults` lets a retry fail as well. In KeyCache the cooldowns 3
and 2 and the fetch 1 keep production's order (30 s, 29 s, 10 s), and the `Horizon` of
6 is two cooldowns. In Duplicates a page and a limit of four leave one memory of five
out of a first page: two that are superseded already keep a merge's scan below the
limit, so it either ends or asks for a second page, and a look ends at the limit; a
chain of three is a group that is not all pairs; `Rounds` is 2 as the attempts above;
the looks are every sequence of up to four of the six pairs, so all trees and cycles
over four memories. In Worker the timers are the smallest that keep their order (ping
1, deadline 1, long deadline 2, margin 1) and the threshold is exactly deadline plus
ping, where production has 180 s against 150 s; one place, one slot and one permit
make channel, backlog and gate full with two commands. Sweeps and stats differ from
the other kinds only in `Timed` and `DeadlineOf`; a run with one of each has too many
states, so the runs have the kind without a deadline, and the proofs cover every mix.
`age` stops at the threshold plus one. Unbounded counters do not occur otherwise.
`CHECK_DEADLOCK FALSE` is given where all calls may have returned.

Fairness. `CasStore!FairSpec` assumes that a call that can step does and that the
server answers: every request has a timeout. The locks promise no fairness
(`qdrant.rs:390`), and none is assumed of them. Weak fairness is enough because the
calls of a run are finitely many and each takes its locks finitely often (the attempts
are bounded), so a lock that a call waits for is at last free for good. Under an
endless run of writes an increment could wait for ever; the code bounds that wait in
the search that awaits it (ENRICH_BUDGET), and the model has it as a cut-off. Nor does
`FairSpec` assume that writes win their races. `JudgeCap!FairSpec` is weak fairness of
what a job does by itself: calls have timeouts, sleeps are bounded by
JUDGE_MAX_BACKOFF, tokio's semaphore is FIFO (and weak fairness suffices, as every job
takes finitely many permits); midnights and new jobs are not fair. `Worker!FairSpec`:
time passes, timers fire and the thread takes what is there (the LocalSet polls every
woken task); bootstrap ends, for its awaits are bounded; a handler need not end before
its deadline, the contradiction backfill need never end, and callers, hang-ups, panics
and SIGTERM need not come, and a wedge may. `Refute!FairSpec`: a refute's own steps,
and its caller's retry where the reply asks for one; failures are bounded, others need
not come. `Duplicates!FairSpec`: the merge's own steps and its retry; lost requests
need never land. `KeyCache` says "in bounded time" (ServedAfterCooldown, Waits)
instead of "eventually" and needs no fairness. `Supersession` and `GraphSweep` state
safety only: there nobody retries by himself.

## 5. Proofs

`tlapm` checks, for all values of the constants under the named assumptions
(`CasAssumption`, `SupersessionAssumption`, `NodingsAssumption`, `SweepAssumption`,
`JudgeAssumption`, `WorkerAssumption`, `RefuteAssumption`, `KeyCacheAssumption`,
`DuplicatesAssumption`):

- **CasStoreProofs.** `CasInv` is inductive. NoLostUpdate alone is not: one must
  know that the log is the newest part of the history (`LogOfHistory`), that a
  call about to read has nothing in the history and nothing on its way
  (`FreshBeforeRead`; a verdict No proves that), that a waiting call has at most its
  current token there, directly after its base (`AppliedAfterBase`), and that a
  request that still matches carries the present payload plus itself
  (`RequestsFresh`). From it: TypeOK, NoLostUpdate, AtMostOnce, TruthfulOutcome, and
  that `CasStore` implements `AtomicMemory`: a step that appends to the history is an
  atomic operation, any other a stutter. TurnBound needs an account of its own
  (`AccessInv`): in a writer's turn, the increments that came in and those that may
  still come in (`MayIntrude`: given up on with the request on its way, or past the
  gate and not in the point) together stay within the bound, because the gate lets
  nobody in while the lock is held, and only a delete makes an applied increment a
  candidate again. The same facts about who holds a lock (`LocksHeld`) give
  LocksNeverBlock: every unfinished client has a call that no lock holds up.
- **SupersessionProofs.** `SupInv` adds to EdgeOwed, LateIsTold, StaleEdgeIsBelated
  and ReversalTold where a call is (`Phases`), what a write still under way would find:
  the memory as its call read it, and a call that is not through with its edge or has
  ended in doubt (`Flights`), whose stamp a pair carries (`OwnStamps`), and how a
  settled pair can be open again (`OpenedByOther`). From it the four invariants,
  SupersededHasEdge, StampsKept and WritesAsRead step by step (a late write satisfies
  the latter only because of `Flights`), and OpenedByOther itself: what remains of step
  1's promise after finding 1.
- **GraphSweepProofs.** `SweepInv`: tokens belong to one call (`TokensApart`), a
  delete's mark is on no ensured node (`DeletesSpareEnsured`: marking and the
  second read make it so, ensure_node keeps it), what a call removed and may
  remove was counted (`Allowed`), what a pass has still to remove lies ahead of it or
  on the page in hand (`DueAhead`: a page takes the least that are left, a short page
  is all that is left, and the cursor passes nothing it holds back), and a sweep of
  an empty collection is held before it deletes (`EmptyIsHeld`). From it EnsuredNodesStay,
  CallAllowance, PassComplete and EmptyCollectionKeepsNodes.
- **JudgeCapProofs.** `JudgeInv`: a task's bill, call and permit are in order
  (`Phases`, `DaysInOrder`), and the calls carried over a midnight were permits at
  that midnight (`CarryBounded`); slots and permits are held exactly by the jobs that
  need them (`NothingLeaks`, and so no job waits at the gate while nobody works).
  From it the budget's exactness, the cap, that `JudgeCap` implements `DailyBudget`
  (a bill, a refusal and a refund are steps of the ledger, any other a stutter), and
  CallsNearCap (calls that leave on a day exceed the cap by no more than the gate's
  permits; a call admitted before midnight may leave after it, so the comment at
  `main.rs:2684`, that a day's calls never exceed the cap, holds of bills only: section 6).
- **WorkerProofs.** `WorkerInv`: the time since the last stamp and what is left to
  the ping or to the deadline add up to at most a deadline plus a ping (`Beat`); a
  queue holds each command once and in its phase (`Queues`, `Places`); what a caller
  still waits for, plus what it stood in queues, is what its handler has left plus
  the margin, where it has a deadline (`Patience`). From it NoFalseStall, HeldByRunning,
  and GiveUpMeansQueue: a caller times out behind a queue, on a wedged worker, or on a
  contradiction backfill.
  The assumption `Stall >= Deadline + Ping` is more than the constant's comment
  asks for ("Must exceed CMD_DEADLINE", `main.rs:762`): the stamp before a command
  may be a whole ping period old when its handler starts. Production's 180 s suffice.
- **RefuteProofs.** `RefuteInv` adds to AnswersStand and RefusalsWriteNothing where
  a call is and what it has put there (`RefutePhases`: a call past its link or marker
  finds it there, or knows who took it) and why a node may stand without its point
  (`StrayHasCause`). From it the two and StrayIsTold: as long as nothing failed and
  the wrong memory is not stored again, a node that stands without its memory was put
  back by a refute, and every refute that put one back reports no success.
- **KeyCacheProofs.** `KeyInv`: a fetch under way holds its gate and armed it
  (`FlightsOK`), a held gate has a living holder (`GatesOK`, `CallsOK`), what began after
  the last disturbance has left the provider's present state in the cache (`Fresh`),
  and what a caller has waited for (`Waits`). ServedAfterCooldown alone is not
  inductive: that a refused caller's fetch cannot still be under way needs all of
  these. From it FetchesSpaced, ServedAfterCooldown, and NoLongWait (no caller waits
  longer than two fetches).
- **DuplicatesProofs.** `DupInv`: a goal is set once (`GoalsSet`), and every marker, log
  entry, request under way and outcome "landed" was asked for by its call's goal
  (`Known`: a verdict names a token of the call's own). From it ReplyHolds and
  EdgesHaveMarkers, which are not inductive without knowing where a marker comes from.
  What a merge has left out of its batch was deleted, and a node is missing only after
  a delete or where none was made (`Whole`); from it DoneIsMerged, the safety half of
  Converges.
  GroupsAreClusters is about the union-find alone. Its state is a function from items
  to parents and ranks. It represents classes of items (`Represents`) when parents stay
  in the class, each class has one root, and ranks rise on the way to it; so a climb
  of as many steps as there are items meets the root (no item twice). A new forest
  represents single items; compression keeps the classes and hanging one root below
  another unites two (`JoinRepresents`); so after the last pair the classes are those
  the pairs connect, and the groups read off them are `Components`. Induction over the
  pairs and along a climb is by the least number of a set (`StepByStep`, from WFMin).

Only model-checked: liveness (Returns, JobsEnd, RetriesEnd, Converges, the four of
Worker), which is out of the prover's reach, and the violation runs. What four of
these rest on besides fairness is proved: LocksNeverBlock (Returns), GateServes with
NothingLeaks (JobsEnd), DoneIsMerged (Converges) and HeldByRunning (SlotsReturn).

## 6. Findings

Four places where a comment or document says more than the code does. The first two
are violation runs; the other two are states the proofs had to name.

1. `sup_settled` (`service.rs:3316`): two reversals of one memory can end with
   the memory restored and its pair open again. `OnlyOthersOpen` proves that this
   is the only way: the reversal that stamped the pair first gave up, and took back a
   stamp that the other one had relied on.
2. `sweep_link` (`service.rs:2653`): a sweep can take an edge made after a re-store's
   point landed, not only edges of the memory that was gone.
3. `main.rs:2684` says that a day's calls never exceed the cap. That holds of bills; a
   call admitted before midnight may leave after it, so the calls of a day may exceed
   the cap, by no more than the gate's permits (`CallsNearCap`).
4. mark_superseded's "a write that landed without being confirmed counts too"
   (`service.rs:2449`) holds of writes that landed before its re-read. One that lands
   later leaves a marker without its edge; its caller ended with an error, in doubt or
   cut off (`LateIsTold`), and repeating the call writes the edge.

## 7. Not modelled

Most of the repository's lines are outside any of this: rendering (the console's
pages, forms, charts), transport (routes, MCP and REST shapes, RESP and JSON
encoding), configuration, query building, tests, and floating-point scoring and
ranking. They keep no state over which calls could race, and a definition for them
would restate them. The share of lines that the modules stand for is small for that
reason; the components in `PROJECT.json` say of each part which it is.

Also not modelled: what authentication does beyond the caches, scripts and benchmarks,
and the components of the plan's list. Within the modelled ones: which payload fields
a writer sets, deletion of a superseded memory in Supersession, chains of
supersessions, a clock that steps back, warnings and counters for operators; in
Worker a failed bootstrap, the self-check's command and the spawned commands that
have no flag (duplicates, summaries); what the sections above leave out by name.

Hazards that no property covers, because the code does not prevent them and no
document promises it would: an edge that is not made because a node is missing
(`service.rs:2537`), two memories that supersede each other (`service.rs:2428`,
reached in `dup_merge`), an edge that becomes guarded between the guard query and its
delete (`edges.rs:306`, reached in `refute_race`), and the quoted cursor
(`qdrant.rs:2008`). That a failure marker never replaces a verdict (`cypher.rs:341`)
is the condition of a single guarded query; a property would only repeat it, so
`JudgeCap` has the guard and no property.
