------------------------------- MODULE Worker -------------------------------
(***************************************************************************)
(* The service worker (crates/alaya-server/src/main.rs: service_worker,    *)
(* ServiceHandle::call_rpc, HealthChecker::worker_state, the pinger,       *)
(* shutdown).                                                              *)
(*                                                                         *)
(* Callers put commands on a bounded channel and wait for a reply.  One    *)
(* thread takes commands off in order: the writes run inline, one at a     *)
(* time; searches become tasks that hold one of Slots slots and pass a     *)
(* gate one by one; sweeps (and keyword backfills), stats and              *)
(* contradiction backfills become tasks under a flag each that refuses a   *)
(* second one.  Every handler modelled has a deadline but the              *)
(* contradiction backfill, which runs until it is through.  A stamp after  *)
(* each command lets the health probe tell a worker that drains its        *)
(* channel from one that is wedged, and a ping keeps it fresh when nothing *)
(* else does.                                                              *)
(*                                                                         *)
(* Time passes in Ticks (30 s in production).  A Tick waits for everything *)
(* that is due, so what the thread and the timers do takes no time; what   *)
(* a handler awaits does.  All timers count down, so the timed state is    *)
(* finite.  A handler may wedge the thread in code no deadline preempts.   *)
(***************************************************************************)
EXTENDS Naturals, Sequences, FiniteSets

CONSTANTS Calls,        \* the requests
          Kind,         \* Kind[c]: "inline", "search" or the flag it runs under
          ChanCap,      \* CMD_CHANNEL_CAP
          Slots,        \* SEARCH_BACKLOG_MAX
          Concurrency,  \* SEARCH_CONCURRENCY
          Deadline,     \* CMD_DEADLINE
          Long,         \* LONG_CMD_DEADLINE
          Margin,       \* REPLY_MARGIN
          Ping,         \* PING_PERIOD
          Stall,        \* WORKER_STALL_THRESHOLD
          PingCmd       \* the ping, as it stands in the channel

\* The single-flight commands; BackfillKeywords is one more like GraphSweep.
Flagged == {"sweep", "stats", "backfill"}
Kinds == {"inline", "search"} \cup Flagged
Marks == {"boot", "idle", "stuck", "down"}

\* The threshold has to outlast a whole inline command and the time to the ping
\* before it: "must exceed CMD_DEADLINE", the source says, is not enough.
ASSUME WorkerAssumption ==
  /\ Kind \in [Calls -> Kinds]
  /\ PingCmd \notin Calls /\ Marks \cap Calls = {}
  /\ ChanCap \in Nat \ {0} /\ Slots \in Nat \ {0} /\ Concurrency \in Nat \ {0}
  /\ Deadline \in Nat /\ Long \in Nat /\ Margin \in Nat
  /\ Ping \in Nat \ {0} /\ Stall \in Nat
  /\ Stall >= Deadline + Ping

VARIABLES chan,      \* the command channel
          loop,      \* what the worker's loop awaits: a command, a handler
          phase,     \* where a command is
          left,      \* what is left of a handler's deadline
          slots, gate,        \* searches that hold a slot; those waiting for the gate
          flags,     \* the single-flight flags that are set
          age,       \* time since the last stamp of progress
          told, budget,       \* where a caller is; how long it still waits
          front,     \* the listener: "open", "closing" and "closed"
          pinging, pingIn,    \* whether the pinger runs; the time to its next ping
          waited     \* history: how long a command stood in queues, up to Margin

thread == <<chan, loop, phase, left, slots, gate, flags>>
callers == <<told, budget, waited>>
clocks == <<age, pinging, pingIn>>
vars == <<thread, callers, clocks, front>>

-----------------------------------------------------------------------------
(* Callers *)

\* (Slip: every handler has the long deadline.)
DeadlineAlwaysLong(c) == Long
DeadlineOf(c) == IF Kind[c] \in {"sweep", "backfill"} THEN Long ELSE Deadline

\* Whether the handler is under a timeout: run_backfill_contradictions is not.
Timed(c) == Kind[c] # "backfill"

\* call_rpc: how long a caller waits for its reply.
ReplyBound(c) == DeadlineOf(c) + Margin

\* A reply, or an error in its place; to a caller who is gone it goes nowhere.
Reply(c) ==
  IF told[c] = "waiting"
    THEN /\ told' = [told EXCEPT ![c] = "done"]
         /\ budget' = [budget EXCEPT ![c] = 0]
         /\ waited' = [waited EXCEPT ![c] = 0]
    ELSE UNCHANGED callers
Goto(c, p) == phase' = [phase EXCEPT ![c] = p]

\* try_send: whether the channel takes one more.
Room == Len(chan) < ChanCap

\* call_rpc, try_dispatch: onto the channel, or refused at once.
Dispatch(c) ==
  /\ front = "open" /\ loop # "down" /\ told[c] = "none"
  /\ IF Room
       THEN /\ chan' = Append(chan, c)
            /\ Goto(c, "queued")
            /\ told' = [told EXCEPT ![c] = "waiting"]
            /\ budget' = [budget EXCEPT ![c] = ReplyBound(c)]
       ELSE /\ told' = [told EXCEPT ![c] = "done"]
            /\ UNCHANGED <<chan, phase, budget>>
  /\ UNCHANGED <<waited, loop, left, slots, gate, flags, clocks, front>>

\* The reply bound has passed.  (Slip: it waits once more.)
GiveUpAgain(c) ==
  /\ told[c] = "waiting" /\ budget[c] = 0
  /\ budget' = [budget EXCEPT ![c] = ReplyBound(c)]
  /\ UNCHANGED <<thread, told, waited, clocks, front>>
GiveUp(c) ==
  /\ told[c] = "waiting" /\ budget[c] = 0
  /\ told' = [told EXCEPT ![c] = "gaveup"]
  /\ UNCHANGED <<thread, budget, waited, clocks, front>>

\* The client went away and its request was dropped.
HangUp(c) ==
  /\ told[c] = "waiting"
  /\ Reply(c)
  /\ UNCHANGED <<thread, clocks, front>>

-----------------------------------------------------------------------------
(* The loop *)

\* The first stamp: bootstrap is done.
Enter ==
  /\ loop = "boot"
  /\ loop' = "idle" /\ age' = 0
  /\ UNCHANGED <<chan, phase, left, slots, gate, flags, callers,
                 pinging, pingIn, front>>

\* Takes the next command, c; the stamp follows unless it is awaited.
Take(c) ==
  /\ loop = "idle" /\ chan # <<>> /\ Head(chan) = c
  /\ chan' = Tail(chan)
  /\ UNCHANGED <<pinging, pingIn, front>>

Stamp == age' = 0 /\ UNCHANGED loop

TakePing ==
  /\ Take(PingCmd) /\ Stamp
  /\ UNCHANGED <<phase, left, slots, gate, flags, callers>>

TakeInline(c) ==
  /\ Take(c) /\ Kind[c] = "inline"
  /\ loop' = c /\ Goto(c, "runs") /\ left' = [left EXCEPT ![c] = DeadlineOf(c)]
  /\ UNCHANGED <<slots, gate, flags, age, callers>>

TakeSearch(c) ==
  /\ Take(c) /\ Kind[c] = "search" /\ Stamp
  /\ IF Cardinality(slots) < Slots
       THEN /\ slots' = slots \cup {c} /\ gate' = Append(gate, c)
            /\ Goto(c, "gate") /\ UNCHANGED callers
       ELSE Goto(c, "over") /\ Reply(c) /\ UNCHANGED <<slots, gate>>
  /\ UNCHANGED <<left, flags>>

\* One of each flag at a time, whether or not its caller still waits.
TakeFlagged(c) ==
  /\ Take(c) /\ Kind[c] \in Flagged /\ Stamp
  /\ IF Kind[c] \in flags
       THEN Goto(c, "over") /\ Reply(c) /\ UNCHANGED <<left, flags>>
       ELSE /\ flags' = flags \cup {Kind[c]}
            /\ Goto(c, "runs")
            /\ left' = [left EXCEPT ![c] = IF Timed(c) THEN DeadlineOf(c) ELSE 0]
            /\ UNCHANGED callers
  /\ UNCHANGED <<slots, gate>>

-----------------------------------------------------------------------------
(* Handlers *)

\* The thread polls its tasks.
Turns == loop \notin {"boot", "stuck", "down"}
Searching == {c \in Calls : Kind[c] = "search" /\ phase[c] = "runs"}
GateOpen == Turns /\ gate # <<>> /\ Cardinality(Searching) < Concurrency

\* What a task holds is given back when it ends, however it does.
\* (Slip: the flag is not.)
DropSlot(c) ==
  /\ slots' = slots \ {c}
  /\ UNCHANGED flags
Drop(c) ==
  /\ slots' = slots \ {c}
  /\ flags' = flags \ {Kind[c]}

\* The next search has the gate; it does not run for a caller who left.
\* (Slip: it stands in the gate until a caller comes.)
PassGateHeld(c) ==
  /\ GateOpen /\ Head(gate) = c /\ told[c] = "waiting"
  /\ gate' = Tail(gate)
  /\ Goto(c, "runs") /\ left' = [left EXCEPT ![c] = DeadlineOf(c)]
  /\ UNCHANGED <<slots, flags, chan, loop, callers, clocks, front>>
PassGate(c) ==
  /\ GateOpen /\ Head(gate) = c
  /\ gate' = Tail(gate)
  /\ IF told[c] = "waiting"
       THEN /\ Goto(c, "runs") /\ left' = [left EXCEPT ![c] = DeadlineOf(c)]
            /\ UNCHANGED <<slots, flags>>
       ELSE Goto(c, "over") /\ Drop(c) /\ UNCHANGED left
  /\ UNCHANGED <<chan, loop, callers, clocks, front>>

\* An inline handler returned or ran into its deadline: the stamp follows.
EndInline(c) ==
  /\ loop = c
  /\ loop' = "idle" /\ age' = 0 /\ Goto(c, "over") /\ Reply(c)
  /\ left' = [left EXCEPT ![c] = 0]
  /\ UNCHANGED <<chan, slots, gate, flags, pinging, pingIn, front>>

\* A task returned, ran into its deadline if it has one, or panicked and
\* dropped its reply.
EndTask(c) ==
  /\ Turns /\ Kind[c] # "inline" /\ phase[c] = "runs"
  /\ Goto(c, "over") /\ Reply(c) /\ Drop(c)
  /\ left' = [left EXCEPT ![c] = 0]
  /\ UNCHANGED <<chan, loop, gate, clocks, front>>

\* A handler blocks the thread where no deadline reaches it.
Wedge ==
  /\ Turns /\ \E c \in Calls : phase[c] = "runs"
  /\ loop' = "stuck"
  /\ UNCHANGED <<chan, phase, left, slots, gate, flags, callers, clocks, front>>

\* An inline handler panics: the supervisor exits the process.
Die ==
  /\ loop \in Calls
  /\ loop' = "down"
  /\ told' = [c \in Calls |-> IF told[c] = "waiting" THEN "done" ELSE told[c]]
  /\ UNCHANGED <<chan, phase, left, slots, gate, flags, budget, waited, clocks, front>>

-----------------------------------------------------------------------------
(* Pinger, shutdown, time *)

\* (Slip: the pinger stamps progress itself.)
SendPingStamping ==
  /\ pinging /\ pingIn = 0 /\ loop # "down"
  /\ pingIn' = Ping /\ age' = 0
  /\ chan' = IF Room THEN Append(chan, PingCmd) ELSE chan
  /\ UNCHANGED <<loop, phase, left, slots, gate, flags, callers, pinging, front>>
SendPing ==
  /\ pinging /\ pingIn = 0 /\ loop # "down"
  /\ pingIn' = Ping
  /\ chan' = IF Room THEN Append(chan, PingCmd) ELSE chan
  /\ UNCHANGED <<loop, phase, left, slots, gate, flags, callers, age, pinging, front>>

\* SIGTERM: no new requests; the ones in flight are waited for.
Shut ==
  /\ front = "open" /\ loop # "down"
  /\ front' = "closing"
  /\ UNCHANGED <<thread, callers, clocks>>

\* The listener is done; the pinger is aborted, for it holds a sender.
\* (Slip: it is not.)
ClosePinging ==
  /\ front = "closing" /\ loop # "down" /\ \A c \in Calls : told[c] # "waiting"
  /\ front' = "closed"
  /\ UNCHANGED <<thread, callers, clocks>>
Close ==
  /\ front = "closing" /\ loop # "down" /\ \A c \in Calls : told[c] # "waiting"
  /\ front' = "closed" /\ pinging' = FALSE
  /\ UNCHANGED <<thread, callers, age, pingIn>>

\* All senders are gone and the channel is empty: the loop ends, and with it
\* the tasks that still run.
Drained == loop = "idle" /\ chan = <<>> /\ front = "closed" /\ ~pinging
Exit ==
  /\ Drained
  /\ loop' = "down"
  /\ UNCHANGED <<chan, phase, left, slots, gate, flags, callers, clocks, front>>

\* Something happens now, before time goes on.
Due ==
  \/ loop = "idle" /\ chan # <<>>
  \/ GateOpen
  \/ Turns /\ \E c \in Calls : phase[c] = "runs" /\ Timed(c) /\ left[c] = 0
  \/ \E c \in Calls : told[c] = "waiting" /\ budget[c] = 0
  \/ pinging /\ pingIn = 0
  \/ Drained

Least(m, n) == IF m <= n THEN m ELSE n

Tick ==
  /\ loop # "down" /\ ~Due
  /\ age' = IF loop = "boot" \/ age > Stall THEN age ELSE age + 1
  /\ pingIn' = IF pinging THEN pingIn - 1 ELSE pingIn
  /\ left' = [c \in Calls |-> IF Turns /\ phase[c] = "runs" /\ Timed(c)
                                THEN left[c] - 1 ELSE left[c]]
  /\ budget' = [c \in Calls |-> IF told[c] = "waiting" THEN budget[c] - 1 ELSE budget[c]]
  /\ waited' = [c \in Calls |-> IF told[c] = "waiting" /\ phase[c] \in {"queued", "gate"}
                                  THEN Least(waited[c] + 1, Margin) ELSE waited[c]]
  /\ UNCHANGED <<chan, loop, phase, slots, gate, flags, told, pinging, front>>

Init ==
  /\ chan = <<>> /\ loop = "boot" /\ slots = {} /\ gate = <<>> /\ flags = {}
  /\ phase = [c \in Calls |-> "none"] /\ left = [c \in Calls |-> 0]
  /\ told = [c \in Calls |-> "none"] /\ budget = [c \in Calls |-> 0]
  /\ waited = [c \in Calls |-> 0]
  /\ front = "open" /\ age = 0 /\ pinging = TRUE /\ pingIn = 0

Caller(c) == Dispatch(c) \/ GiveUp(c) \/ HangUp(c)
Loop(c) == TakeInline(c) \/ TakeSearch(c) \/ TakeFlagged(c) \/ PassGate(c)
Handler(c) == EndInline(c) \/ EndTask(c)
Process == Enter \/ TakePing \/ Wedge \/ Die \/ SendPing \/ Shut \/ Close \/ Exit \/ Tick

Next == Process \/ \E c \in Calls : Caller(c) \/ Loop(c) \/ Handler(c)

Spec == Init /\ [][Next]_vars

\* Time passes, timers fire and the thread does what it can; bootstrap is
\* bounded, but a handler need not return before its deadline, nor one that
\* has none ever.
FairSpec ==
  /\ Spec
  /\ WF_vars(Enter) /\ WF_vars(Tick) /\ WF_vars(TakePing) /\ WF_vars(SendPing)
  /\ WF_vars(Close) /\ WF_vars(Exit)
  /\ \A c \in Calls :
       /\ WF_vars(Loop(c)) /\ WF_vars(GiveUp(c))
       /\ WF_vars(Timed(c) /\ left[c] = 0 /\ Handler(c))

-----------------------------------------------------------------------------
(* What holds *)

TypeOK ==
  /\ chan \in Seq(Calls \cup {PingCmd}) /\ Len(chan) <= ChanCap
  /\ loop \in Calls \cup {"boot", "idle", "stuck", "down"}
  /\ phase \in [Calls -> {"none", "queued", "gate", "runs", "over"}]
  /\ left \in [Calls -> Nat] /\ budget \in [Calls -> Nat] /\ waited \in [Calls -> Nat]
  /\ slots \in SUBSET Calls /\ gate \in Seq(Calls) /\ flags \in SUBSET Flagged
  /\ told \in [Calls -> {"none", "waiting", "done", "gaveup"}]
  /\ front \in {"open", "closing", "closed"}
  /\ age \in 0..Stall + 1 /\ pinging \in BOOLEAN /\ pingIn \in 0..Ping

\* worker_state: what the liveness probe answers with 503.
Stalled == loop # "boot" /\ age > Stall

\* A worker that drains its channel is never reported stalled, however slow its
\* handlers, full its channel and late its pings.
NoFalseStall == Stalled => loop = "stuck"

\* Slots and flags are exactly what running tasks hold: nothing leaks when a
\* search is skipped, a handler times out or a task panics; and one of each
\* flag at most, also after the caller of the first gave up ("an operator
\* retry after the reply deadline cannot run a second pass").
HeldByRunning ==
  loop # "down" =>
    /\ slots = {c \in Calls : Kind[c] = "search" /\ phase[c] \in {"gate", "runs"}}
    /\ flags = {Kind[c] : c \in {d \in Calls : Kind[d] \in Flagged /\ phase[d] = "runs"}}
    /\ \A c, d \in Calls :
         Kind[c] \in Flagged /\ phase[c] = "runs" /\ Kind[d] = Kind[c] /\ phase[d] = "runs"
           => c = d

\* A caller hears from the worker, if only of a deadline, unless its command
\* stood in a queue for REPLY_MARGIN, or has no deadline, or the worker is
\* wedged.
GiveUpMeansQueue ==
  \A c \in Calls : told[c] = "gaveup" => waited[c] >= Margin \/ ~Timed(c) \/ loop = "stuck"

-----------------------------------------------------------------------------
(* Why: the invariant the proofs use *)

\* Time since the last stamp: to the next ping while idle, to the deadline and
\* a ping before it while a command is awaited.
Beat ==
  /\ loop = "idle" => age <= Ping /\ (pinging /\ chan = <<>> => age + pingIn <= Ping)
  /\ loop \in Calls => age + left[loop] <= Deadline + Ping
  /\ loop = "down" => age <= Stall
  /\ pinging \/ front = "closed"

\* The channel and the gate hold what their commands' phases say, each once.
Queues ==
  /\ \A i \in DOMAIN chan : chan[i] \in Calls => phase[chan[i]] = "queued"
  /\ \A i, j \in DOMAIN chan : chan[i] \in Calls /\ chan[i] = chan[j] => i = j
  /\ \A i \in DOMAIN gate : phase[gate[i]] = "gate"
  /\ \A i, j \in DOMAIN gate : gate[i] = gate[j] => i = j

Places ==
  /\ loop \in Calls => Kind[loop] = "inline" /\ phase[loop] = "runs"
  /\ \A c \in Calls :
       /\ phase[c] = "runs" => loop # "boot" /\ (Kind[c] = "inline" => loop \in {c, "stuck", "down"})
       /\ phase[c] = "gate" => Kind[c] = "search"
       /\ told[c] = "none" => phase[c] = "none"
       /\ told[c] = "waiting" =>
            phase[c] \in {"queued", "gate", "runs"} /\ loop # "down" /\ front # "closed"

\* What a caller still waits for outlasts what its handler still has, where it
\* has a deadline.
Patient(c) ==
  /\ told[c] = "none" => waited[c] = 0
  /\ told[c] = "waiting" /\ waited[c] < Margin =>
       /\ phase[c] \in {"queued", "gate"} => budget[c] + waited[c] = ReplyBound(c)
       /\ phase[c] = "runs" /\ Timed(c) /\ loop # "stuck" =>
            budget[c] + waited[c] = left[c] + Margin
Patience == \A c \in Calls : Patient(c)

WorkerInv ==
  TypeOK /\ Beat /\ Queues /\ Places /\ HeldByRunning /\ Patience /\ GiveUpMeansQueue

-----------------------------------------------------------------------------
(* Liveness *)

\* No caller waits forever, wedged worker or not.
CallersReturn == \A c \in Calls : (told[c] = "waiting") ~> (told[c] # "waiting")

\* A wedged worker is reported, and stays so.
WedgeReported == (loop = "stuck") ~> []Stalled

\* Every search that was admitted gives its slot back.
SlotsReturn == \A c \in Calls : (c \in slots) ~> (c \notin slots \/ loop \in {"stuck", "down"})

\* A process told to end does, unless its worker is wedged.
ShutdownEnds == (front = "closing") ~> (loop \in {"stuck", "down"})

=============================================================================
