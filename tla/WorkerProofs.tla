---------------------------- MODULE WorkerProofs ----------------------------
(***************************************************************************)
(* The safety of the service worker, for any commands and any timers that  *)
(* WorkerAssumption allows: WorkerInv is inductive, and TypeOK,            *)
(* NoFalseStall, HeldByRunning and GiveUpMeansQueue follow.                *)
(***************************************************************************)
EXTENDS Worker, TLAPS

Cmds == Calls \cup {PingCmd}

\* What Tail and Append do to a queue, element by element.
LEMMA TailFacts ==
  ASSUME NEW S, NEW s \in Seq(S), s # <<>>
  PROVE  /\ Tail(s) \in Seq(S) /\ Len(Tail(s)) = Len(s) - 1
         /\ 1 \in DOMAIN s /\ Head(s) = s[1] /\ Head(s) \in S
         /\ \A i \in DOMAIN Tail(s) : i + 1 \in DOMAIN s /\ Tail(s)[i] = s[i + 1]
  OBVIOUS

LEMMA AppendFacts ==
  ASSUME NEW S, NEW s \in Seq(S), NEW e \in S
  PROVE  /\ Append(s, e) \in Seq(S) /\ Len(Append(s, e)) = Len(s) + 1
         /\ Append(s, e) # <<>>
         /\ \A i \in DOMAIN Append(s, e) : i \in DOMAIN s \/ i = Len(s) + 1
         /\ \A i \in DOMAIN s : Append(s, e)[i] = s[i]
         /\ Append(s, e)[Len(s) + 1] = e
  OBVIOUS

-----------------------------------------------------------------------------
(* TypeOK in two halves: the queues, and the rest. *)

QueueTypes ==
  chan \in Seq(Calls \cup {PingCmd}) /\ Len(chan) <= ChanCap /\ gate \in Seq(Calls)

DataTypes ==
  /\ loop \in Calls \cup {"boot", "idle", "stuck", "down"}
  /\ phase \in [Calls -> {"none", "queued", "gate", "runs", "over"}]
  /\ left \in [Calls -> Nat] /\ budget \in [Calls -> Nat] /\ waited \in [Calls -> Nat]
  /\ slots \in SUBSET Calls /\ flags \in SUBSET Flagged
  /\ told \in [Calls -> {"none", "waiting", "done", "gaveup"}]
  /\ front \in {"open", "closing", "closed"}
  /\ age \in 0..Stall + 1 /\ pinging \in BOOLEAN /\ pingIn \in 0..Ping

LEMMA TypeHalves == TypeOK <=> QueueTypes /\ DataTypes
  BY DEF TypeOK, QueueTypes, DataTypes

LEMMA Numbers ==
  /\ Stall \in Nat /\ Ping \in Nat /\ Margin \in Nat /\ Deadline \in Nat /\ Long \in Nat
  /\ Stall >= Deadline + Ping
  /\ \A c \in Calls : DeadlineOf(c) \in Nat /\ ReplyBound(c) = DeadlineOf(c) + Margin
  BY WorkerAssumption DEF WorkerAssumption, DeadlineOf, ReplyBound

LEMMA QueueTypeStep == QueueTypes /\ [Next]_vars => QueueTypes'
  <1> SUFFICES ASSUME QueueTypes, [Next]_vars PROVE QueueTypes'
    OBVIOUS
  <1>0. ChanCap \in Nat
    BY WorkerAssumption DEF WorkerAssumption
  <1>1. CASE UNCHANGED <<chan, gate>>
    BY <1>1 DEF QueueTypes
  <1>2. CASE UNCHANGED gate /\ chan # <<>> /\ chan' = Tail(chan)
    BY <1>0, <1>2, TailFacts DEF QueueTypes
  <1>3. ASSUME NEW c \in Calls \cup {PingCmd}, Room,
               UNCHANGED gate, chan' = Append(chan, c)
        PROVE  QueueTypes'
    BY <1>0, <1>3, AppendFacts DEF QueueTypes, Room
  <1>4. ASSUME NEW c \in Calls, PassGate(c) PROVE QueueTypes'
    BY <1>4, TailFacts DEF PassGate, GateOpen, QueueTypes
  <1>5. ASSUME NEW c \in Calls, TakeSearch(c) PROVE QueueTypes'
    <2>1. Append(gate, c) \in Seq(Calls)
      BY AppendFacts DEF QueueTypes
    <2>2. chan' = Tail(chan) /\ chan # <<>> /\ (gate' = gate \/ gate' = Append(gate, c))
      BY <1>5 DEF TakeSearch, Take
    <2>3. chan' \in Seq(Calls \cup {PingCmd}) /\ Len(chan') <= ChanCap
      BY <1>0, <2>2, TailFacts DEF QueueTypes
    <2>4. QED
      BY <2>1, <2>2, <2>3 DEF QueueTypes
  <1>6. CASE SendPing
    BY <1>1, <1>3, <1>6 DEF SendPing
  <1>7. ASSUME NEW c \in Calls, Dispatch(c) PROVE QueueTypes'
    BY <1>1, <1>3, <1>7 DEF Dispatch
  <1>8. CASE TakePing \/ \E c \in Calls : TakeInline(c) \/ TakeFlagged(c)
    BY <1>2, <1>8 DEF TakePing, TakeInline, TakeFlagged, Take
  <1>9. CASE Enter \/ Wedge \/ Die \/ Shut \/ Close \/ Exit \/ Tick \/ UNCHANGED vars
    BY <1>1, <1>9 DEF Enter, Wedge, Die, Shut, Close, Exit, Tick, vars, thread
  <1>10. ASSUME NEW c \in Calls, GiveUp(c) \/ HangUp(c) \/ EndInline(c) \/ EndTask(c)
         PROVE  QueueTypes'
    BY <1>1, <1>10 DEF GiveUp, HangUp, EndInline, EndTask, thread
  <1>11. QED
    BY <1>4, <1>5, <1>6, <1>7, <1>8, <1>9, <1>10 DEF Next, Process, Caller, Loop, Handler

LEMMA DataTypeStep == DataTypes /\ [Next]_vars => DataTypes'
  <1> SUFFICES ASSUME DataTypes, [Next]_vars PROVE DataTypes'
    OBVIOUS
  <1>1. CASE Tick
    <2>1. \A c \in Calls : Turns /\ phase[c] = "runs" /\ Timed(c) => left[c] # 0
      BY <1>1 DEF Tick, Due
    <2>2. \A c \in Calls : told[c] = "waiting" => budget[c] # 0
      BY <1>1 DEF Tick, Due
    <2>3. pinging => pingIn # 0
      BY <1>1 DEF Tick, Due
    <2>4. left' \in [Calls -> Nat] /\ budget' \in [Calls -> Nat]
      BY <1>1, <2>1, <2>2 DEF Tick, DataTypes
    <2>5. waited' \in [Calls -> Nat]
      BY <1>1, Numbers DEF Tick, Least, DataTypes
    <2>6. age' \in 0..Stall + 1 /\ pingIn' \in 0..Ping
      BY <1>1, <2>3, Numbers DEF Tick, DataTypes
    <2>7. QED
      BY <1>1, <2>4, <2>5, <2>6 DEF Tick, DataTypes
  <1>2. CASE Enter \/ TakePing
    BY <1>2, Numbers DEF Enter, TakePing, Take, Stamp, DataTypes, callers
  <1>13. CASE Shut \/ Close \/ Exit \/ UNCHANGED vars
    BY <1>13 DEF Shut, Close, Exit, DataTypes, vars, thread, callers, clocks
  <1>3. CASE Wedge \/ Die
    BY <1>3 DEF Wedge, Die, DataTypes, callers, clocks
  <1>4. CASE SendPing
    BY <1>4, Numbers DEF SendPing, DataTypes, callers
  <1>5. ASSUME NEW c \in Calls, Dispatch(c) PROVE DataTypes'
    <2>1. ReplyBound(c) \in Nat
      BY Numbers
    <2>2. UNCHANGED <<loop, left, waited, slots, flags, clocks, front>>
      BY <1>5 DEF Dispatch
    <2>3. phase' \in [Calls -> {"none", "queued", "gate", "runs", "over"}]
          /\ told' \in [Calls -> {"none", "waiting", "done", "gaveup"}]
      BY <1>5 DEF Dispatch, Goto, DataTypes
    <2>4. budget' \in [Calls -> Nat]
      BY <1>5, <2>1 DEF Dispatch, DataTypes
    <2>5. QED
      BY <2>2, <2>3, <2>4 DEF DataTypes, clocks
  <1>6. ASSUME NEW c \in Calls, GiveUp(c) \/ HangUp(c) PROVE DataTypes'
    BY <1>6 DEF GiveUp, HangUp, Reply, DataTypes, thread, callers, clocks
  <1>7. ASSUME NEW c \in Calls, TakeInline(c) PROVE DataTypes'
    BY <1>7, Numbers DEF TakeInline, Take, Goto, DataTypes, callers
  <1>8. ASSUME NEW c \in Calls, TakeSearch(c) \/ TakeFlagged(c) PROVE DataTypes'
    <2>1. DeadlineOf(c) \in Nat
      BY Numbers
    <2>2. UNCHANGED <<loop, pinging, pingIn, front>> /\ age' = 0
      BY <1>8 DEF TakeSearch, TakeFlagged, Take, Stamp
    <2>3. UNCHANGED callers \/ Reply(c)
      BY <1>8 DEF TakeSearch, TakeFlagged
    <2>4. /\ told' \in [Calls -> {"none", "waiting", "done", "gaveup"}]
          /\ budget' \in [Calls -> Nat] /\ waited' \in [Calls -> Nat]
      BY <2>3 DEF Reply, DataTypes, callers
    <2>5. phase' \in [Calls -> {"none", "queued", "gate", "runs", "over"}]
      BY <1>8 DEF TakeSearch, TakeFlagged, Goto, DataTypes
    <2>6. left' \in [Calls -> Nat]
      <3>1. left' = left \/ \E n \in Nat : left' = [left EXCEPT ![c] = n]
        BY <1>8, <2>1 DEF TakeSearch, TakeFlagged
      <3>2. QED
        BY <3>1 DEF DataTypes
    <2>8. slots' \in SUBSET Calls /\ flags' \in SUBSET Flagged
      BY <1>8 DEF TakeSearch, TakeFlagged, DataTypes
    <2>7. QED
      BY <2>2, <2>4, <2>5, <2>6, <2>8, Numbers DEF DataTypes
  <1>9. ASSUME NEW c \in Calls, PassGate(c) PROVE DataTypes'
    BY <1>9, Numbers DEF PassGate, Goto, Drop, DataTypes, callers, clocks
  <1>10. ASSUME NEW c \in Calls, EndInline(c) PROVE DataTypes'
    BY <1>10, Numbers DEF EndInline, Goto, Reply, DataTypes, callers
  <1>11. ASSUME NEW c \in Calls, EndTask(c) PROVE DataTypes'
    BY <1>11 DEF EndTask, Goto, Reply, Drop, DataTypes, callers, clocks
  <1>12. QED
    BY <1>1, <1>2, <1>3, <1>4, <1>5, <1>6, <1>7, <1>8, <1>9, <1>10, <1>11, <1>13
    DEF Next, Process, Caller, Loop, Handler

LEMMA TypeStep == TypeOK /\ [Next]_vars => TypeOK'
  <1>1. TypeOK' <=> QueueTypes' /\ DataTypes'
    BY DEF TypeOK, QueueTypes, DataTypes
  <1>2. QED
    BY <1>1, TypeHalves, QueueTypeStep, DataTypeStep

-----------------------------------------------------------------------------
(* What an action does to a command, in the terms the invariant is in. *)

LEMMA Names ==
  /\ PingCmd \notin Calls /\ "boot" \notin Calls /\ "idle" \notin Calls
  /\ "stuck" \notin Calls /\ "down" \notin Calls
  BY WorkerAssumption DEF WorkerAssumption, Marks

\* The command at the head of the channel, and the search at the gate's.
LEMMA HeadOfChan ==
  ASSUME TypeOK, Queues, NEW c \in Calls, Take(c)
  PROVE  phase[c] = "queued" /\ loop = "idle"
  <1>1. chan \in Seq(Calls \cup {PingCmd}) /\ chan # <<>> /\ Head(chan) = c
    BY DEF TypeOK, Take
  <1>2. 1 \in DOMAIN chan /\ chan[1] = c
    BY <1>1, TailFacts
  <1>3. QED
    BY <1>2 DEF Queues, Take

LEMMA HeadOfGate ==
  ASSUME TypeOK, Queues, Places, NEW c \in Calls, PassGate(c)
  PROVE  phase[c] = "gate" /\ Kind[c] = "search" /\ loop \notin {"boot", "stuck", "down"}
  <1>1. gate \in Seq(Calls) /\ gate # <<>> /\ Head(gate) = c
    BY DEF TypeOK, PassGate, GateOpen
  <1>2. 1 \in DOMAIN gate /\ gate[1] = c
    BY <1>1, TailFacts
  <1>3. QED
    BY <1>2 DEF Queues, Places, PassGate, GateOpen, Turns

-----------------------------------------------------------------------------
(* The beat *)

LEMMA BeatStep == TypeOK /\ Beat /\ Queues /\ Places /\ [Next]_vars => Beat'
  <1> SUFFICES ASSUME TypeOK, Beat, Queues, Places, [Next]_vars PROVE Beat'
    OBVIOUS
  <1>0. /\ age \in Nat /\ pingIn \in Nat /\ pingIn <= Ping /\ left \in [Calls -> Nat]
        /\ pinging \in BOOLEAN
    BY Numbers DEF TypeOK
  <1>1. CASE UNCHANGED <<loop, left, age, pinging, pingIn, front, chan>>
    BY <1>1 DEF Beat
  <1>2. CASE Enter \/ TakePing \/ \E c \in Calls : TakeSearch(c) \/ TakeFlagged(c)
    <2>1. loop' = "idle" /\ age' = 0 /\ UNCHANGED <<pinging, pingIn, front>>
      BY <1>2 DEF Enter, TakePing, TakeSearch, TakeFlagged, Take, Stamp
    <2>2. QED
      BY <1>0, <2>1, Names, Numbers DEF Beat
  <1>3. ASSUME NEW c \in Calls, TakeInline(c) PROVE Beat'
    <2>1. /\ loop' = c /\ left' = [left EXCEPT ![c] = Deadline] /\ age' = age
          /\ loop = "idle" /\ UNCHANGED <<pinging, front>>
      BY <1>3 DEF TakeInline, Take, DeadlineOf
    <2>2. left'[c] = Deadline /\ age <= Ping
      BY <1>0, <2>1 DEF Beat
    <2>3. age' + left'[c] <= Deadline + Ping
      BY <1>0, <2>1, <2>2, Numbers
    <2>4. QED
      BY <2>1, <2>3, Names DEF Beat
  <1>4. ASSUME NEW c \in Calls, PassGate(c) PROVE Beat'
    <2>1. loop \in Calls => loop # c
      BY <1>4, HeadOfGate DEF Places
    <2>2. UNCHANGED <<loop, age, pinging, pingIn, front, chan>>
          /\ (left' = left \/ left' = [left EXCEPT ![c] = DeadlineOf(c)])
      BY <1>4 DEF PassGate, clocks
    <2>3. loop \in Calls => left'[loop] = left[loop]
      BY <1>0, <2>1, <2>2
    <2>4. QED
      BY <2>2, <2>3 DEF Beat
  <1>5. ASSUME NEW c \in Calls, EndInline(c) PROVE Beat'
    <2>1. loop' = "idle" /\ age' = 0 /\ UNCHANGED <<pinging, pingIn, front>>
      BY <1>5 DEF EndInline
    <2>2. QED
      BY <1>0, <2>1, Names, Numbers DEF Beat
  <1>6. ASSUME NEW c \in Calls, EndTask(c) PROVE Beat'
    <2>1. UNCHANGED <<loop, age, pinging, pingIn, front, chan>>
          /\ left' = [left EXCEPT ![c] = 0]
      BY <1>6 DEF EndTask, clocks
    <2>2. loop \in Calls => left'[loop] <= left[loop] /\ left'[loop] \in Nat
      BY <1>0, <2>1
    <2>3. loop \in Calls => age + left'[loop] <= Deadline + Ping
      BY <1>0, <2>2, Numbers DEF Beat
    <2>4. QED
      BY <2>1, <2>3 DEF Beat
  <1>7. CASE Wedge \/ Die \/ Exit
    <2>1. loop' = "stuck" \/ (loop' = "down" /\ (loop \in Calls \/ loop = "idle"))
      BY <1>7 DEF Wedge, Die, Exit, Drained
    <2>2. UNCHANGED <<age, pinging, front>>
      BY <1>7 DEF Wedge, Die, Exit, clocks
    <2>3. loop \in Calls => age <= Stall
      BY <1>0, Numbers DEF Beat
    <2>4. loop = "idle" => age <= Stall
      BY <1>0, Numbers DEF Beat
    <2>5. QED
      BY <2>1, <2>2, <2>3, <2>4, Names DEF Beat
  <1>8. CASE SendPing \/ \E c \in Calls : Dispatch(c)
    <2>1. UNCHANGED <<loop, left, age, pinging, front>>
      BY <1>8 DEF SendPing, Dispatch, clocks
    <2>2. chan \in Seq(Cmds) /\ ChanCap \in Nat \ {0} /\ PingCmd \in Cmds /\ Calls \subseteq Cmds
      BY WorkerAssumption DEF TypeOK, Cmds, WorkerAssumption
    <2>3. chan' = <<>> => UNCHANGED <<chan, pingIn>>
      <3>1. CASE SendPing
        <4>1. Room => chan' # <<>>
          BY <2>2, <3>1, AppendFacts DEF SendPing
        <4>2. ~Room => chan' = chan /\ chan # <<>>
          BY <2>2, <3>1 DEF SendPing, Room
        <4>3. QED
          BY <4>1, <4>2
      <3>2. ASSUME NEW c \in Calls, Dispatch(c) PROVE chan' = <<>> => UNCHANGED <<chan, pingIn>>
        BY <2>2, <3>2, AppendFacts DEF Dispatch, clocks
      <3>3. QED
        BY <1>8, <3>1, <3>2
    <2>4. QED
      BY <2>1, <2>3 DEF Beat
  <1>9. CASE Close
    BY <1>9 DEF Close, Beat, thread, callers
  <1>10. CASE Tick
    <2>1. UNCHANGED <<chan, loop, pinging, front>>
      BY <1>10 DEF Tick
    <2>2. loop = "idle" => chan = <<>> /\ pinging /\ pingIn # 0
      BY <1>10 DEF Tick, Due, Drained, Beat
    <2>3. loop = "idle" => age' = age + 1 /\ pingIn' = pingIn - 1 /\ age + pingIn <= Ping
      BY <1>0, <1>10, <2>2, Numbers DEF Tick, Beat
    <2>4. loop = "idle" => age' <= Ping /\ age' + pingIn' <= Ping
      BY <1>0, <2>2, <2>3, Numbers
    <2>5. loop \in Calls => left'[loop] = left[loop] - 1 /\ left[loop] # 0
      BY <1>0, <1>10, Names DEF Tick, Due, Turns, Places, Timed
    <2>6. age' = age \/ age' = age + 1
      BY <1>10 DEF Tick
    <2>7. ASSUME loop \in Calls PROVE age' + left'[loop] <= Deadline + Ping
      <3>1. left[loop] \in Nat /\ age + left[loop] <= Deadline + Ping
        BY <1>0, <2>7 DEF Beat
      <3>2. QED
        BY <1>0, <2>5, <2>6, <2>7, <3>1, Numbers
    <2>8. loop # "down"
      BY <1>10 DEF Tick
    <2>9. QED
      BY <2>1, <2>4, <2>7, <2>8 DEF Beat
  <1>11. CASE UNCHANGED vars \/ \E c \in Calls : GiveUp(c) \/ HangUp(c)
    BY <1>1, <1>11 DEF GiveUp, HangUp, vars, thread, clocks
  <1>12. CASE Shut
    BY <1>12 DEF Shut, thread, clocks, Beat
  <1>13. QED
    BY <1>2, <1>3, <1>4, <1>5, <1>6, <1>7, <1>8, <1>9, <1>10, <1>11, <1>12
    DEF Next, Process, Caller, Loop, Handler

-----------------------------------------------------------------------------
(* The queues *)

ChanOK ==
  /\ \A i \in DOMAIN chan : chan[i] \in Calls => phase[chan[i]] = "queued"
  /\ \A i, j \in DOMAIN chan : chan[i] \in Calls /\ chan[i] = chan[j] => i = j

GateOK ==
  /\ \A i \in DOMAIN gate : phase[gate[i]] = "gate"
  /\ \A i, j \in DOMAIN gate : gate[i] = gate[j] => i = j

\* A queue that stays holds what it held, if no command in it moves on.
LEMMA ChanStays ==
  ASSUME ChanOK, UNCHANGED chan,
         \A c \in Calls : phase[c] = "queued" => phase'[c] = "queued"
  PROVE  ChanOK'
  BY DEF ChanOK

LEMMA GateStays ==
  ASSUME TypeOK, GateOK, UNCHANGED gate,
         \A c \in Calls : phase[c] = "gate" => phase'[c] = "gate"
  PROVE  GateOK'
  BY DEF GateOK, TypeOK

\* What leaves from the head leaves for good.
LEMMA ChanTail ==
  ASSUME TypeOK, ChanOK, chan # <<>>, chan' = Tail(chan),
         \A c \in Calls : c # Head(chan) /\ phase[c] = "queued" => phase'[c] = "queued"
  PROVE  ChanOK'
  <1>1. /\ 1 \in DOMAIN chan /\ Head(chan) = chan[1]
        /\ \A i \in DOMAIN chan' : i + 1 \in DOMAIN chan /\ chan'[i] = chan[i + 1]
    BY TailFacts DEF TypeOK
  <1>2. \A i \in DOMAIN chan' : i \in Nat \ {0}
    BY TailFacts DEF TypeOK
  <1>3. \A i \in DOMAIN chan' : chan'[i] \in Calls => chan'[i] # Head(chan)
    BY <1>1, <1>2 DEF ChanOK
  <1>4. \A i, j \in DOMAIN chan' : chan'[i] \in Calls /\ chan'[i] = chan'[j] => i = j
    <2>1. SUFFICES ASSUME NEW i \in DOMAIN chan', NEW j \in DOMAIN chan',
                          chan'[i] \in Calls, chan'[i] = chan'[j]
                   PROVE  i = j
      OBVIOUS
    <2>2. i + 1 = j + 1
      BY <1>1, <2>1 DEF ChanOK
    <2>3. QED
      BY <1>2, <2>2
  <1>5. QED
    BY <1>1, <1>3, <1>4 DEF ChanOK

LEMMA GateTail ==
  ASSUME TypeOK, GateOK, gate # <<>>, gate' = Tail(gate),
         \A c \in Calls : c # Head(gate) /\ phase[c] = "gate" => phase'[c] = "gate"
  PROVE  GateOK'
  <1>1. /\ 1 \in DOMAIN gate /\ Head(gate) = gate[1]
        /\ \A i \in DOMAIN gate' : i + 1 \in DOMAIN gate /\ gate'[i] = gate[i + 1]
    BY TailFacts DEF TypeOK
  <1>0. gate' \in Seq(Calls)
    BY TailFacts DEF TypeOK
  <1>2. \A i \in DOMAIN gate' : i \in Nat \ {0} /\ gate'[i] \in Calls
    BY <1>0
  <1>3. \A i \in DOMAIN gate' : gate'[i] # Head(gate)
    BY <1>1, <1>2 DEF GateOK
  <1>4. \A i, j \in DOMAIN gate' : gate'[i] = gate'[j] => i = j
    <2>1. SUFFICES ASSUME NEW i \in DOMAIN gate', NEW j \in DOMAIN gate', gate'[i] = gate'[j]
                   PROVE  i = j
      OBVIOUS
    <2>2. i + 1 = j + 1
      BY <1>1, <2>1 DEF GateOK
    <2>3. QED
      BY <1>2, <2>2
  <1>5. QED
    BY <1>1, <1>2, <1>3, <1>4 DEF GateOK

\* What joins at the tail was not in the queue.
LEMMA ChanAppend ==
  ASSUME TypeOK, ChanOK, NEW e \in Cmds, chan' = Append(chan, e),
         e \in Calls => phase[e] # "queued" /\ phase'[e] = "queued",
         \A c \in Calls : phase[c] = "queued" => phase'[c] = "queued"
  PROVE  ChanOK'
  <1>1. chan \in Seq(Cmds)
    BY DEF TypeOK, Cmds
  <1>2. /\ \A i \in DOMAIN chan' : i \in DOMAIN chan \/ i = Len(chan) + 1
        /\ \A i \in DOMAIN chan : chan'[i] = chan[i]
        /\ chan'[Len(chan) + 1] = e
    BY <1>1, AppendFacts
  <1>3. \A i \in DOMAIN chan' : chan'[i] \in Calls => phase'[chan'[i]] = "queued"
    <2>1. SUFFICES ASSUME NEW i \in DOMAIN chan', chan'[i] \in Calls
                   PROVE  phase'[chan'[i]] = "queued"
      OBVIOUS
    <2>2. CASE i \in DOMAIN chan
      BY <1>2, <2>1, <2>2 DEF ChanOK
    <2>3. QED
      BY <1>2, <2>1, <2>2
  <1>4. \A i \in DOMAIN chan : chan[i] \in Calls => chan[i] # e
    BY DEF ChanOK
  <1>5. \A i, j \in DOMAIN chan' : chan'[i] \in Calls /\ chan'[i] = chan'[j] => i = j
    <2>1. SUFFICES ASSUME NEW i \in DOMAIN chan', NEW j \in DOMAIN chan',
                          chan'[i] \in Calls, chan'[i] = chan'[j]
                   PROVE  i = j
      OBVIOUS
    <2>2. CASE i \in DOMAIN chan /\ j \in DOMAIN chan
      BY <1>2, <2>1, <2>2 DEF ChanOK
    <2>3. i = Len(chan) + 1 \/ j = Len(chan) + 1 => i = j
      BY <1>2, <1>4, <2>1
    <2>4. QED
      BY <1>2, <2>2, <2>3
  <1>6. QED
    BY <1>3, <1>5 DEF ChanOK

LEMMA GateAppend ==
  ASSUME TypeOK, GateOK, NEW e \in Calls, gate' = Append(gate, e),
         phase[e] # "gate" /\ phase'[e] = "gate",
         \A c \in Calls : phase[c] = "gate" => phase'[c] = "gate"
  PROVE  GateOK'
  <1>1. gate \in Seq(Calls)
    BY DEF TypeOK
  <1>2. /\ \A i \in DOMAIN gate' : i \in DOMAIN gate \/ i = Len(gate) + 1
        /\ \A i \in DOMAIN gate : gate'[i] = gate[i] /\ gate[i] \in Calls
        /\ gate'[Len(gate) + 1] = e
    BY <1>1, AppendFacts
  <1>3. \A i \in DOMAIN gate' : phase'[gate'[i]] = "gate"
    BY <1>2 DEF GateOK
  <1>4. \A i \in DOMAIN gate : gate[i] # e
    BY DEF GateOK
  <1>5. \A i, j \in DOMAIN gate' : gate'[i] = gate'[j] => i = j
    BY <1>2, <1>4 DEF GateOK
  <1>6. QED
    BY <1>3, <1>5 DEF GateOK

LEMMA QueuesStep == TypeOK /\ Queues /\ Places /\ [Next]_vars => Queues'
  <1> SUFFICES ASSUME TypeOK, Queues, Places, [Next]_vars PROVE ChanOK' /\ GateOK'
    BY DEF Queues, ChanOK, GateOK
  <1>0. ChanOK /\ GateOK /\ phase \in [Calls -> {"none", "queued", "gate", "runs", "over"}]
    BY DEF Queues, ChanOK, GateOK, TypeOK
  <1>1. CASE UNCHANGED <<chan, gate, phase>>
    BY <1>0, <1>1, ChanStays, GateStays
  <1>2. CASE TakePing
    <2>1. chan # <<>> /\ chan' = Tail(chan) /\ UNCHANGED <<phase, gate>>
      BY <1>2 DEF TakePing, Take
    <2>2. QED
      BY <1>0, <2>1, ChanTail, GateStays
  <1>3. ASSUME NEW c \in Calls, TakeInline(c) \/ TakeFlagged(c) PROVE ChanOK' /\ GateOK'
    <2>1. Take(c) /\ chan # <<>> /\ Head(chan) = c /\ chan' = Tail(chan) /\ gate' = gate
          /\ (Goto(c, "runs") \/ Goto(c, "over"))
      BY <1>3 DEF TakeInline, TakeFlagged, Take
    <2>2. \A d \in Calls : d # c => phase'[d] = phase[d]
      BY <1>0, <2>1 DEF Goto
    <2>3. phase[c] = "queued"
      BY <2>1, HeadOfChan
    <2>4. QED
      BY <1>0, <2>1, <2>2, <2>3, ChanTail, GateStays
  <1>4. ASSUME NEW c \in Calls, TakeSearch(c) PROVE ChanOK' /\ GateOK'
    <2>1. Take(c) /\ chan # <<>> /\ Head(chan) = c /\ chan' = Tail(chan)
      BY <1>4 DEF TakeSearch, Take
    <2>2. phase[c] = "queued"
      BY <2>1, HeadOfChan
    <2>3. \/ Goto(c, "gate") /\ gate' = Append(gate, c)
          \/ Goto(c, "over") /\ gate' = gate
      BY <1>4 DEF TakeSearch
    <2>4. \A d \in Calls : d # c => phase'[d] = phase[d]
      BY <1>0, <2>3 DEF Goto
    <2>5. ChanOK'
      BY <1>0, <2>1, <2>4, ChanTail
    <2>6. CASE Goto(c, "gate") /\ gate' = Append(gate, c)
      <3>1. phase'[c] = "gate"
        BY <1>0, <2>6 DEF Goto
      <3>2. \A d \in Calls : phase[d] = "gate" => phase'[d] = "gate"
        BY <2>4, <3>1
      <3>3. GateOK'
        BY <1>0, <2>2, <2>6, <3>1, <3>2, GateAppend
      <3>4. QED
        BY <2>5, <3>3
    <2>7. CASE gate' = gate
      BY <1>0, <2>2, <2>4, <2>5, <2>7, GateStays
    <2>8. QED
      BY <2>3, <2>6, <2>7
  <1>5. ASSUME NEW c \in Calls, PassGate(c) PROVE ChanOK' /\ GateOK'
    <2>1. gate # <<>> /\ Head(gate) = c /\ gate' = Tail(gate) /\ chan' = chan
          /\ (Goto(c, "runs") \/ Goto(c, "over"))
      BY <1>5 DEF PassGate, GateOpen
    <2>2. phase[c] = "gate"
      BY <1>5, HeadOfGate
    <2>3. \A d \in Calls : d # c => phase'[d] = phase[d]
      BY <1>0, <2>1 DEF Goto
    <2>4. QED
      BY <1>0, <2>1, <2>2, <2>3, ChanStays, GateTail
  <1>6. ASSUME NEW c \in Calls, EndInline(c) \/ EndTask(c) PROVE ChanOK' /\ GateOK'
    <2>1. phase[c] = "runs"
      BY <1>6 DEF EndInline, EndTask, Places
    <2>2. UNCHANGED <<chan, gate>> /\ Goto(c, "over")
      BY <1>6 DEF EndInline, EndTask
    <2>3. \A d \in Calls : d # c => phase'[d] = phase[d]
      BY <1>0, <2>2 DEF Goto
    <2>4. QED
      BY <1>0, <2>1, <2>2, <2>3, ChanStays, GateStays
  <1>7. CASE SendPing
    <2>1. UNCHANGED <<phase, gate>> /\ (chan' = chan \/ chan' = Append(chan, PingCmd))
      BY <1>7 DEF SendPing
    <2>2. PingCmd \in Cmds
      BY DEF Cmds
    <2>3. QED
      BY <1>0, <2>1, <2>2, Names, ChanStays, ChanAppend, GateStays
  <1>8. ASSUME NEW c \in Calls, Dispatch(c) PROVE ChanOK' /\ GateOK'
    <2>1. phase[c] = "none" /\ gate' = gate /\ c \in Cmds
      BY <1>8 DEF Dispatch, Places, Cmds
    <2>2. CASE UNCHANGED <<chan, phase>>
      BY <1>1, <2>1, <2>2
    <2>3. CASE chan' = Append(chan, c) /\ Goto(c, "queued")
      <3>1. \A d \in Calls : d # c => phase'[d] = phase[d]
        BY <1>0, <2>3 DEF Goto
      <3>2. phase'[c] = "queued"
        BY <1>0, <2>3 DEF Goto
      <3>3. \A d \in Calls : phase[d] = "queued" => phase'[d] = "queued"
        BY <3>1, <3>2
      <3>4. ChanOK'
        BY <1>0, <2>1, <2>3, <3>2, <3>3, ChanAppend
      <3>5. QED
        BY <1>0, <2>1, <3>1, <3>4, GateStays
    <2>4. QED
      BY <1>8, <2>2, <2>3 DEF Dispatch
  <1>9. CASE Enter \/ Wedge \/ Die \/ Shut \/ Close \/ Exit \/ Tick \/ UNCHANGED vars
    BY <1>1, <1>9 DEF Enter, Wedge, Die, Shut, Close, Exit, Tick, vars, thread
  <1>10. ASSUME NEW c \in Calls, GiveUp(c) \/ HangUp(c) PROVE ChanOK' /\ GateOK'
    BY <1>1, <1>10 DEF GiveUp, HangUp, thread
  <1>11. QED
    BY <1>2, <1>3, <1>4, <1>5, <1>6, <1>7, <1>8, <1>9, <1>10
    DEF Next, Process, Caller, Loop, Handler

-----------------------------------------------------------------------------
(* Where commands and callers are *)

LEMMA GotoFacts ==
  ASSUME TypeOK, NEW c \in Calls, NEW p, Goto(c, p)
  PROVE  phase'[c] = p /\ \A d \in Calls : d # c => phase'[d] = phase[d]
  BY DEF TypeOK, Goto

LEMMA ReplyFacts ==
  ASSUME TypeOK, NEW c \in Calls, Reply(c)
  PROVE  /\ \A d \in Calls : d # c =>
              told'[d] = told[d] /\ budget'[d] = budget[d] /\ waited'[d] = waited[d]
         /\ told'[c] # "waiting" /\ (told'[c] = "none" <=> told[c] = "none")
         /\ told'[c] = "gaveup" => told[c] = "gaveup" /\ waited'[c] = waited[c]
  BY DEF TypeOK, Reply, callers

LEMMA PlacesStep == TypeOK /\ Queues /\ Places /\ [Next]_vars => Places'
  <1> SUFFICES ASSUME TypeOK, Queues, Places, [Next]_vars PROVE Places'
    OBVIOUS
  <1>0. told \in [Calls -> {"none", "waiting", "done", "gaveup"}]
    BY DEF TypeOK
  <1>1. CASE UNCHANGED <<loop, phase, told, front>>
    BY <1>1 DEF Places
  <1>2. CASE Enter \/ Wedge
    BY <1>2, Names DEF Enter, Wedge, Turns, Places, callers
  <1>3. CASE Die
    <2>1. /\ loop' = "down" /\ loop # "boot" /\ UNCHANGED <<phase, front>>
          /\ \A c \in Calls : told'[c] = IF told[c] = "waiting" THEN "done" ELSE told[c]
      BY <1>3, Names DEF Die
    <2>2. QED
      BY <2>1, Names DEF Places
  <1>4. CASE Exit
    BY <1>4, Names DEF Exit, Drained, Places, callers
  <1>5. CASE Shut \/ Close
    BY <1>5 DEF Shut, Close, thread, callers, Places
  <1>6. ASSUME NEW c \in Calls, TakeInline(c) PROVE Places'
    <2>1. /\ loop = "idle" /\ loop' = c /\ Kind[c] = "inline" /\ phase[c] = "queued"
          /\ UNCHANGED <<told, front>>
      BY <1>6, HeadOfChan DEF TakeInline, Take, callers
    <2>2. phase'[c] = "runs" /\ \A d \in Calls : d # c => phase'[d] = phase[d]
      BY <1>6, GotoFacts DEF TakeInline
    <2>3. QED
      BY <2>1, <2>2, Names DEF Places
  <1>7. ASSUME NEW c \in Calls, TakeSearch(c) \/ TakeFlagged(c) PROVE Places'
    <2>1. /\ loop = "idle" /\ loop' = loop /\ Kind[c] # "inline" /\ phase[c] = "queued"
          /\ front' = front
      BY <1>7, HeadOfChan DEF TakeSearch, TakeFlagged, Take, Stamp, Flagged
    <2>2. \/ Goto(c, "gate") /\ Kind[c] = "search" /\ UNCHANGED callers
          \/ Goto(c, "runs") /\ UNCHANGED callers
          \/ Goto(c, "over") /\ Reply(c)
      BY <1>7 DEF TakeSearch, TakeFlagged
    <2>3. CASE Goto(c, "gate") /\ Kind[c] = "search" /\ UNCHANGED callers
      <3>1. phase'[c] = "gate" /\ \A d \in Calls : d # c => phase'[d] = phase[d]
        BY <2>3, GotoFacts
      <3>2. QED
        BY <2>1, <2>3, <3>1, Names DEF Places, callers
    <2>4. CASE Goto(c, "runs") /\ UNCHANGED callers
      <3>1. phase'[c] = "runs" /\ \A d \in Calls : d # c => phase'[d] = phase[d]
        BY <2>4, GotoFacts
      <3>2. QED
        BY <2>1, <2>4, <3>1, Names DEF Places, callers
    <2>5. CASE Goto(c, "over") /\ Reply(c)
      <3>1. phase'[c] = "over" /\ \A d \in Calls : d # c => phase'[d] = phase[d]
        BY <2>5, GotoFacts
      <3>2. QED
        BY <2>1, <2>5, <3>1, Names, ReplyFacts DEF Places
    <2>6. QED
      BY <2>2, <2>3, <2>4, <2>5
  <1>8. ASSUME NEW c \in Calls, PassGate(c) PROVE Places'
    <2>1. /\ loop \notin {"boot", "stuck", "down"} /\ Kind[c] = "search" /\ phase[c] = "gate"
          /\ UNCHANGED <<loop, told, front>>
      BY <1>8, HeadOfGate DEF PassGate, callers
    <2>2. Goto(c, "runs") \/ (Goto(c, "over") /\ told[c] # "waiting")
      BY <1>8 DEF PassGate
    <2>3. /\ phase'[c] = "runs" \/ (phase'[c] = "over" /\ told[c] # "waiting")
          /\ \A d \in Calls : d # c => phase'[d] = phase[d]
      BY <2>2, GotoFacts
    <2>4. QED
      BY <2>1, <2>3 DEF Places
  <1>9. ASSUME NEW c \in Calls, EndInline(c) PROVE Places'
    <2>1. /\ loop = c /\ loop' = "idle" /\ front' = front /\ Reply(c)
          /\ phase[c] = "runs"
      BY <1>9 DEF EndInline, Places
    <2>2. phase'[c] = "over" /\ \A d \in Calls : d # c => phase'[d] = phase[d]
      BY <1>9, GotoFacts DEF EndInline
    <2>3. QED
      BY <2>1, <2>2, Names, ReplyFacts DEF Places
  <1>10. ASSUME NEW c \in Calls, EndTask(c) PROVE Places'
    <2>1. /\ UNCHANGED <<loop, front>> /\ Reply(c) /\ phase[c] = "runs" /\ Kind[c] # "inline"
      BY <1>10 DEF EndTask
    <2>2. phase'[c] = "over" /\ \A d \in Calls : d # c => phase'[d] = phase[d]
      BY <1>10, GotoFacts DEF EndTask
    <2>3. QED
      BY <2>1, <2>2, ReplyFacts DEF Places
  <1>11. ASSUME NEW c \in Calls, Dispatch(c) PROVE Places'
    <2>1. /\ UNCHANGED <<loop, front>> /\ loop # "down" /\ front = "open"
          /\ phase[c] = "none"
      BY <1>11 DEF Dispatch, Places
    <2>2. \/ Goto(c, "queued") /\ told' = [told EXCEPT ![c] = "waiting"]
          \/ phase' = phase /\ told' = [told EXCEPT ![c] = "done"]
      BY <1>11 DEF Dispatch
    <2>3. CASE Goto(c, "queued") /\ told' = [told EXCEPT ![c] = "waiting"]
      <3>1. phase'[c] = "queued" /\ \A d \in Calls : d # c => phase'[d] = phase[d]
        BY <2>3, GotoFacts
      <3>2. told'[c] = "waiting" /\ \A d \in Calls : d # c => told'[d] = told[d]
        BY <1>0, <2>3
      <3>3. QED
        BY <2>1, <3>1, <3>2 DEF Places
    <2>4. CASE phase' = phase /\ told' = [told EXCEPT ![c] = "done"]
      BY <1>0, <2>1, <2>4 DEF Places
    <2>5. QED
      BY <2>2, <2>3, <2>4
  <1>12. ASSUME NEW c \in Calls, GiveUp(c) PROVE Places'
    BY <1>0, <1>12 DEF GiveUp, Places, thread
  <1>13. ASSUME NEW c \in Calls, HangUp(c) PROVE Places'
    BY <1>13, ReplyFacts DEF HangUp, Places, thread
  <1>14. CASE TakePing \/ SendPing \/ Tick \/ UNCHANGED vars
    BY <1>1, <1>14 DEF TakePing, Take, Stamp, SendPing, Tick, vars, thread, callers
  <1>15. QED
    BY <1>2, <1>3, <1>4, <1>5, <1>6, <1>7, <1>8, <1>9, <1>10, <1>11, <1>12, <1>13, <1>14
    DEF Next, Process, Caller, Loop, Handler

-----------------------------------------------------------------------------
(* Slots and flags *)

Holds(c) == Kind[c] = "search" /\ phase[c] \in {"gate", "runs"}
Flies(c) == Kind[c] \in Flagged /\ phase[c] = "runs"

\* HeldByRunning, flag by flag.
Held ==
  loop # "down" =>
    /\ slots = {c \in Calls : Holds(c)}
    /\ \A k : k \in flags <=> \E c \in Calls : Flies(c) /\ Kind[c] = k
    /\ \A c, d \in Calls : Flies(c) /\ Flies(d) /\ Kind[d] = Kind[c] => c = d

LEMMA HeldForm == HeldByRunning <=> Held
  <1> DEFINE F == {Kind[c] : c \in {d \in Calls : Kind[d] \in Flagged /\ phase[d] = "runs"}}
  <1>1. \A k : k \in F <=> \E c \in Calls : Flies(c) /\ Kind[c] = k
    BY DEF Flies
  <1>2. flags = F <=> \A k : k \in flags <=> k \in F
    OBVIOUS
  <1>3. {c \in Calls : Kind[c] = "search" /\ phase[c] \in {"gate", "runs"}}
          = {c \in Calls : Holds(c)}
    BY DEF Holds
  <1>4. (\A c, d \in Calls :
           Kind[c] \in Flagged /\ phase[c] = "runs" /\ Kind[d] = Kind[c] /\ phase[d] = "runs"
             => c = d)
          <=> \A c, d \in Calls : Flies(c) /\ Flies(d) /\ Kind[d] = Kind[c] => c = d
    BY DEF Flies
  <1> HIDE DEF F
  <1>5. QED
    <2>1. HeldByRunning <=>
            (loop # "down" =>
               /\ slots = {c \in Calls : Holds(c)} /\ flags = F
               /\ \A c, d \in Calls : Flies(c) /\ Flies(d) /\ Kind[d] = Kind[c] => c = d)
      BY <1>3, <1>4 DEF HeldByRunning, F
    <2>2. QED
      BY <1>1, <1>2, <2>1 DEF Held

\* No command comes to hold a slot or the flag, or stops to.
LEMMA HeldStays ==
  ASSUME Held, loop' # "down" => loop # "down", UNCHANGED <<slots, flags>>,
         \A c \in Calls : (Holds(c)' <=> Holds(c)) /\ (Flies(c)' <=> Flies(c))
  PROVE  Held'
  BY DEF Held

LEMMA HeldKept == TypeOK /\ Queues /\ Places /\ Held /\ [Next]_vars => Held'
  <1> SUFFICES ASSUME TypeOK, Queues, Places, Held, [Next]_vars PROVE Held'
    OBVIOUS
  <1>0. flags \in SUBSET Flagged /\ slots \subseteq Calls
    BY DEF TypeOK
  <1>1. ASSUME UNCHANGED <<phase, slots, flags>>, loop' # "down" => loop # "down"
        PROVE  Held'
    BY <1>1 DEF Held, Holds, Flies
  <1>2. CASE Enter \/ Wedge \/ Die \/ Exit
    BY <1>1, <1>2, Names DEF Enter, Wedge, Die, Exit, Turns, Drained
  <1>3. CASE TakePing \/ SendPing \/ Tick \/ Shut \/ Close \/ UNCHANGED vars
    BY <1>1, <1>3 DEF TakePing, Take, Stamp, SendPing, Tick, Shut, Close, vars, thread
  <1>4. ASSUME NEW c \in Calls, GiveUp(c) \/ HangUp(c) PROVE Held'
    BY <1>1, <1>4 DEF GiveUp, HangUp, thread
  <1>5. ASSUME NEW c \in Calls, NEW p, Goto(c, p), UNCHANGED <<slots, flags>>,
               loop # "down", phase[c] \in {"none", "queued"} \/ Kind[c] = "inline",
               p \in {"queued", "over"} \/ Kind[c] = "inline"
        PROVE  Held'
    <2>1. phase'[c] = p /\ \A d \in Calls : d # c => phase'[d] = phase[d]
      BY <1>5, GotoFacts
    <2>2. \A d \in Calls : (Holds(d)' <=> Holds(d)) /\ (Flies(d)' <=> Flies(d))
      BY <1>5, <2>1 DEF Holds, Flies, Flagged
    <2>3. QED
      BY <1>5, <2>2, HeldStays
  <1>6. ASSUME NEW c \in Calls, Dispatch(c) PROVE Held'
    <2>1. phase[c] = "none" /\ loop # "down" /\ UNCHANGED <<loop, slots, flags>>
      BY <1>6 DEF Dispatch, Places
    <2>2. phase' = phase \/ Goto(c, "queued")
      BY <1>6 DEF Dispatch
    <2>3. QED
      BY <1>1, <1>5, <2>1, <2>2
  <1>7. ASSUME NEW c \in Calls, TakeInline(c) PROVE Held'
    <2>1. /\ phase[c] = "queued" /\ loop # "down" /\ Goto(c, "runs") /\ Kind[c] = "inline"
          /\ UNCHANGED <<slots, flags>>
      BY <1>7, HeadOfChan DEF TakeInline
    <2>2. QED
      BY <1>5, <2>1
  <1>8. ASSUME NEW c \in Calls, EndInline(c) PROVE Held'
    <2>1. /\ Kind[c] = "inline" /\ loop # "down" /\ Goto(c, "over")
          /\ UNCHANGED <<slots, flags>>
      BY <1>8, Names DEF EndInline, Places
    <2>2. QED
      BY <1>5, <2>1
  <1>9. ASSUME NEW c \in Calls, TakeSearch(c) PROVE Held'
    <2>1. /\ phase[c] = "queued" /\ loop = "idle" /\ Kind[c] = "search" /\ flags' = flags
      BY <1>9, HeadOfChan DEF TakeSearch
    <2>2. \/ slots' = slots \cup {c} /\ Goto(c, "gate")
          \/ slots' = slots /\ Goto(c, "over")
      BY <1>9 DEF TakeSearch
    <2>3. CASE slots' = slots \cup {c} /\ Goto(c, "gate")
      <3>1. phase'[c] = "gate" /\ \A d \in Calls : d # c => phase'[d] = phase[d]
        BY <2>3, GotoFacts
      <3>2. \A d \in Calls : d # c => (Holds(d)' <=> Holds(d))
        BY <3>1 DEF Holds
      <3>3. slots' = {d \in Calls : Holds(d)'}
        BY <2>1, <2>3, <3>1, <3>2 DEF Held, Holds
      <3>4. \A d \in Calls : Flies(d)' <=> Flies(d)
        BY <2>1, <3>1 DEF Flies, Flagged
      <3>5. QED
        BY <2>1, <3>3, <3>4 DEF Held
    <2>4. QED
      BY <1>5, <2>1, <2>2, <2>3
  <1>10. ASSUME NEW c \in Calls, TakeFlagged(c) PROVE Held'
    <2>1. /\ phase[c] = "queued" /\ loop = "idle" /\ Kind[c] \in Flagged /\ slots' = slots
      BY <1>10, HeadOfChan DEF TakeFlagged
    <2>2. \/ Kind[c] \notin flags /\ flags' = flags \cup {Kind[c]} /\ Goto(c, "runs")
          \/ flags' = flags /\ Goto(c, "over")
      BY <1>10 DEF TakeFlagged
    <2>3. CASE Kind[c] \notin flags /\ flags' = flags \cup {Kind[c]} /\ Goto(c, "runs")
      <3>1. phase'[c] = "runs" /\ \A d \in Calls : d # c => phase'[d] = phase[d]
        BY <2>3, GotoFacts
      <3>2. \A d \in Calls : Holds(d)' <=> Holds(d)
        BY <2>1, <3>1 DEF Holds, Flagged
      <3>3. \A d \in Calls : Flies(d) => Kind[d] # Kind[c]
        BY <2>1, <2>3 DEF Held
      <3>4. \A d \in Calls : Flies(d)' <=> Flies(d) \/ d = c
        BY <2>1, <3>1 DEF Flies
      <3>5. \A k : k \in flags' <=> \E d \in Calls : Flies(d)' /\ Kind[d] = k
        BY <2>1, <2>3, <3>4 DEF Held
      <3>6. \A d, e \in Calls : Flies(d)' /\ Flies(e)' /\ Kind[e] = Kind[d] => d = e
        BY <2>1, <3>3, <3>4 DEF Held
      <3>7. slots' = {d \in Calls : Holds(d)'}
        BY <2>1, <3>2 DEF Held
      <3>8. QED
        BY <3>5, <3>6, <3>7 DEF Held
    <2>4. QED
      BY <1>5, <2>1, <2>2, <2>3
  <1>11. ASSUME NEW c \in Calls, Goto(c, "over"), Drop(c), loop # "down",
                Kind[c] \notin Flagged \/ phase[c] = "runs"
         PROVE  Held'
    <2>1. phase'[c] = "over" /\ \A d \in Calls : d # c => phase'[d] = phase[d]
      BY <1>11, GotoFacts
    <2>2. \A d \in Calls : Holds(d)' <=> Holds(d) /\ d # c
      BY <2>1 DEF Holds
    <2>3. \A d \in Calls : Flies(d)' <=> Flies(d) /\ d # c
      BY <2>1 DEF Flies
    <2>4. slots' = {d \in Calls : Holds(d)'}
      BY <1>11, <2>2 DEF Held, Drop
    <2>5. /\ \A k : k \in flags <=> \E d \in Calls : Flies(d) /\ Kind[d] = k
          /\ \A d, e \in Calls : Flies(d) /\ Flies(e) /\ Kind[e] = Kind[d] => d = e
      BY <1>11 DEF Held
    <2>6. \A d \in Calls : Flies(d) /\ Kind[d] = Kind[c] => d = c
      <3>1. CASE Kind[c] \in Flagged /\ phase[c] = "runs"
        BY <2>5, <3>1 DEF Flies
      <3>2. CASE Kind[c] \notin Flagged
        BY <3>2 DEF Flies
      <3>3. QED
        BY <1>11, <3>1, <3>2
    <2>7. flags' = flags \ {Kind[c]}
      BY <1>11 DEF Drop
    <2>8. \A k : k \in flags' <=> \E d \in Calls : Flies(d)' /\ Kind[d] = k
      BY <2>3, <2>5, <2>6, <2>7
    <2>9. QED
      BY <2>3, <2>4, <2>5, <2>8 DEF Held
  <1>12. ASSUME NEW c \in Calls, EndTask(c) PROVE Held'
    BY <1>11, <1>12 DEF EndTask, Turns
  <1>13. ASSUME NEW c \in Calls, PassGate(c) PROVE Held'
    <2>1. phase[c] = "gate" /\ Kind[c] = "search" /\ loop # "down"
      BY <1>13, HeadOfGate
    <2>2. \/ Goto(c, "runs") /\ UNCHANGED <<slots, flags>>
          \/ Goto(c, "over") /\ Drop(c)
      BY <1>13 DEF PassGate
    <2>3. CASE Goto(c, "runs") /\ UNCHANGED <<slots, flags>>
      <3>1. phase'[c] = "runs" /\ \A d \in Calls : d # c => phase'[d] = phase[d]
        BY <2>3, GotoFacts
      <3>2. \A d \in Calls : (Holds(d)' <=> Holds(d)) /\ (Flies(d)' <=> Flies(d))
        BY <2>1, <3>1 DEF Holds, Flies, Flagged
      <3>3. QED
        BY <2>1, <2>3, <3>2, HeldStays
    <2>4. QED
      BY <1>11, <2>1, <2>2, <2>3 DEF Flagged
  <1>14. QED
    BY <1>2, <1>3, <1>4, <1>6, <1>7, <1>8, <1>9, <1>10, <1>12, <1>13
    DEF Next, Process, Caller, Loop, Handler

LEMMA HeldStep == TypeOK /\ Queues /\ Places /\ HeldByRunning /\ [Next]_vars => HeldByRunning'
  <1>1. HeldByRunning <=> Held
    BY HeldForm
  <1>2. HeldByRunning' <=> Held'
    BY HeldForm, PTL
  <1>3. QED
    BY <1>1, <1>2, HeldKept

-----------------------------------------------------------------------------
(* Patience *)

\* A caller whose command does not move keeps its patience.
LEMMA PatientStays ==
  ASSUME NEW c \in Calls, Patient(c),
         told'[c] = told[c], budget'[c] = budget[c], waited'[c] = waited[c],
         told[c] = "waiting" => phase'[c] = phase[c] /\ left'[c] = left[c],
         loop = "stuck" => loop' = "stuck"
  PROVE  Patient(c)'
  BY DEF Patient

\* Nor has one that has its answer any to lose.
LEMMA PatientDone ==
  ASSUME NEW c \in Calls, told'[c] \notin {"none", "waiting"}
  PROVE  Patient(c)'
  BY DEF Patient

LEMMA PatienceStep ==
  TypeOK /\ Queues /\ Places /\ Patience /\ [Next]_vars => Patience'
  <1> SUFFICES ASSUME TypeOK, Queues, Places, Patience, [Next]_vars PROVE Patience'
    OBVIOUS
  <1>0. /\ \A c \in Calls : Patient(c)
        /\ told \in [Calls -> {"none", "waiting", "done", "gaveup"}]
        /\ budget \in [Calls -> Nat] /\ waited \in [Calls -> Nat] /\ left \in [Calls -> Nat]
    BY DEF Patience, TypeOK
  <1>1. ASSUME UNCHANGED <<callers, phase, left>>, loop = "stuck" => loop' = "stuck"
        PROVE  Patience'
    BY <1>0, <1>1, PatientStays DEF Patience, callers
  <1>2. CASE Enter \/ Wedge \/ Exit
    BY <1>1, <1>2 DEF Enter, Wedge, Exit, Drained
  <1>3. CASE TakePing \/ SendPing \/ Shut \/ Close \/ UNCHANGED vars
    BY <1>1, <1>3 DEF TakePing, Take, Stamp, SendPing, Shut, Close, vars, thread
  <1>4. CASE Die
    <2>1. /\ UNCHANGED <<phase, left, budget, waited>> /\ loop # "stuck"
          /\ \A c \in Calls : told'[c] = IF told[c] = "waiting" THEN "done" ELSE told[c]
      BY <1>4, Names DEF Die
    <2>2. QED
      BY <1>0, <2>1, PatientStays, PatientDone DEF Patience
  <1>5. CASE Tick
    <2>1. /\ loop \notin {"down"} /\ UNCHANGED <<loop, phase, told>>
          /\ \A c \in Calls :
               /\ left'[c] = IF Turns /\ phase[c] = "runs" /\ Timed(c) THEN left[c] - 1 ELSE left[c]
               /\ budget'[c] = IF told[c] = "waiting" THEN budget[c] - 1 ELSE budget[c]
               /\ waited'[c] = IF told[c] = "waiting" /\ phase[c] \in {"queued", "gate"}
                                 THEN Least(waited[c] + 1, Margin) ELSE waited[c]
      BY <1>5 DEF Tick
    <2>2. ASSUME NEW c \in Calls PROVE Patient(c)'
      <3>0. Patient(c) /\ waited[c] \in Nat /\ budget[c] \in Nat /\ left[c] \in Nat
        BY <1>0
      <3>1. CASE told[c] # "waiting"
        BY <2>1, <3>0, <3>1, PatientStays
      <3>2. CASE told[c] = "waiting" /\ phase[c] \in {"queued", "gate"}
        <4>1. waited'[c] = Least(waited[c] + 1, Margin) /\ budget'[c] = budget[c] - 1
          BY <2>1, <3>2
        <4>2. waited'[c] < Margin => waited'[c] = waited[c] + 1 /\ waited[c] < Margin
          BY <3>0, <4>1, Numbers DEF Least
        <4>3. waited'[c] < Margin => budget'[c] + waited'[c] = ReplyBound(c)
          BY <3>0, <3>2, <4>1, <4>2, Numbers DEF Patient
        <4>4. QED
          BY <2>1, <3>2, <4>3 DEF Patient, ReplyBound, DeadlineOf
      <3>3. CASE told[c] = "waiting" /\ phase[c] = "runs"
        <4>1. loop # "stuck" => Turns
          BY <2>1, <3>3 DEF Places, Turns
        <4>2. budget'[c] = budget[c] - 1 /\ waited'[c] = waited[c]
          BY <2>1, <3>3
        <4>3. Timed(c) /\ loop # "stuck" => left'[c] = left[c] - 1
          BY <2>1, <3>3, <4>1
        <4>4. Timed(c) /\ loop # "stuck" /\ waited'[c] < Margin
                => budget'[c] + waited'[c] = left'[c] + Margin
          BY <3>0, <3>3, <4>2, <4>3, Numbers DEF Patient
        <4>5. QED
          BY <2>1, <3>3, <4>4 DEF Patient
      <3>4. QED
        BY <3>1, <3>2, <3>3 DEF Places
    <2>3. QED
      BY <2>2 DEF Patience
  <1>6. ASSUME NEW c \in Calls, Dispatch(c) PROVE Patience'
    <2>1. UNCHANGED <<waited, loop, left>> /\ waited[c] = 0 /\ phase[c] = "none"
      BY <1>0, <1>6 DEF Dispatch, Patient, Places
    <2>2. \A d \in Calls : d # c =>
            told'[d] = told[d] /\ budget'[d] = budget[d] /\ phase'[d] = phase[d]
      BY <1>0, <1>6, GotoFacts DEF Dispatch
    <2>3. \A d \in Calls : d # c => Patient(d)'
      BY <1>0, <2>1, <2>2, PatientStays
    <2>4. \/ told'[c] = "done"
          \/ told'[c] = "waiting" /\ phase'[c] = "queued" /\ budget'[c] = ReplyBound(c)
      BY <1>0, <1>6, GotoFacts DEF Dispatch
    <2>5. ReplyBound(c) + 0 = ReplyBound(c)
      BY Numbers
    <2>6. Patient(c)'
      BY <2>1, <2>4, <2>5 DEF Patient, ReplyBound, DeadlineOf
    <2>7. QED
      BY <2>3, <2>6 DEF Patience
  <1>7. ASSUME NEW c \in Calls, GiveUp(c) PROVE Patience'
    <2>1. /\ UNCHANGED <<loop, phase, left, budget, waited>>
          /\ told'[c] = "gaveup" /\ \A d \in Calls : d # c => told'[d] = told[d]
      BY <1>0, <1>7 DEF GiveUp, thread
    <2>2. QED
      BY <1>0, <2>1, PatientStays, PatientDone DEF Patience
  <1>8. ASSUME NEW c \in Calls, Reply(c), loop = "stuck" => loop' = "stuck",
               told[c] # "none",
               \A d \in Calls : d # c => phase'[d] = phase[d] /\ left'[d] = left[d]
        PROVE  Patience'
    <2>1. \A d \in Calls : d # c => Patient(d)'
      BY <1>0, <1>8, ReplyFacts, PatientStays
    <2>2. Patient(c)'
      BY <1>8, ReplyFacts, PatientDone
    <2>3. QED
      BY <2>1, <2>2 DEF Patience
  <1>9. ASSUME NEW c \in Calls, HangUp(c) PROVE Patience'
    BY <1>8, <1>9 DEF HangUp, thread
  <1>10. ASSUME NEW c \in Calls, EndInline(c) \/ EndTask(c) PROVE Patience'
    <2>1. /\ phase[c] = "runs" /\ loop # "stuck" /\ Goto(c, "over") /\ Reply(c)
          /\ left' = [left EXCEPT ![c] = 0]
      BY <1>10, Names DEF EndInline, EndTask, Places, Turns
    <2>2. told[c] # "none"
      BY <2>1 DEF Places
    <2>3. \A d \in Calls : d # c => phase'[d] = phase[d] /\ left'[d] = left[d]
      BY <1>0, <2>1, GotoFacts
    <2>4. QED
      BY <1>8, <2>1, <2>2, <2>3
  <1>11. ASSUME NEW c \in Calls, phase[c] \in {"queued", "gate"}, Goto(c, "runs"),
                NEW n \in Nat, left' = [left EXCEPT ![c] = n],
                Timed(c) => n = DeadlineOf(c), UNCHANGED callers,
                loop # "stuck"
         PROVE  Patience'
    <2>1. \A d \in Calls : d # c => phase'[d] = phase[d] /\ left'[d] = left[d]
      BY <1>0, <1>11, GotoFacts
    <2>2. \A d \in Calls : d # c => Patient(d)'
      BY <1>0, <1>11, <2>1, PatientStays DEF callers
    <2>3. UNCHANGED callers /\ phase'[c] = "runs" /\ left'[c] = n /\ Patient(c)
      BY <1>0, <1>11, GotoFacts
    <2>4. told[c] # "none"
      BY <1>11 DEF Places
    <2>5. Patient(c)'
      BY <1>11, <2>3, <2>4, Numbers DEF Patient, callers
    <2>6. QED
      BY <2>2, <2>5 DEF Patience
  <1>12. ASSUME NEW c \in Calls, phase[c] \in {"queued", "gate"}, Goto(c, "gate"),
                UNCHANGED <<callers, left>>, loop # "stuck"
         PROVE  Patience'
    <2>1. phase'[c] = "gate" /\ \A d \in Calls : d # c => phase'[d] = phase[d]
      BY <1>12, GotoFacts
    <2>2. \A d \in Calls : d # c => Patient(d)'
      BY <1>0, <1>12, <2>1, PatientStays DEF callers
    <2>3. Patient(c)'
      BY <1>0, <1>12, <2>1 DEF Patient, callers, ReplyBound, DeadlineOf
    <2>4. QED
      BY <2>2, <2>3 DEF Patience
  <1>13. ASSUME NEW c \in Calls, TakeInline(c) PROVE Patience'
    <2>1. phase[c] = "queued" /\ loop = "idle"
      BY <1>13, HeadOfChan DEF TakeInline
    <2>2. QED
      BY <1>11, <1>13, <2>1, Numbers DEF TakeInline
  <1>14. ASSUME NEW c \in Calls, TakeSearch(c) \/ TakeFlagged(c) PROVE Patience'
    <2>1. phase[c] = "queued" /\ loop = "idle" /\ told[c] # "none"
      BY <1>14, HeadOfChan DEF TakeSearch, TakeFlagged, Places
    <2>2. \/ Goto(c, "gate") /\ UNCHANGED <<callers, left>>
          \/ /\ Goto(c, "runs") /\ UNCHANGED callers
             /\ left' = [left EXCEPT ![c] = IF Timed(c) THEN DeadlineOf(c) ELSE 0]
          \/ Goto(c, "over") /\ Reply(c) /\ UNCHANGED left
      BY <1>14 DEF TakeSearch, TakeFlagged
    <2>3. CASE Goto(c, "over") /\ Reply(c) /\ UNCHANGED left
      <3>1. \A d \in Calls : d # c => phase'[d] = phase[d] /\ left'[d] = left[d]
        BY <2>3, GotoFacts
      <3>2. QED
        BY <1>8, <2>1, <2>3, <3>1
    <2>4. QED
      BY <1>11, <1>12, <2>1, <2>2, <2>3, Numbers
  <1>15. ASSUME NEW c \in Calls, PassGate(c) PROVE Patience'
    <2>1. phase[c] = "gate" /\ loop # "stuck" /\ UNCHANGED <<loop, callers>>
      BY <1>15, HeadOfGate DEF PassGate
    <2>2. CASE Goto(c, "runs") /\ left' = [left EXCEPT ![c] = DeadlineOf(c)]
      BY <1>11, <2>1, <2>2, Numbers
    <2>3. CASE told[c] # "waiting" /\ Goto(c, "over") /\ UNCHANGED left
      <3>1. \A d \in Calls : d # c => phase'[d] = phase[d]
        BY <2>3, GotoFacts
      <3>2. \A d \in Calls : Patient(d)'
        BY <1>0, <2>1, <2>3, <3>1, PatientStays DEF callers
      <3>3. QED
        BY <3>2 DEF Patience
    <2>4. QED
      BY <1>15, <2>2, <2>3 DEF PassGate
  <1>16. QED
    BY <1>2, <1>3, <1>4, <1>5, <1>6, <1>7, <1>9, <1>10, <1>13, <1>14, <1>15
    DEF Next, Process, Caller, Loop, Handler

\* A caller that runs out of patience did so in a queue, or the worker is stuck.
LEMMA GiveUpStep ==
  TypeOK /\ Places /\ Patience /\ GiveUpMeansQueue /\ [Next]_vars => GiveUpMeansQueue'
  <1> SUFFICES ASSUME TypeOK, Places, Patience, GiveUpMeansQueue, [Next]_vars
               PROVE  GiveUpMeansQueue'
    OBVIOUS
  <1>0. /\ told \in [Calls -> {"none", "waiting", "done", "gaveup"}]
        /\ budget \in [Calls -> Nat] /\ waited \in [Calls -> Nat] /\ left \in [Calls -> Nat]
    BY DEF TypeOK
  <1>1. ASSUME loop = "stuck" => loop' = "stuck",
               \A c \in Calls : told'[c] = "gaveup" =>
                                  told[c] = "gaveup" /\ waited'[c] = waited[c]
        PROVE  GiveUpMeansQueue'
    BY <1>1 DEF GiveUpMeansQueue
  <1>2. ASSUME UNCHANGED callers, loop = "stuck" => loop' = "stuck"
        PROVE  GiveUpMeansQueue'
    BY <1>1, <1>2 DEF callers
  <1>3. CASE Enter \/ Wedge \/ Exit
    BY <1>2, <1>3 DEF Enter, Wedge, Exit, Drained
  <1>4. CASE TakePing \/ SendPing \/ Shut \/ Close \/ UNCHANGED vars
    BY <1>2, <1>4 DEF TakePing, Take, Stamp, SendPing, Shut, Close, vars, thread
  <1>5. CASE Die
    <2>1. /\ loop # "stuck" /\ waited' = waited
          /\ \A c \in Calls : told'[c] = IF told[c] = "waiting" THEN "done" ELSE told[c]
      BY <1>5, Names DEF Die
    <2>2. QED
      BY <1>1, <2>1
  <1>6. CASE Tick
    BY <1>0, <1>1, <1>6 DEF Tick
  <1>7. ASSUME NEW c \in Calls, Dispatch(c) PROVE GiveUpMeansQueue'
    <2>1. UNCHANGED <<loop, waited>>
      BY <1>7 DEF Dispatch
    <2>2. \A d \in Calls : told'[d] = "gaveup" => told[d] = "gaveup"
      BY <1>0, <1>7 DEF Dispatch
    <2>3. QED
      BY <1>1, <2>1, <2>2
  <1>8. ASSUME NEW c \in Calls, GiveUp(c) PROVE GiveUpMeansQueue'
    <2>1. /\ told[c] = "waiting" /\ budget[c] = 0 /\ UNCHANGED <<loop, waited>>
          /\ \A d \in Calls : d # c => told'[d] = told[d]
      BY <1>0, <1>8 DEF GiveUp, thread
    <2>2. ASSUME waited[c] < Margin, Timed(c), loop # "stuck" PROVE FALSE
      <3>1. budget[c] + waited[c] = ReplyBound(c) \/ budget[c] + waited[c] = left[c] + Margin
        BY <2>1, <2>2 DEF Patience, Patient, Places
      <3>2. waited[c] \in Nat /\ left[c] \in Nat
        BY <1>0
      <3>3. QED
        BY <2>1, <2>2, <3>1, <3>2, Numbers
    <2>3. waited[c] \in Nat
      BY <1>0
    <2>4. waited[c] >= Margin \/ ~Timed(c) \/ loop = "stuck"
      BY <2>2, <2>3, Numbers
    <2>5. QED
      BY <2>1, <2>4 DEF GiveUpMeansQueue
  <1>9. ASSUME NEW c \in Calls, Reply(c), loop = "stuck" => loop' = "stuck"
        PROVE  GiveUpMeansQueue'
    BY <1>1, <1>9, ReplyFacts
  <1>10. ASSUME NEW c \in Calls, HangUp(c) \/ EndInline(c) \/ EndTask(c)
         PROVE  GiveUpMeansQueue'
    BY <1>9, <1>10, Names DEF HangUp, EndInline, EndTask, thread
  <1>11. ASSUME NEW c \in Calls, TakeInline(c) \/ TakeSearch(c) \/ TakeFlagged(c)
         PROVE  GiveUpMeansQueue'
    BY <1>2, <1>9, <1>11 DEF TakeInline, TakeSearch, TakeFlagged, Take
  <1>12. ASSUME NEW c \in Calls, PassGate(c) PROVE GiveUpMeansQueue'
    BY <1>2, <1>12 DEF PassGate
  <1>13. QED
    BY <1>3, <1>4, <1>5, <1>6, <1>7, <1>8, <1>10, <1>11, <1>12
    DEF Next, Process, Caller, Loop, Handler

-----------------------------------------------------------------------------
(* The theorems *)

LEMMA WorkerInit == Init => WorkerInv
  <1> SUFFICES ASSUME Init PROVE WorkerInv
    OBVIOUS
  <1>1. TypeOK
    <2>1. DataTypes
      <3>1. age \in 0..Stall + 1 /\ pingIn \in 0..Ping
        BY Numbers DEF Init
      <3>2. /\ left \in [Calls -> Nat] /\ budget \in [Calls -> Nat]
            /\ waited \in [Calls -> Nat]
        BY DEF Init
      <3>3. /\ phase \in [Calls -> {"none", "queued", "gate", "runs", "over"}]
            /\ told \in [Calls -> {"none", "waiting", "done", "gaveup"}]
        BY DEF Init
      <3>4. slots \in SUBSET Calls /\ flags \in SUBSET Flagged /\ pinging \in BOOLEAN
        BY DEF Init
      <3>5. QED
        BY <3>1, <3>2, <3>3, <3>4 DEF Init, DataTypes
    <2>2. ChanCap \in Nat
      BY WorkerAssumption DEF WorkerAssumption
    <2>3. QueueTypes
      BY <2>2 DEF Init, QueueTypes
    <2>4. QED
      BY <2>1, <2>3, TypeHalves
  <1>2. Beat
    BY Names DEF Init, Beat
  <1>3. Queues
    BY DEF Init, Queues
  <1>4. Places /\ HeldByRunning
    BY Names DEF Init, Places, HeldByRunning
  <1>5. Patience /\ GiveUpMeansQueue
    BY DEF Init, Patience, Patient, GiveUpMeansQueue
  <1>6. QED
    BY <1>1, <1>2, <1>3, <1>4, <1>5 DEF WorkerInv

LEMMA WorkerStep == WorkerInv /\ [Next]_vars => WorkerInv'
  BY TypeStep, BeatStep, QueuesStep, PlacesStep, HeldStep, PatienceStep, GiveUpStep
  DEF WorkerInv

\* Whatever callers, loop, handlers, pinger and clocks do in whatever order, the
\* timers, the queues and the places of commands agree: WorkerInv is an invariant.
THEOREM InvariantHolds == Spec => []WorkerInv
  <1>1. QED
    BY WorkerInit, WorkerStep, PTL DEF Spec

\* Every variable of the worker keeps its type: the channel is never longer than
\* CMD_CHANNEL_CAP and no timer runs below zero.
THEOREM TypeCorrect == Spec => []TypeOK
  <1>1. WorkerInv => TypeOK
    BY DEF WorkerInv
  <1>2. QED
    BY <1>1, InvariantHolds, PTL

\* worker_state's verdict is never a false alarm: if the threshold outlasts a
\* deadline and a ping, only a wedged worker is reported stalled.
THEOREM NoFalseStalls == Spec => []NoFalseStall
  <1>1. WorkerInv => NoFalseStall
    <2> SUFFICES ASSUME WorkerInv, Stalled, loop # "stuck" PROVE FALSE
      BY DEF NoFalseStall
    <2>1. TypeOK /\ Beat
      BY DEF WorkerInv
    <2>2. age \in Nat /\ age > Stall /\ loop \in Calls \cup {"idle", "down"}
      BY <2>1, Numbers DEF TypeOK, Stalled
    <2>3. loop \in Calls => left[loop] \in Nat
      BY <2>1 DEF TypeOK
    <2>4. loop \in Calls => age + left[loop] <= Deadline + Ping
      BY <2>1 DEF Beat
    <2>5. loop = "idle" => age <= Ping
      BY <2>1 DEF Beat
    <2>6. loop = "down" => age <= Stall
      BY <2>1 DEF Beat
    <2>7. QED
      BY <2>2, <2>3, <2>4, <2>5, <2>6, Numbers
  <1>2. QED
    BY <1>1, InvariantHolds, PTL

\* The backlog counter and the single-flight flag of service_worker are held by
\* the tasks that run and by nothing else, so none leaks and none is shared.
THEOREM HeldExactly == Spec => []HeldByRunning
  <1>1. WorkerInv => HeldByRunning
    BY DEF WorkerInv
  <1>2. QED
    BY <1>1, InvariantHolds, PTL

\* call_rpc's timeout fires only for a command that stood in a queue for
\* REPLY_MARGIN, or on a wedged worker: a handler's own deadline always wins.
THEOREM GiveUps == Spec => []GiveUpMeansQueue
  <1>1. WorkerInv => GiveUpMeansQueue
    BY DEF WorkerInv
  <1>2. QED
    BY <1>1, InvariantHolds, PTL
=============================================================================
