------------------------------ MODULE CasStore ------------------------------
(***************************************************************************)
(* The compare-and-set protocol by which every alaya process writes one    *)
(* memory of the shared Qdrant collection                                  *)
(* (crates/alaya-backends/src/qdrant.rs, `update_points` and its callers). *)
(*                                                                         *)
(* Qdrant has no transactions.  A writer reads the point, builds the new   *)
(* payload from the copy it read, stamps it with a fresh revision token,   *)
(* and sends a write conditional on the revision it read.  Qdrant answers  *)
(* 200 whether or not the condition held, so the writer reads back and     *)
(* looks for its token in the bounded log of revisions the payload keeps.  *)
(*                                                                         *)
(* One memory is modelled: `update_points` treats the members of a batch   *)
(* alike, and what another member can do to this one (Batch::Strict        *)
(* refusing the batch, an error of `modify`) is the choice that Decline    *)
(* and Abort leave open.  A task is one call of one storage operation.     *)
(***************************************************************************)
EXTENDS Naturals, Sequences, FiniteSets

CONSTANTS Tasks,             \* calls of storage operations
          Workloads,         \* which of them are made together
          Kind,              \* Kind[t]: what call t does
          Clients,           \* QdrantClient instances: one per process
          Client,            \* Client[t]: the client that runs t
          Nobody,            \* the holder of a free lock
          RevLogLen,         \* REV_LOG_LEN
          MaxWriteAttempts   \* MAX_WRITE_ATTEMPTS

\* "modify" stands for every payload write that takes the write lock:
\* update_metadata_batch, reverse_supersession, supersede_if_live,
\* confirm_memory, patch_memory, set_generated_summary.
Kinds == {"store", "insertOnly", "modify", "bump", "delete"}

ASSUME CasAssumption ==
  /\ Kind \in [Tasks -> Kinds]
  /\ Client \in [Tasks -> Clients]
  /\ Nobody \notin Tasks
  /\ RevLogLen \in Nat \ {0}
  /\ MaxWriteAttempts \in Nat \ {0}

VARIABLES point,       \* the memory's point as Qdrant holds it
          net,         \* conditional writes sent and not yet processed
          deleting,    \* tasks whose delete request is not yet processed
          pc, round,   \* where each call is
          base,        \* the revision the call's current attempt read
          result,      \* what the call returned to its caller
          writeLock, accessLock,   \* per client: the holder
          \* history variables: what really happened to the point
          hist,        \* the writes applied since the point was created
          applied,     \* every write ever applied
          intruded     \* access increments applied inside a writer's turn

storeVars == <<point, net, deleting>>
taskVars == <<pc, round, base, result>>
lockVars == <<writeLock, accessLock>>
ghostVars == <<hist, applied, intruded>>
vars == <<storeVars, taskVars, lockVars, ghostVars>>

-----------------------------------------------------------------------------
(* Revisions and payloads *)

\* A token no other write in any process will ever use: call and attempt.
Revs == Tasks \X (0 .. MaxWriteAttempts - 1)
NoRev == <<>>
Stamp(t) == <<t, round[t]>>
Owner(rev) == rev[1]

\* Keep the newest RevLogLen entries.
Newest(log) ==
  IF Len(log) <= RevLogLen
    THEN log
    ELSE SubSeq(log, Len(log) - RevLogLen + 1, Len(log))

Members(s) == {s[i] : i \in DOMAIN s}

\* A point: its revision, its revision log, and its payload, of which we keep
\* the one thing every writer does with it: `built` lists the writes whose
\* effects the payload carries.
Gone == [live |-> FALSE, rev |-> NoRev, log |-> <<>>, built |-> <<>>]
\* A point written before revisions existed.
Legacy == [Gone EXCEPT !.live = TRUE]

Points == [live : BOOLEAN, rev : Revs \cup {NoRev}, log : Seq(Revs),
           built : Seq(Revs)]

\* Slips that the properties below must catch stand beside the definition they
\* alter; nothing uses them.  Here: a log that is never cut.
StampedUncut(t, prev) ==
  [live |-> TRUE, rev |-> Stamp(t), log |-> Append(prev.log, Stamp(t)),
   built |-> Append(prev.built, Stamp(t))]

\* The stamped payload that call t builds from the copy prev it read.
Stamped(t, prev) ==
  [live |-> TRUE, rev |-> Stamp(t), log |-> Newest(Append(prev.log, Stamp(t))),
   built |-> Append(prev.built, Stamp(t))]

\* A conditional write on its way to Qdrant: insert_only when the point was
\* absent from the read, else filtered on the revision read.
Payloads == [live : {TRUE}, rev : Revs, log : Seq(Revs), built : Seq(Revs)]
Requests == [create : BOOLEAN, base : Revs \cup {NoRev}, payload : Payloads]
Request(t, prev) ==
  [create |-> ~prev.live, base |-> prev.rev, payload |-> Stamped(t, prev)]
Tok(q) == q.payload.rev

\* Slips: an update filtered on the id alone; an update that creates.
MatchesAnyRevision(q) == q.create = ~point.live
MatchesAbsent(q) ==
  \/ q.create /\ ~point.live
  \/ ~q.create /\ point.rev = q.base

\* Whether Qdrant applies q to the point as it is now.
Matches(q) ==
  \/ q.create /\ ~point.live
  \/ ~q.create /\ point.live /\ point.rev = q.base

\* Slips: judging by the current revision alone; taking a full log for one
\* that still reaches back to the read.
LandedByRevision(readRev, now, mine) ==
  CASE ~now.live -> "gone"
    [] now.live /\ now.rev = mine -> "yes"
    [] OTHER -> "no"
LandedFullLog(readRev, now, mine) ==
  LET reachesBack == IF readRev # NoRev
                       THEN readRev \in Members(now.log)
                       ELSE Len(now.log) <= RevLogLen
  IN  CASE ~now.live -> "gone"
        [] now.live /\ mine \in Members(now.log) -> "yes"
        [] now.live /\ mine \notin Members(now.log) /\ reachesBack -> "no"
        [] OTHER -> "unknown"

\* Did the write stamped `mine` land?  Judged from the point read back.
Landed(readRev, now, mine) ==
  LET reachesBack == IF readRev # NoRev
                       THEN readRev \in Members(now.log)
                       ELSE Len(now.log) < RevLogLen
  IN  CASE ~now.live -> "gone"
        [] now.live /\ mine \in Members(now.log) -> "yes"
        [] now.live /\ mine \notin Members(now.log) /\ reachesBack -> "no"
        [] OTHER -> "unknown"

-----------------------------------------------------------------------------
(* Calls *)

IsStore(t) == Kind[t] \in {"store", "insertOnly"}

\* Slip: the locks are freed only on success.
FinishHolding(t, r) ==
  /\ pc' = [pc EXCEPT ![t] = "done"]
  /\ result' = [result EXCEPT ![t] = r]
  /\ writeLock' = [c \in Clients |->
       IF writeLock[c] = t /\ r = "landed" THEN Nobody ELSE writeLock[c]]
  /\ accessLock' = [c \in Clients |->
       IF accessLock[c] = t /\ r = "landed" THEN Nobody ELSE accessLock[c]]

\* The call returns r; the guards it holds are dropped.
Finish(t, r) ==
  /\ pc' = [pc EXCEPT ![t] = "done"]
  /\ result' = [result EXCEPT ![t] = r]
  /\ writeLock' = [c \in Clients |-> IF writeLock[c] = t THEN Nobody ELSE writeLock[c]]
  /\ accessLock' = [c \in Clients |-> IF accessLock[c] = t THEN Nobody ELSE accessLock[c]]

\* Every writer but the access increment takes its client's write lock.
TakeWriteLock(t) ==
  /\ pc[t] = "idle" /\ Kind[t] # "bump"
  /\ writeLock[Client[t]] = Nobody
  /\ writeLock' = [writeLock EXCEPT ![Client[t]] = t]
  /\ IF Kind[t] = "delete"
       THEN pc' = [pc EXCEPT ![t] = "wait"] /\ deleting' = deleting \cup {t}
       ELSE pc' = [pc EXCEPT ![t] = "read"] /\ UNCHANGED deleting
  /\ UNCHANGED <<point, net, round, base, result, accessLock, ghostVars>>

\* Slip: increments do not wait for each other.
TakeAccessLockShared(t) ==
  /\ pc[t] = "idle" /\ Kind[t] = "bump"
  /\ accessLock' = [accessLock EXCEPT ![Client[t]] = t]
  /\ pc' = [pc EXCEPT ![t] = "gate"]
  /\ UNCHANGED <<storeVars, round, base, result, writeLock, ghostVars>>

\* access_turn: first the access lock ...
TakeAccessLock(t) ==
  /\ pc[t] = "idle" /\ Kind[t] = "bump"
  /\ accessLock[Client[t]] = Nobody
  /\ accessLock' = [accessLock EXCEPT ![Client[t]] = t]
  /\ pc' = [pc EXCEPT ![t] = "gate"]
  /\ UNCHANGED <<storeVars, round, base, result, writeLock, ghostVars>>

\* ... then wait until no writer holds the write lock, without keeping it.
PassGate(t) ==
  /\ pc[t] = "gate"
  /\ writeLock[Client[t]] = Nobody
  /\ pc' = [pc EXCEPT ![t] = "read"]
  /\ UNCHANGED <<storeVars, round, base, result, lockVars, ghostVars>>

\* Read the point, build the write from the copy, send it.
ReadAndSend(t) ==
  /\ pc[t] = "read"
  /\ point.live => Kind[t] # "insertOnly"
  /\ ~point.live => IsStore(t)
  /\ base' = [base EXCEPT ![t] = point.rev]
  /\ net' = net \cup {Request(t, point)}
  /\ pc' = [pc EXCEPT ![t] = "wait"]
  /\ UNCHANGED <<point, deleting, round, result, lockVars, ghostVars>>

\* `modify` leaves the present point alone: always for an insert-only store,
\* by its own condition (a marker already there, a summary already set, a
\* Strict batch with an absent member) for a payload write.
Decline(t) ==
  /\ pc[t] = "read" /\ point.live
  /\ Kind[t] \in {"insertOnly", "modify"}
  /\ Finish(t, "skipped")
  /\ UNCHANGED <<storeVars, round, base, ghostVars>>

\* A payload write cannot create the point.
FindAbsent(t) ==
  /\ pc[t] = "read" /\ ~point.live /\ ~IsStore(t)
  /\ Finish(t, IF round[t] = 0 THEN "absent" ELSE "deleted")
  /\ UNCHANGED <<storeVars, round, base, ghostVars>>

ReadBack(t) ==
  LET verdict == Landed(base[t], point, Stamp(t))
  IN  /\ pc[t] = "wait" /\ Kind[t] # "delete"
      /\ \A q \in net : Tok(q) # Stamp(t)
      /\ \/ /\ verdict = "yes"
            /\ Finish(t, "landed")
            /\ UNCHANGED round
         \/ /\ verdict = "gone"
            /\ Finish(t, "deleted")
            /\ UNCHANGED round
         \/ /\ verdict = "unknown"
            /\ Finish(t, "unconfirmed")
            /\ UNCHANGED round
         \/ /\ verdict = "no" /\ round[t] + 1 = MaxWriteAttempts
            /\ Finish(t, "lost")
            /\ UNCHANGED round
         \/ /\ verdict = "no" /\ round[t] + 1 < MaxWriteAttempts
            /\ round' = [round EXCEPT ![t] = @ + 1]
            /\ pc' = [pc EXCEPT ![t] = "read"]
            /\ UNCHANGED <<result, lockVars>>
      /\ UNCHANGED <<storeVars, base, ghostVars>>

\* The delete request was answered.
DeleteAnswered(t) ==
  /\ pc[t] = "wait" /\ Kind[t] = "delete" /\ t \notin deleting
  /\ Finish(t, "erased")
  /\ UNCHANGED <<storeVars, round, base, ghostVars>>

\* The write's answer is an error or never comes.  The request may have been
\* applied, and if it is still on its way it may be applied later.
SendFails(t) ==
  /\ pc[t] = "wait"
  /\ Finish(t, "unconfirmed")
  /\ UNCHANGED <<storeVars, round, base, ghostVars>>

\* A read (first read or read-back) fails, or `modify` returns an error.
Abort(t) ==
  /\ \/ pc[t] = "read"
     \/ pc[t] = "wait" /\ Kind[t] # "delete" /\ \A q \in net : Tok(q) # Stamp(t)
  /\ Finish(t, "failed")
  /\ UNCHANGED <<storeVars, round, base, ghostVars>>

\* The caller drops the call (a command's deadline, a search's budget): its
\* guards go, a request already sent does not.
CutOff(t) ==
  /\ pc[t] \in {"gate", "read", "wait"}
  /\ Finish(t, "cut")
  /\ UNCHANGED <<storeVars, round, base, ghostVars>>

-----------------------------------------------------------------------------
(* Qdrant *)

\* The write is an access increment and t, of the same client, has the turn.
IntrudesOn(q, t) ==
  LET b == Owner(Tok(q)) IN Kind[b] = "bump" /\ writeLock[Client[b]] = t

\* Qdrant processes a conditional write.
Apply(q) ==
  /\ q \in net
  /\ net' = net \ {q}
  /\ IF Matches(q)
       THEN /\ point' = q.payload
            /\ hist' = Append(hist, Tok(q))
            /\ applied' = applied \cup {Tok(q)}
            /\ intruded' = [t \in Tasks |-> IF IntrudesOn(q, t) THEN intruded[t] + 1
                                                               ELSE intruded[t]]
       ELSE UNCHANGED <<point, ghostVars>>
  /\ UNCHANGED <<deleting, taskVars, lockVars>>

\* Qdrant processes an unconditional delete.
ApplyDelete(t) ==
  /\ t \in deleting
  /\ deleting' = deleting \ {t}
  /\ point' = Gone
  /\ hist' = <<>>
  /\ UNCHANGED <<net, taskVars, lockVars, applied, intruded>>

-----------------------------------------------------------------------------
\* The calls of one workload are still to come, and no others.
Init ==
  /\ point \in {Gone, Legacy}
  /\ net = {} /\ deleting = {}
  /\ \E w \in Workloads : pc = [t \in Tasks |-> IF t \in w THEN "idle" ELSE "done"]
  /\ round = [t \in Tasks |-> 0]
  /\ base = [t \in Tasks |-> NoRev]
  /\ result = [t \in Tasks |-> "none"]
  /\ writeLock = [c \in Clients |-> Nobody]
  /\ accessLock = [c \in Clients |-> Nobody]
  /\ hist = <<>> /\ applied = {}
  /\ intruded = [t \in Tasks |-> 0]

\* What a call does by itself, and what Qdrant does with its requests.
Step(t) ==
  \/ TakeWriteLock(t) \/ TakeAccessLock(t) \/ PassGate(t)
  \/ ReadAndSend(t) \/ Decline(t) \/ FindAbsent(t)
  \/ ReadBack(t) \/ DeleteAnswered(t)
Serve(t) == ApplyDelete(t) \/ \E q \in net : Owner(Tok(q)) = t /\ Apply(q)
Fault(t) == SendFails(t) \/ Abort(t) \/ CutOff(t)

Next == \E t \in Tasks : Step(t) \/ Serve(t) \/ Fault(t)

Spec == Init /\ [][Next]_vars

\* A task that can take a step takes one, and Qdrant answers what it is sent.
\* The locks promise no fairness and need none: finitely many calls take them
\* finitely often.  Faults are never required.
FairSpec == Spec /\ \A t \in Tasks : WF_vars(Step(t)) /\ WF_vars(Serve(t))

-----------------------------------------------------------------------------
(* Properties *)

\* Types of the state.
TypeOK ==
  /\ point \in Points
  /\ net \in SUBSET Requests
  /\ deleting \in SUBSET Tasks
  /\ pc \in [Tasks -> {"idle", "gate", "read", "wait", "done"}]
  /\ round \in [Tasks -> 0 .. MaxWriteAttempts - 1]
  /\ base \in [Tasks -> Revs \cup {NoRev}]
  /\ result \in [Tasks -> {"none", "landed", "skipped", "absent", "deleted",
                           "unconfirmed", "lost", "failed", "cut", "erased"}]
  /\ writeLock \in [Clients -> Tasks \cup {Nobody}]
  /\ accessLock \in [Clients -> Tasks \cup {Nobody}]
  /\ hist \in Seq(Revs)
  /\ applied \in SUBSET Revs
  /\ intruded \in [Tasks -> Nat]

\* No update is lost, and no deleted memory comes back: the payload carries
\* the effect of exactly the writes applied since the point was created, in
\* the order they were applied ("a write that lost a race is rebuilt from a
\* fresh read ... there is never an unconditional fallback"; `delete`: "no
\* snapshot can bring the point back").
NoLostUpdate == point.built = hist

\* A call takes effect at most once in the life of a point, however often it
\* is retried and whatever answers are lost: an access is not counted twice.
AtMostOnce ==
  \A i, j \in DOMAIN hist : Owner(hist[i]) = Owner(hist[j]) => i = j

\* What the caller is told is true: a landed write was applied, and a call
\* that reports that it wrote nothing, or that nothing of it survives
\* ("either way nothing of this store survives"), has no effect on the memory
\* now and none still on its way.
Denials == {"skipped", "absent", "deleted", "lost"}
TruthfulOutcome ==
  \A t \in Tasks :
    /\ result[t] = "landed" => \E rev \in applied : Owner(rev) = t
    /\ result[t] \in Denials =>
         /\ \A i \in DOMAIN hist : Owner(hist[i]) # t
         /\ \A q \in net : Owner(Tok(q)) # t

\* access_turn: while a writer holds its client's write lock, at most one
\* access increment of that client commits, plus one for each increment that
\* was given up on with its request in flight ("one exception"), and one for
\* each delete: an increment whose point was deleted and made again repeats.
AbandonedBumps(c) ==
  {b \in Tasks : /\ Kind[b] = "bump" /\ Client[b] = c
                 /\ result[b] \in {"cut", "unconfirmed"}}
Deletes == {d \in Tasks : Kind[d] = "delete" /\ (pc[d] = "wait" \/ result[d] # "none")}
TurnBound ==
  \A t \in Tasks :
    intruded[t] <= 1 + Cardinality(AbandonedBumps(Client[t])) + Cardinality(Deletes)

\* The strengthening under which the three properties above are inductive.
\* Revisions and logs against the history: the revision is the last write
\* applied, and the log the newest part of the history.
LogOfHistory ==
  /\ point.log = Newest(hist)
  /\ point.rev = IF hist = <<>> THEN NoRev ELSE hist[Len(hist)]
  /\ ~point.live => hist = <<>>
  /\ \A i \in DOMAIN hist : hist[i] \in applied

\* A call that is about to read has applied nothing to this point, has
\* nothing on its way, and will stamp a token that was never used.
FreshBeforeRead ==
  \A t \in Tasks : pc[t] \in {"idle", "gate", "read"} =>
    /\ \A i \in DOMAIN hist : Owner(hist[i]) # t
    /\ \A q \in net : Owner(Tok(q)) # t
    /\ \A rev \in applied : Owner(rev) = t => rev[2] < round[t]

\* A call that waits for its answer has at most its current token in the
\* history, right after the revision it read (or first).
AppliedAfterBase ==
  \A t \in Tasks : pc[t] = "wait" =>
    /\ \A rev \in applied : Owner(rev) = t => rev[2] <= round[t]
    /\ \A i \in DOMAIN hist : Owner(hist[i]) = t =>
         /\ hist[i] = Stamp(t)
         /\ i = 1 => base[t] = NoRev
         /\ i > 1 => base[t] = hist[i - 1]

\* A write on its way was never applied, belongs to a call that has nothing in
\* the history, and carries a payload that is the present one plus itself if
\* it still matches.
RequestsFresh ==
  \A q \in net :
    LET t == Owner(Tok(q)) IN
    /\ pc[t] \in {"wait", "done"}
    /\ pc[t] = "wait" => Tok(q) = Stamp(t) /\ q.base = base[t]
    /\ \A i \in DOMAIN hist : Owner(hist[i]) # t
    /\ \A r \in net : Owner(Tok(r)) = t => r = q
    /\ Tok(q) \notin applied
    /\ q.base \in applied \cup {NoRev}
    /\ q.create => q.base = NoRev
    /\ q.payload.log = Newest(q.payload.built)
    /\ q.base = NoRev => q.payload.built = <<Tok(q)>>
    /\ q.base # NoRev /\ q.base = point.rev =>
         q.payload.built = Append(hist, Tok(q))

\* Nobody is answered before the end.
AnsweredOnce == \A t \in Tasks : pc[t] # "done" => result[t] = "none"

\* What keeps the writes safe, inductive together.
WriteInv ==
  /\ TypeOK /\ NoLostUpdate /\ AtMostOnce /\ TruthfulOutcome
  /\ LogOfHistory /\ FreshBeforeRead /\ AppliedAfterBase /\ RequestsFresh
  /\ AnsweredOnce

\* The strengthening under which TurnBound is inductive.
\* The calls that were made; there are finitely many at any time.
Started == {t \in Tasks : pc[t] \in {"gate", "read", "wait"} \/ result[t] # "none"}

\* A lock is held by a call of its client that is under way, the access lock
\* through the whole of an increment; and what outlives its call is told.
LocksHeld ==
  /\ \A c \in Clients, t \in Tasks : writeLock[c] = t =>
       Client[t] = c /\ Kind[t] # "bump" /\ pc[t] \in {"read", "wait"}
  /\ \A c \in Clients, b \in Tasks : accessLock[c] = b =>
       Client[b] = c /\ Kind[b] = "bump" /\ pc[b] \in {"gate", "read", "wait"}
  /\ \A b \in Tasks : Kind[b] = "bump" /\ pc[b] \in {"gate", "read", "wait"} =>
       accessLock[Client[b]] = b
  /\ \A t \in Tasks : pc[t] = "idle" => intruded[t] = 0
  /\ \A q \in net : pc[Owner(Tok(q))] = "done" =>
       result[Owner(Tok(q))] \in {"cut", "unconfirmed"}
  /\ deleting \subseteq Deletes
  /\ IsFiniteSet(Started)

\* The increments of a client that may still be applied: those given up on
\* with a request on its way, and the one under way, if it is past the gate
\* and not in the point.
MayIntrude(c) ==
  {b \in Tasks :
     /\ Kind[b] = "bump" /\ Client[b] = c
     /\ \/ b \in AbandonedBumps(c) /\ \E q \in net : Owner(Tok(q)) = b
        \/ pc[b] \in {"read", "wait"} /\ \A i \in DOMAIN hist : Owner(hist[i]) # b}

\* In a writer's turn, what came in and what may still come in is within the
\* bound; a delete counts once it is processed.
Spent == Deletes \ deleting
TurnBudget ==
  \A t \in Tasks : writeLock[Client[t]] = t =>
    intruded[t] + Cardinality(MayIntrude(Client[t]))
      <= 1 + Cardinality(AbandonedBumps(Client[t])) + Cardinality(Spent)

\* The parts above, inductive together.
AccessInv == LocksHeld /\ TurnBudget /\ TurnBound
CasInv == WriteInv /\ AccessInv

\* The lock that a call waits for next is free, or it waits for none.
Unblocked(t) ==
  \/ pc[t] \in {"read", "wait"}
  \/ pc[t] = "gate" /\ writeLock[Client[t]] = Nobody
  \/ pc[t] = "idle" /\ Kind[t] = "bump" /\ accessLock[Client[t]] = Nobody
  \/ pc[t] = "idle" /\ Kind[t] # "bump" /\ writeLock[Client[t]] = Nobody

\* A client with calls to make has one that no lock holds up: an increment
\* waits for the write lock with the access lock in hand, and no writer ever
\* waits for the access lock.
LocksNeverBlock ==
  \A t \in Tasks : pc[t] # "done" =>
    \E u \in Tasks : Client[u] = Client[t] /\ Unblocked(u)

\* The bounded retries end and the two locks never block each other: every
\* call returns to its caller.
Returns == \A t \in Tasks : <>(pc[t] = "done")

-----------------------------------------------------------------------------
(* The memory that callers may believe they have *)

Calls(built) == [i \in DOMAIN built |-> Owner(built[i])]
AtomicMem == [live |-> point.live, calls |-> Calls(point.built)]
Atomic == INSTANCE AtomicMemory
            WITH mem <- AtomicMem, ever <- {Owner(rev) : rev \in applied},
                 told <- result

\* traits.rs, "Concurrent writers": to its callers the protocol is a memory
\* changed by whole calls, one at a time.
ImplementsAtomicMemory == Atomic!Spec

=============================================================================
