--------------------------- MODULE CasStoreProofs ---------------------------
(***************************************************************************)
(* Proofs about CasStore, for any number of calls and clients and any      *)
(* bounds on the log and on the attempts.                                  *)
(***************************************************************************)
EXTENDS CasStore, FiniteSetTheorems, SequenceTheorems, TLAPS

-----------------------------------------------------------------------------
(* Lemmas about the operators *)

\* A revision token names its call and an attempt.
LEMMA RevShape ==
  /\ NoRev \notin Revs
  /\ \A rev \in Revs : Owner(rev) \in Tasks /\ rev[2] \in 0 .. MaxWriteAttempts - 1
  /\ \A rev \in Revs : rev = <<rev[1], rev[2]>>
  BY DEF NoRev, Revs, Owner

\* The newest entries of a log form a log.
LEMMA NewestType ==
  ASSUME NEW S, NEW s \in Seq(S)
  PROVE  /\ Newest(s) \in Seq(S)
         /\ Len(Newest(s)) = IF Len(s) <= RevLogLen THEN Len(s) ELSE RevLogLen
         /\ \A i \in 1 .. Len(Newest(s)) :
              Newest(s)[i] = s[i + (Len(s) - Len(Newest(s)))]
  <1>1. CASE Len(s) <= RevLogLen
    BY <1>1 DEF Newest
  <1>2. CASE Len(s) > RevLogLen
    <2> DEFINE m == Len(s) - RevLogLen + 1
    <2>1. /\ Len(s) \in Nat /\ RevLogLen \in Nat
          /\ m \in 1 .. Len(s) + 1 /\ m > 1
          /\ Len(s) - m + 1 = RevLogLen
      BY <1>2, CasAssumption, LenProperties
    <2>2. Newest(s) = SubSeq(s, m, Len(s))
      BY <1>2, <2>1 DEF Newest
    <2>3. /\ SubSeq(s, m, Len(s)) \in Seq(S)
          /\ Len(SubSeq(s, m, Len(s))) = RevLogLen
          /\ \A i \in 1 .. RevLogLen : SubSeq(s, m, Len(s))[i] = s[m + i - 1]
      BY <2>1, SubSeqProperties
    <2>4. \A i \in 1 .. RevLogLen : m + i - 1 = i + (Len(s) - RevLogLen)
      BY <2>1
    <2>5. QED
      BY <1>2, <2>1, <2>2, <2>3, <2>4
  <1>3. QED
    BY <1>1, <1>2, CasAssumption

\* Truncating before or after an append is the same: rev_log, rebuilt from
\* the truncated log that was read, is the tail of the whole history.
LEMMA NewestAppend ==
  ASSUME NEW S, NEW s \in Seq(S), NEW x \in S
  PROVE  Newest(Append(Newest(s), x)) = Newest(Append(s, x))
  <1> DEFINE n == Newest(s)
             p == Append(n, x)
             q == Append(s, x)
             a == Newest(p)
             b == Newest(q)
  <1>1. /\ n \in Seq(S)
        /\ Len(n) = IF Len(s) <= RevLogLen THEN Len(s) ELSE RevLogLen
        /\ \A i \in 1 .. Len(n) : n[i] = s[i + (Len(s) - Len(n))]
    BY NewestType
  <1>2. /\ p \in Seq(S) /\ Len(p) = Len(n) + 1 /\ p[Len(n) + 1] = x
        /\ \A i \in 1 .. Len(n) : p[i] = n[i]
    BY <1>1, AppendProperties
  <1>3. /\ q \in Seq(S) /\ Len(q) = Len(s) + 1 /\ q[Len(s) + 1] = x
        /\ \A i \in 1 .. Len(s) : q[i] = s[i]
    BY AppendProperties
  <1> HIDE DEF n, p, q
  <1>4. /\ a \in Seq(S)
        /\ Len(a) = IF Len(p) <= RevLogLen THEN Len(p) ELSE RevLogLen
        /\ \A i \in 1 .. Len(a) : a[i] = p[i + (Len(p) - Len(a))]
    BY <1>2, NewestType
  <1>5. /\ b \in Seq(S)
        /\ Len(b) = IF Len(q) <= RevLogLen THEN Len(q) ELSE RevLogLen
        /\ \A i \in 1 .. Len(b) : b[i] = q[i + (Len(q) - Len(b))]
    BY <1>3, NewestType
  <1> HIDE DEF a, b
  <1>6. /\ RevLogLen \in Nat \ {0} /\ Len(s) \in Nat /\ Len(n) \in Nat
        /\ Len(a) \in Nat /\ Len(b) \in Nat
    BY <1>1, <1>4, <1>5, CasAssumption, LenProperties
  <1>7. Len(a) = Len(b)
    BY <1>1, <1>2, <1>3, <1>4, <1>5, <1>6
  <1>8. ASSUME NEW i \in 1 .. Len(a)
        PROVE  a[i] = b[i]
    <2> DEFINE j == i + (Len(p) - Len(a))
               k == i + (Len(q) - Len(a))
    <2>1. a[i] = p[j] /\ b[i] = q[k]
      BY <1>4, <1>5, <1>7
    <2>2. /\ j \in 1 .. Len(n) + 1 /\ k \in 1 .. Len(s) + 1
          /\ k = j + (Len(s) - Len(n))
      <3>1. /\ Len(p) = Len(n) + 1 /\ Len(q) = Len(s) + 1
            /\ Len(n) <= Len(s)
        BY <1>1, <1>2, <1>3, <1>6
      <3>2. Len(a) <= Len(n) + 1
        BY <3>1, <1>4, <1>6
      <3>3. i \in Int /\ 1 <= i /\ i <= Len(a)
        BY <1>6
      <3>4. QED
        BY <3>1, <3>2, <3>3, <1>6
    <2> HIDE DEF j, k
    <2>3. CASE j = Len(n) + 1
      BY <2>1, <2>2, <2>3, <1>2, <1>3, <1>6
    <2>4. CASE j \in 1 .. Len(n)
      <3>1. k \in 1 .. Len(s)
        BY <2>2, <2>4, <1>6
      <3>2. p[j] = s[k]
        BY <2>2, <2>4, <1>1, <1>2
      <3>3. q[k] = s[k]
        BY <3>1, <1>3
      <3>4. QED
        BY <2>1, <3>2, <3>3
    <2>5. QED
      BY <2>2, <2>3, <2>4, <1>6
  <1>9. a = b
    BY <1>4, <1>5, <1>7, <1>8, SeqEqual
  <1>10. QED
    BY <1>9 DEF a, b, p, q, n

\* A short log is complete.
LEMMA NewestShort ==
  ASSUME NEW S, NEW s \in Seq(S), Len(Newest(s)) < RevLogLen
  PROVE  Newest(s) = s
  BY NewestType, CasAssumption DEF Newest

\* What a call stamps and sends is a well-formed request.
LEMMA RequestType ==
  ASSUME TypeOK, NEW t \in Tasks
  PROVE  Request(t, point) \in Requests /\ Stamp(t) \in Revs
  <1>1. Stamp(t) \in Revs
    BY DEF TypeOK, Stamp, Revs
  <1>2. /\ point.log \in Seq(Revs) /\ point.built \in Seq(Revs)
        /\ point.live \in BOOLEAN /\ point.rev \in Revs \cup {NoRev}
    BY DEF TypeOK, Points
  <1>3. /\ Append(point.log, Stamp(t)) \in Seq(Revs)
        /\ Append(point.built, Stamp(t)) \in Seq(Revs)
    BY <1>1, <1>2, AppendProperties
  <1>4. Newest(Append(point.log, Stamp(t))) \in Seq(Revs)
    BY <1>3, NewestType
  <1>5. QED
    BY <1>1, <1>2, <1>3, <1>4 DEF Request, Requests, Stamped, Payloads

\* Returning keeps the types.
LEMMA FinishType ==
  ASSUME TypeOK, NEW t \in Tasks,
         NEW r \in {"landed", "skipped", "absent", "deleted", "unconfirmed",
                    "lost", "failed", "cut", "erased"},
         Finish(t, r)
  PROVE  /\ pc' \in [Tasks -> {"idle", "gate", "read", "wait", "done"}]
         /\ result' \in [Tasks -> {"none", "landed", "skipped", "absent", "deleted",
                           "unconfirmed", "lost", "failed", "cut", "erased"}]
         /\ writeLock' \in [Clients -> Tasks \cup {Nobody}]
         /\ accessLock' \in [Clients -> Tasks \cup {Nobody}]
  BY DEF TypeOK, Finish

\* Init is well typed.
LEMMA InitType == Init => TypeOK
  <1> SUFFICES ASSUME Init PROVE TypeOK
    OBVIOUS
  <1>1. <<>> \in Seq(Revs)
    BY EmptySeq
  <1>2. point \in Points
    <2>1. Gone \in Points
      BY <1>1 DEF Gone, Points
    <2>2. Legacy \in Points
      BY <1>1 DEF Gone, Legacy, Points
    <2>3. QED
      BY <2>1, <2>2 DEF Init
  <1>3. QED
    BY <1>1, <1>2, CasAssumption DEF Init, TypeOK

\* Every step keeps the types.
LEMMA NextType == TypeOK /\ [Next]_vars => TypeOK'
  <1> SUFFICES ASSUME TypeOK, [Next]_vars PROVE TypeOK'
    OBVIOUS
  <1> USE DEF storeVars, taskVars, lockVars, ghostVars
  <1>1. ASSUME NEW t \in Tasks, TakeWriteLock(t) PROVE TypeOK'
    BY <1>1 DEF TypeOK, TakeWriteLock
  <1>2. ASSUME NEW t \in Tasks, TakeAccessLock(t) PROVE TypeOK'
    BY <1>2 DEF TypeOK, TakeAccessLock
  <1>3. ASSUME NEW t \in Tasks, PassGate(t) PROVE TypeOK'
    BY <1>3 DEF TypeOK, PassGate
  <1>4. ASSUME NEW t \in Tasks, ReadAndSend(t) PROVE TypeOK'
    <2>1. Request(t, point) \in Requests /\ point.rev \in Revs \cup {NoRev}
      BY RequestType DEF TypeOK, Points
    <2>2. QED
      BY <1>4, <2>1 DEF TypeOK, ReadAndSend
  <1>5. ASSUME NEW t \in Tasks, Decline(t) PROVE TypeOK'
    BY <1>5, FinishType DEF TypeOK, Decline
  <1>6. ASSUME NEW t \in Tasks, FindAbsent(t) PROVE TypeOK'
    BY <1>6, FinishType DEF TypeOK, FindAbsent
  <1>7. ASSUME NEW t \in Tasks, ReadBack(t) PROVE TypeOK'
    <2>1. /\ UNCHANGED <<storeVars, base, ghostVars>>
          /\ \/ \E r \in {"landed", "deleted", "unconfirmed", "lost"} : Finish(t, r)
                /\ UNCHANGED round
             \/ /\ round[t] + 1 < MaxWriteAttempts
                /\ round' = [round EXCEPT ![t] = @ + 1]
                /\ pc' = [pc EXCEPT ![t] = "read"]
                /\ UNCHANGED <<result, lockVars>>
      BY <1>7 DEF ReadBack
    <2>2. CASE \E r \in {"landed", "deleted", "unconfirmed", "lost"} :
                 Finish(t, r) /\ UNCHANGED round
      BY <2>1, <2>2, FinishType DEF TypeOK
    <2>3. CASE /\ round[t] + 1 < MaxWriteAttempts
               /\ round' = [round EXCEPT ![t] = @ + 1]
               /\ pc' = [pc EXCEPT ![t] = "read"]
               /\ UNCHANGED <<result, lockVars>>
      <3>1. round[t] + 1 \in 0 .. MaxWriteAttempts - 1
        BY <2>3, CasAssumption DEF TypeOK
      <3>2. QED
        BY <2>1, <2>3, <3>1 DEF TypeOK
    <2>4. QED
      BY <2>1, <2>2, <2>3
  <1>8. ASSUME NEW t \in Tasks, DeleteAnswered(t) PROVE TypeOK'
    BY <1>8, FinishType DEF TypeOK, DeleteAnswered
  <1>9. ASSUME NEW t \in Tasks, ApplyDelete(t) PROVE TypeOK'
    <2>1. <<>> \in Seq(Revs)
      BY EmptySeq
    <2>2. Gone \in Points
      BY <2>1 DEF Gone, Points
    <2>3. QED
      BY <1>9, <2>1, <2>2 DEF TypeOK, ApplyDelete
  <1>10. ASSUME NEW q \in net, Apply(q) PROVE TypeOK'
    <2>1. q.payload \in Points /\ Tok(q) \in Revs
      BY DEF TypeOK, Requests, Payloads, Points, Tok
    <2>2. CASE ~Matches(q)
      BY <1>10, <2>2 DEF TypeOK, Apply
    <2>3. CASE Matches(q)
      <3> hist \in Seq(Revs) /\ applied \in SUBSET Revs
        BY DEF TypeOK
      <3>0. hist' = Append(hist, Tok(q)) /\ applied' = applied \cup {Tok(q)}
        BY <1>10, <2>3 DEF Apply
      <3>1. hist' \in Seq(Revs) /\ applied' \in SUBSET Revs
        BY <2>1, <3>0, AppendProperties
      <3>2. intruded' \in [Tasks -> Nat]
        BY <1>10, <2>3 DEF TypeOK, Apply
      <3>3. QED
        BY <1>10, <2>1, <2>3, <3>1, <3>2 DEF TypeOK, Apply
    <2>4. QED
      BY <2>2, <2>3
  <1>11. ASSUME NEW t \in Tasks, Fault(t) PROVE TypeOK'
    BY <1>11, FinishType DEF TypeOK, Fault, SendFails, Abort, CutOff
  <1>12. CASE UNCHANGED vars
    BY <1>12 DEF TypeOK, vars
  <1>13. QED
    BY <1>1, <1>2, <1>3, <1>4, <1>5, <1>6, <1>7, <1>8, <1>9, <1>10, <1>11, <1>12
       DEF Next, Step, Serve

\* The state is always well typed.
THEOREM TypeCorrect == Spec => []TypeOK
  BY InitType, NextType, PTL DEF Spec

-----------------------------------------------------------------------------
(* The inductive invariant *)

\* The verdict No is sound for the point as it is: had the write landed, its
\* token would follow the revision it read, and the log, which still holds
\* that revision, would hold it too.
LEMMA NoVerdict ==
  ASSUME WriteInv, NEW t \in Tasks, pc[t] = "wait",
         Landed(base[t], point, Stamp(t)) = "no"
  PROVE  \A i \in DOMAIN hist : Owner(hist[i]) # t
  <1> DEFINE log == Newest(hist)
             d == Len(hist) - Len(log)
  <1>1. /\ point.log = log
        /\ Stamp(t) \notin Members(log)
        /\ IF base[t] # NoRev THEN base[t] \in Members(log) ELSE Len(log) < RevLogLen
    BY DEF WriteInv, LogOfHistory, Landed
  <1>2. /\ hist \in Seq(Revs) /\ Len(hist) \in Nat /\ DOMAIN hist = 1 .. Len(hist)
    BY LenProperties DEF WriteInv, TypeOK
  <1>3. /\ log \in Seq(Revs) /\ Len(log) \in Nat /\ DOMAIN log = 1 .. Len(log)
        /\ Len(log) <= Len(hist)
        /\ \A i \in 1 .. Len(log) : log[i] = hist[i + d]
    BY <1>2, NewestType, LenProperties, CasAssumption
  <1> HIDE DEF log
  <1> SUFFICES ASSUME NEW i \in 1 .. Len(hist), Owner(hist[i]) = t
               PROVE  FALSE
    BY <1>2
  <1>4. /\ hist[i] = Stamp(t)
        /\ i = 1 => base[t] = NoRev
        /\ i > 1 => base[t] = hist[i - 1]
    BY <1>2 DEF WriteInv, AppliedAfterBase
  <1>5. CASE base[t] = NoRev
    <2>1. log = hist
      BY <1>1, <1>2, <1>5, NewestShort DEF log
    <2>2. QED
      BY <1>1, <1>2, <1>4, <2>1 DEF Members
  <1>6. CASE base[t] # NoRev
    <2>1. i > 1 /\ i - 1 \in 1 .. Len(hist) /\ base[t] = hist[i - 1]
      BY <1>2, <1>4, <1>6
    <2>2. PICK k \in 1 .. Len(log) : base[t] = log[k]
      BY <1>1, <1>3, <1>6 DEF Members
    <2>3. k + d \in 1 .. Len(hist) /\ hist[k + d] = hist[i - 1]
      BY <1>2, <1>3, <2>1, <2>2
    <2>4. k + d = i - 1
      BY <1>2, <2>1, <2>3 DEF WriteInv, AtMostOnce
    <2>5. k + 1 \in 1 .. Len(log) /\ (k + 1) + d = i
      BY <1>2, <1>3, <2>4
    <2>6. log[k + 1] = Stamp(t)
      BY <1>3, <1>4, <2>5
    <2>7. QED
      BY <1>1, <1>3, <2>5, <2>6 DEF Members
  <1>7. QED
    BY <1>5, <1>6

\* Returning from a call with a true answer keeps the invariant.
LEMMA FinishInv ==
  ASSUME WriteInv, TypeOK', NEW t \in Tasks, NEW r, Finish(t, r),
         UNCHANGED <<point, net, round, base, hist, applied>>,
         r = "landed" => \E rev \in applied : Owner(rev) = t,
         r \in Denials => /\ \A i \in DOMAIN hist : Owner(hist[i]) # t
                         /\ \A q \in net : Owner(Tok(q)) # t
  PROVE  WriteInv'
  <1> USE DEF WriteInv
  <1>1. /\ pc' = [pc EXCEPT ![t] = "done"] /\ result' = [result EXCEPT ![t] = r]
        /\ pc \in [Tasks -> {"idle", "gate", "read", "wait", "done"}]
        /\ DOMAIN result = Tasks
    BY DEF Finish, TypeOK
  <1>2. NoLostUpdate' /\ AtMostOnce' /\ LogOfHistory'
    BY DEF NoLostUpdate, AtMostOnce, LogOfHistory
  <1>3. TruthfulOutcome'
    BY <1>1 DEF TruthfulOutcome
  <1>4. FreshBeforeRead'
    BY <1>1 DEF FreshBeforeRead
  <1>5. AppliedAfterBase'
    BY <1>1 DEF AppliedAfterBase, Stamp
  <1>6. RequestsFresh'
    <2> SUFFICES ASSUME NEW q \in net
                 PROVE  /\ pc'[Owner(Tok(q))] \in {"wait", "done"}
                        /\ pc'[Owner(Tok(q))] = "wait" => pc[Owner(Tok(q))] = "wait"
      BY DEF RequestsFresh, Stamp
    <2>1. pc[Owner(Tok(q))] \in {"wait", "done"} /\ Owner(Tok(q)) \in Tasks
      BY RevShape DEF RequestsFresh, TypeOK, Requests, Payloads, Tok
    <2>2. QED
      BY <1>1, <2>1
  <1>7. AnsweredOnce'
    BY <1>1 DEF AnsweredOnce
  <1>8. QED
    BY <1>2, <1>3, <1>4, <1>5, <1>6, <1>7

\* Taking a lock, or passing the gate, keeps the invariant.
LEMMA TurnInv ==
  ASSUME WriteInv, TypeOK', NEW t \in Tasks, NEW p \in {"gate", "read", "wait"},
         pc[t] \in {"idle", "gate"}, pc' = [pc EXCEPT ![t] = p],
         UNCHANGED <<point, net, round, base, result, hist, applied>>
  PROVE  WriteInv'
  <1> USE DEF WriteInv
  <1>1. pc \in [Tasks -> {"idle", "gate", "read", "wait", "done"}] /\ round[t] \in Nat
    BY DEF TypeOK
  <1>2. /\ \A i \in DOMAIN hist : Owner(hist[i]) # t
        /\ \A q \in net : Owner(Tok(q)) # t
        /\ \A rev \in applied : Owner(rev) = t => rev[2] < round[t]
    BY DEF FreshBeforeRead
  <1>3. NoLostUpdate' /\ AtMostOnce' /\ LogOfHistory'
    BY DEF NoLostUpdate, AtMostOnce, LogOfHistory
  <1>4. TruthfulOutcome' /\ AnsweredOnce'
    BY <1>1 DEF TruthfulOutcome, AnsweredOnce
  <1>5. FreshBeforeRead'
    BY <1>1, <1>2 DEF FreshBeforeRead
  <1>6. AppliedAfterBase'
    <2>1. \A rev \in applied : Owner(rev) = t => rev[2] <= round[t]
      BY <1>1, <1>2, RevShape DEF TypeOK
    <2>2. QED
      BY <1>1, <1>2, <2>1 DEF AppliedAfterBase, Stamp
  <1>7. RequestsFresh'
    <2> SUFFICES ASSUME NEW q \in net
                 PROVE  pc'[Owner(Tok(q))] = pc[Owner(Tok(q))]
      BY DEF RequestsFresh, Stamp
    <2>1. Owner(Tok(q)) # t
      BY <1>2
    <2>2. QED
      BY <1>1, <2>1
  <1>8. QED
    BY <1>3, <1>4, <1>5, <1>6, <1>7

\* Going round again after a lost race keeps the invariant.
LEMMA RetryInv ==
  ASSUME WriteInv, TypeOK', NEW t \in Tasks, ReadBack(t),
         Landed(base[t], point, Stamp(t)) = "no",
         round' = [round EXCEPT ![t] = @ + 1], pc' = [pc EXCEPT ![t] = "read"],
         UNCHANGED result
  PROVE  WriteInv'
  <1> USE DEF WriteInv
  <1>1. /\ UNCHANGED <<point, net, base, hist, applied>>
        /\ pc[t] = "wait" /\ \A q \in net : Tok(q) # Stamp(t)
    BY DEF ReadBack, storeVars, ghostVars
  <1>2. /\ pc \in [Tasks -> {"idle", "gate", "read", "wait", "done"}]
        /\ round \in [Tasks -> Nat] /\ round' \in [Tasks -> Nat]
        /\ \A u \in Tasks \ {t} : pc'[u] = pc[u] /\ round'[u] = round[u]
        /\ pc'[t] = "read" /\ round'[t] = round[t] + 1
    BY DEF TypeOK
  <1>3. \A i \in DOMAIN hist : Owner(hist[i]) # t
    BY <1>1, NoVerdict
  <1>4. \A q \in net : Owner(Tok(q)) # t
    BY <1>1 DEF RequestsFresh
  <1>5. \A rev \in applied : Owner(rev) = t => rev[2] <= round[t]
    BY <1>1 DEF AppliedAfterBase
  <1>6. NoLostUpdate' /\ AtMostOnce' /\ LogOfHistory'
    BY <1>1 DEF NoLostUpdate, AtMostOnce, LogOfHistory
  <1>7. TruthfulOutcome' /\ AnsweredOnce'
    BY <1>1, <1>2 DEF TruthfulOutcome, AnsweredOnce
  <1>8. FreshBeforeRead'
    <2>1. \A rev \in applied : Owner(rev) = t => rev[2] < round'[t]
      BY <1>2, <1>5, RevShape DEF TypeOK
    <2>2. QED
      BY <1>1, <1>2, <1>3, <1>4, <2>1 DEF FreshBeforeRead
  <1>9. AppliedAfterBase'
    BY <1>1, <1>2 DEF AppliedAfterBase, Stamp
  <1>10. RequestsFresh'
    <2> SUFFICES ASSUME NEW q \in net
                 PROVE  /\ pc'[Owner(Tok(q))] = pc[Owner(Tok(q))]
                        /\ round'[Owner(Tok(q))] = round[Owner(Tok(q))]
      BY <1>1 DEF RequestsFresh, Stamp
    <2>1. Owner(Tok(q)) \in Tasks \ {t}
      BY <1>4, RevShape DEF TypeOK, Requests, Payloads, Tok
    <2>2. QED
      BY <1>2, <2>1
  <1>11. QED
    BY <1>6, <1>7, <1>8, <1>9, <1>10

\* Qdrant deleting the point keeps the invariant: nothing matches any more.
LEMMA DeleteInv ==
  ASSUME WriteInv, TypeOK', NEW t \in Tasks, ApplyDelete(t)
  PROVE  WriteInv'
  <1> USE DEF WriteInv
  <1>1. /\ point' = Gone /\ hist' = <<>>
        /\ UNCHANGED <<net, pc, round, base, result, applied>>
    BY DEF ApplyDelete, taskVars
  <1>2. DOMAIN hist' = {} /\ Len(hist') = 0 /\ Newest(hist') = <<>>
    BY <1>1, CasAssumption DEF Newest
  <1>3. NoLostUpdate' /\ AtMostOnce'
    BY <1>1, <1>2 DEF NoLostUpdate, AtMostOnce, Gone
  <1>4. LogOfHistory'
    BY <1>1, <1>2 DEF LogOfHistory, Gone
  <1>5. TruthfulOutcome' /\ AnsweredOnce'
    BY <1>1, <1>2 DEF TruthfulOutcome, AnsweredOnce
  <1>6. FreshBeforeRead' /\ AppliedAfterBase'
    BY <1>1, <1>2 DEF FreshBeforeRead, AppliedAfterBase, Stamp
  <1>7. RequestsFresh'
    <2>1. point'.rev = NoRev
      BY <1>1 DEF Gone
    <2>2. QED
      BY <1>1, <1>2, <2>1 DEF RequestsFresh, Stamp
  <1>8. QED
    BY <1>3, <1>4, <1>5, <1>6, <1>7

\* Reading the point and sending the write built from it keeps the invariant.
LEMMA SendInv ==
  ASSUME WriteInv, TypeOK', NEW t \in Tasks, ReadAndSend(t)
  PROVE  WriteInv'
  <1> USE DEF WriteInv
  <1> DEFINE new == Request(t, point)
             tok == Stamp(t)
  <1>1. /\ UNCHANGED <<point, round, result, hist, applied>>
        /\ base' = [base EXCEPT ![t] = point.rev] /\ net' = net \cup {new}
        /\ pc[t] = "read" /\ pc' = [pc EXCEPT ![t] = "wait"]
    BY DEF ReadAndSend, ghostVars, lockVars
  <1>2. /\ pc \in [Tasks -> {"idle", "gate", "read", "wait", "done"}]
        /\ round \in [Tasks -> Nat] /\ base \in [Tasks -> Revs \cup {NoRev}]
        /\ hist \in Seq(Revs) /\ Len(hist) \in Nat /\ DOMAIN hist = 1 .. Len(hist)
        /\ point \in Points
    BY LenProperties DEF TypeOK
  <1>3. /\ \A i \in DOMAIN hist : Owner(hist[i]) # t
        /\ \A q \in net : Owner(Tok(q)) # t
        /\ \A rev \in applied : Owner(rev) = t => rev[2] < round[t]
    BY <1>1 DEF FreshBeforeRead
  <1>4. /\ Owner(tok) = t /\ tok[2] = round[t] /\ tok \in Revs
        /\ tok \notin applied
    <2>1. Owner(tok) = t /\ tok[2] = round[t] /\ tok \in Revs
      BY RequestType DEF Stamp, Owner
    <2>2. QED
      BY <1>2, <1>3, <2>1
  <1>5. /\ Tok(new) = tok /\ new.base = point.rev /\ new.create = ~point.live
        /\ new.payload.log = Newest(Append(point.log, tok))
        /\ new.payload.built = Append(point.built, tok)
    BY DEF Request, Stamped, Tok
  <1>6. /\ point.built = hist /\ point.log = Newest(hist)
        /\ point.rev = IF hist = <<>> THEN NoRev ELSE hist[Len(hist)]
        /\ ~point.live => hist = <<>>
    BY DEF NoLostUpdate, LogOfHistory
  <1> HIDE DEF new, tok
  <1>7. NoLostUpdate' /\ AtMostOnce' /\ LogOfHistory'
    BY <1>1 DEF NoLostUpdate, AtMostOnce, LogOfHistory
  <1>8. TruthfulOutcome' /\ AnsweredOnce'
    <2>1. result[t] = "none"
      BY <1>1 DEF AnsweredOnce
    <2>2. AnsweredOnce'
      BY <1>1, <1>2 DEF AnsweredOnce
    <2>3. TruthfulOutcome'
      BY <1>1, <1>4, <1>5, <2>1 DEF TruthfulOutcome, Denials
    <2>4. QED
      BY <2>2, <2>3
  <1>9. FreshBeforeRead'
    BY <1>1, <1>2, <1>4, <1>5 DEF FreshBeforeRead
  <1>10. AppliedAfterBase'
    <2>1. \A rev \in applied : Owner(rev) = t => rev[2] <= round[t]
      BY <1>2, <1>3, RevShape DEF TypeOK
    <2>2. QED
      BY <1>1, <1>2, <1>3, <2>1 DEF AppliedAfterBase, Stamp
  <1>11. RequestsFresh'
    <2>1. ASSUME NEW q \in net
          PROVE  /\ Owner(Tok(q)) \in Tasks \ {t}
                 /\ pc'[Owner(Tok(q))] = pc[Owner(Tok(q))]
                 /\ base'[Owner(Tok(q))] = base[Owner(Tok(q))]
      <3>1. Owner(Tok(q)) \in Tasks \ {t}
        BY <1>3, RevShape DEF TypeOK, Requests, Payloads, Tok
      <3>2. QED
        BY <1>1, <1>2, <3>1
    <2>2. pc'[t] = "wait" /\ base'[t] = point.rev
      BY <1>1, <1>2
    <2>3. \A q, r \in net' : Owner(Tok(q)) = Owner(Tok(r)) => q = r
      BY <1>1, <1>4, <1>5, <2>1 DEF RequestsFresh
    <2>4. new.base \in applied \cup {NoRev}
      BY <1>2, <1>5, <1>6 DEF LogOfHistory
    <2>5. new.base = NoRev => hist = <<>>
      BY <1>2, <1>5, <1>6, RevShape
    <2>6. Newest(Append(point.log, tok)) = Newest(Append(hist, tok))
      BY <1>2, <1>4, <1>6, NewestAppend
    <2>7. new.base = NoRev => Append(hist, tok) = <<tok>>
      BY <2>5
    <2>8. new.create => new.base = NoRev
      BY <1>5, <1>6
    <2> SUFFICES ASSUME NEW q \in net'
                 PROVE  LET u == Owner(Tok(q)) IN
                        /\ pc'[u] \in {"wait", "done"}
                        /\ pc'[u] = "wait" => Tok(q) = Stamp(u)' /\ q.base = base'[u]
                        /\ \A i \in DOMAIN hist : Owner(hist[i]) # u
                        /\ Tok(q) \notin applied
                        /\ q.base \in applied \cup {NoRev}
                        /\ q.create => q.base = NoRev
                        /\ q.payload.log = Newest(q.payload.built)
                        /\ q.base = NoRev => q.payload.built = <<Tok(q)>>
                        /\ q.base # NoRev /\ q.base = point.rev =>
                             q.payload.built = Append(hist, Tok(q))
      BY <1>1, <2>3 DEF RequestsFresh
    <2>9. CASE q \in net
      BY <1>1, <2>1, <2>9 DEF RequestsFresh, Stamp
    <2>10. CASE q = new
      <3>1. Stamp(t)' = tok
        BY <1>1 DEF Stamp, tok
      <3>2. QED
        BY <1>3, <1>4, <1>5, <1>6, <2>2, <2>4, <2>6, <2>7, <2>8, <2>10, <3>1
    <2>11. QED
      BY <1>1, <2>9, <2>10
  <1>12. QED
    BY <1>7, <1>8, <1>9, <1>10, <1>11

\* Qdrant processing a conditional write keeps the invariant.
LEMMA ApplyInv ==
  ASSUME WriteInv, TypeOK', NEW q \in net, Apply(q)
  PROVE  WriteInv'
  <1> USE DEF WriteInv
  <1> DEFINE tok == Tok(q)
             t == Owner(tok)
  <1>1. /\ UNCHANGED <<pc, round, base, result>> /\ net' = net \ {q}
    BY DEF Apply, taskVars
  <1>2. /\ tok \in Revs /\ t \in Tasks /\ hist \in Seq(Revs)
        /\ Len(hist) \in Nat /\ DOMAIN hist = 1 .. Len(hist)
    BY RevShape, LenProperties DEF TypeOK, Requests, Payloads, Tok
  <1>3. /\ pc[t] \in {"wait", "done"}
        /\ pc[t] = "wait" => tok = Stamp(t) /\ q.base = base[t]
        /\ \A i \in DOMAIN hist : Owner(hist[i]) # t
        /\ \A r \in net : Owner(Tok(r)) = t => r = q
        /\ tok \notin applied
        /\ q.create => q.base = NoRev
        /\ q.payload.log = Newest(q.payload.built)
        /\ q.base = NoRev => q.payload.built = <<tok>>
        /\ q.base # NoRev /\ q.base = point.rev => q.payload.built = Append(hist, tok)
    BY DEF RequestsFresh
  <1>4. AnsweredOnce'
    BY <1>1 DEF AnsweredOnce
  <1>5. CASE ~Matches(q)
    <2>1. UNCHANGED <<point, hist, applied>>
      BY <1>5 DEF Apply, ghostVars
    <2>2. NoLostUpdate' /\ AtMostOnce' /\ LogOfHistory'
      BY <2>1 DEF NoLostUpdate, AtMostOnce, LogOfHistory
    <2>3. TruthfulOutcome' /\ FreshBeforeRead' /\ AppliedAfterBase'
      BY <1>1, <2>1 DEF TruthfulOutcome, FreshBeforeRead, AppliedAfterBase, Stamp
    <2>4. RequestsFresh'
      BY <1>1, <2>1 DEF RequestsFresh, Stamp
    <2>5. QED
      BY <1>4, <2>2, <2>3, <2>4
  <1>6. CASE Matches(q)
    <2>1. point' = q.payload /\ hist' = Append(hist, tok) /\ applied' = applied \cup {tok}
      BY <1>6 DEF Apply
    <2>2. /\ hist' \in Seq(Revs) /\ hist' # <<>> /\ Len(hist') = Len(hist) + 1
          /\ DOMAIN hist' = 1 .. Len(hist) + 1 /\ hist'[Len(hist) + 1] = tok
          /\ \A i \in 1 .. Len(hist) : hist'[i] = hist[i]
      BY <1>2, <2>1, AppendProperties, LenProperties
    <2>3. /\ point.rev = IF hist = <<>> THEN NoRev ELSE hist[Len(hist)]
          /\ ~point.live => hist = <<>>
          /\ \A i \in DOMAIN hist : hist[i] \in applied
      BY DEF LogOfHistory
    <2>4. hist = <<>> => q.base = NoRev
      BY <1>3, <1>6, <2>3 DEF Matches
    <2>5. hist # <<>> => q.base = hist[Len(hist)] /\ q.base = point.rev /\ q.base # NoRev
      <3> SUFFICES ASSUME hist # <<>> PROVE q.base = hist[Len(hist)] /\ q.base = point.rev
                                            /\ q.base # NoRev
        OBVIOUS
      <3>1. hist[Len(hist)] \in Revs
        BY <1>2
      <3>2. QED
        BY <1>6, <2>3, <3>1, RevShape DEF Matches
    <2>6. q.payload.built = hist'
      <3>1. CASE hist = <<>>
        BY <1>3, <2>1, <2>4, <3>1
      <3>2. CASE hist # <<>>
        BY <1>3, <2>1, <2>5, <3>2
      <3>3. QED
        BY <3>1, <3>2
    <2>7. NoLostUpdate'
      BY <2>1, <2>6 DEF NoLostUpdate
    <2>8. AtMostOnce'
      BY <1>2, <1>3, <2>2 DEF AtMostOnce
    <2>9. LogOfHistory'
      <3>1. point'.log = Newest(hist)'
        BY <1>3, <2>1, <2>6 DEF Newest
      <3>2. point'.rev = tok /\ point'.live
        BY <2>1 DEF Tok, TypeOK, Requests, Payloads
      <3>3. \A i \in DOMAIN hist' : hist'[i] \in applied'
        BY <1>2, <2>1, <2>2, <2>3
      <3>4. QED
        BY <1>2, <2>2, <3>1, <3>2, <3>3 DEF LogOfHistory
    <2>10. TruthfulOutcome'
      <3>1. result[t] \notin Denials
        <4> SUFFICES ASSUME result[t] \in Denials PROVE FALSE
          OBVIOUS
        <4>1. \A r \in net : Owner(Tok(r)) # t
          BY <1>2 DEF TruthfulOutcome
        <4>2. QED
          BY <1>2, <4>1
      <3>2. QED
        BY <1>1, <1>2, <2>1, <2>2, <3>1 DEF TruthfulOutcome
    <2>11. FreshBeforeRead'
      BY <1>1, <1>2, <1>3, <2>1, <2>2 DEF FreshBeforeRead
    <2>12. AppliedAfterBase'
      <3> SUFFICES ASSUME NEW u \in Tasks, pc[u] = "wait"
                   PROVE  /\ \A rev \in applied' : Owner(rev) = u => rev[2] <= round[u]
                          /\ \A i \in DOMAIN hist' : Owner(hist'[i]) = u =>
                               /\ hist'[i] = Stamp(u)
                               /\ i = 1 => base[u] = NoRev
                               /\ i > 1 => base[u] = hist'[i - 1]
        BY <1>1 DEF AppliedAfterBase, Stamp
      <3>1. /\ \A rev \in applied : Owner(rev) = u => rev[2] <= round[u]
            /\ \A i \in DOMAIN hist : Owner(hist[i]) = u =>
                 /\ hist[i] = Stamp(u)
                 /\ i = 1 => base[u] = NoRev
                 /\ i > 1 => base[u] = hist[i - 1]
        BY DEF AppliedAfterBase
      <3>2. t = u => tok[2] <= round[u]
        BY <1>3 DEF Stamp, TypeOK
      <3>3. \A rev \in applied' : Owner(rev) = u => rev[2] <= round[u]
        BY <2>1, <3>1, <3>2
      <3>4. ASSUME NEW i \in 1 .. Len(hist), Owner(hist'[i]) = u
            PROVE  /\ hist'[i] = Stamp(u)
                   /\ i = 1 => base[u] = NoRev
                   /\ i > 1 => base[u] = hist'[i - 1]
        BY <1>2, <2>2, <3>1, <3>4
      <3>5. ASSUME t = u
            PROVE  /\ tok = Stamp(u)
                   /\ Len(hist) + 1 = 1 => base[u] = NoRev
                   /\ Len(hist) + 1 > 1 => base[u] = hist'[Len(hist)]
        <4>1. tok = Stamp(u) /\ q.base = base[u]
          BY <1>3, <3>5
        <4>2. CASE hist = <<>>
          BY <1>2, <2>4, <4>1, <4>2
        <4>3. CASE hist # <<>>
          BY <1>2, <2>2, <2>5, <4>1, <4>3
        <4>4. QED
          BY <4>2, <4>3
      <3>6. QED
        BY <1>2, <2>2, <3>3, <3>4, <3>5
    <2>13. RequestsFresh'
      <3> SUFFICES ASSUME NEW r \in net, r # q
                   PROVE  /\ \A i \in DOMAIN hist' : Owner(hist'[i]) # Owner(Tok(r))
                          /\ Tok(r) \notin applied'
                          /\ r.base \in applied' \cup {NoRev}
                          /\ r.base # NoRev => r.base # point'.rev
        BY <1>1 DEF RequestsFresh, Stamp
      <3>1. Owner(Tok(r)) # t
        BY <1>3
      <3>2. r.base \in applied \cup {NoRev}
        BY DEF RequestsFresh
      <3>3. point'.rev = tok
        BY <2>1 DEF Tok
      <3>4. \A i \in DOMAIN hist : Owner(hist[i]) # Owner(Tok(r))
        BY DEF RequestsFresh
      <3>5. Tok(r) \notin applied
        BY DEF RequestsFresh
      <3>6. QED
        BY <1>2, <1>3, <2>1, <2>2, <3>1, <3>2, <3>3, <3>4, <3>5
    <2>14. QED
      BY <1>4, <2>7, <2>8, <2>9, <2>10, <2>11, <2>12, <2>13
  <1>7. QED
    BY <1>5, <1>6

\* The invariant holds at the start.
LEMMA InitInv == Init => WriteInv
  <1> SUFFICES ASSUME Init PROVE WriteInv
    OBVIOUS
  <1>1. TypeOK
    BY InitType
  <1>2. hist = <<>> /\ DOMAIN hist = {} /\ Newest(hist) = <<>> /\ net = {} /\ applied = {}
    BY CasAssumption DEF Init, Newest
  <1>3. point.built = <<>> /\ point.log = <<>> /\ point.rev = NoRev
    BY DEF Init, Gone, Legacy
  <1>4. NoLostUpdate /\ AtMostOnce /\ LogOfHistory
    BY <1>2, <1>3 DEF NoLostUpdate, AtMostOnce, LogOfHistory
  <1>5. TruthfulOutcome /\ AnsweredOnce
    BY DEF Init, TruthfulOutcome, AnsweredOnce, Denials
  <1>6. FreshBeforeRead /\ AppliedAfterBase /\ RequestsFresh
    BY <1>2 DEF Init, FreshBeforeRead, AppliedAfterBase, RequestsFresh
  <1>7. QED
    BY <1>1, <1>4, <1>5, <1>6 DEF WriteInv

\* Every step keeps the invariant.
LEMMA NextInv == WriteInv /\ [Next]_vars => WriteInv'
  <1> SUFFICES ASSUME WriteInv, [Next]_vars PROVE WriteInv'
    OBVIOUS
  <1> USE DEF storeVars, taskVars, lockVars, ghostVars
  <1>0. TypeOK /\ TypeOK'
    BY NextType DEF WriteInv
  <1>1. ASSUME NEW t \in Tasks, TakeWriteLock(t) PROVE WriteInv'
    BY <1>0, <1>1, TurnInv DEF TakeWriteLock
  <1>2. ASSUME NEW t \in Tasks, TakeAccessLock(t) PROVE WriteInv'
    BY <1>0, <1>2, TurnInv DEF TakeAccessLock
  <1>3. ASSUME NEW t \in Tasks, PassGate(t) PROVE WriteInv'
    BY <1>0, <1>3, TurnInv DEF PassGate
  <1>4. ASSUME NEW t \in Tasks, ReadAndSend(t) PROVE WriteInv'
    BY <1>0, <1>4, SendInv
  <1>5. ASSUME NEW t \in Tasks, Decline(t) PROVE WriteInv'
    BY <1>0, <1>5, FinishInv DEF Decline, WriteInv, FreshBeforeRead
  <1>6. ASSUME NEW t \in Tasks, FindAbsent(t) PROVE WriteInv'
    BY <1>0, <1>6, FinishInv DEF FindAbsent, WriteInv, FreshBeforeRead
  <1>7. ASSUME NEW t \in Tasks, ReadBack(t) PROVE WriteInv'
    <2> DEFINE verdict == Landed(base[t], point, Stamp(t))
    <2>1. /\ pc[t] = "wait" /\ UNCHANGED <<point, net, base, hist, applied>>
          /\ \A q \in net : Owner(Tok(q)) # t
      BY <1>7 DEF ReadBack, WriteInv, RequestsFresh
    <2>2. CASE verdict = "yes" /\ Finish(t, "landed") /\ UNCHANGED round
      <3>1. Stamp(t) \in Members(Newest(hist))
        BY <2>2 DEF Landed, WriteInv, LogOfHistory
      <3>2. PICK i \in DOMAIN hist : hist[i] = Stamp(t)
        <4>1. hist \in Seq(Revs)
          BY <1>0 DEF TypeOK
        <4>2. PICK k \in DOMAIN Newest(hist) : Newest(hist)[k] = Stamp(t)
          BY <3>1 DEF Members
        <4>3. /\ Newest(hist) \in Seq(Revs) /\ DOMAIN Newest(hist) = 1 .. Len(Newest(hist))
              /\ Len(hist) \in Nat /\ DOMAIN hist = 1 .. Len(hist)
          BY <4>1, NewestType, LenProperties
        <4>4. /\ Newest(hist)[k] = hist[k + (Len(hist) - Len(Newest(hist)))]
              /\ Len(Newest(hist)) \in Nat /\ Len(Newest(hist)) <= Len(hist)
          BY <4>1, <4>2, <4>3, NewestType, CasAssumption
        <4>5. k + (Len(hist) - Len(Newest(hist))) \in DOMAIN hist
          BY <4>2, <4>3, <4>4
        <4>6. QED
          BY <4>2, <4>4, <4>5
      <3>3. Owner(Stamp(t)) = t
        BY DEF Owner, Stamp
      <3>4. \E rev \in applied : Owner(rev) = t
        BY <3>2, <3>3 DEF WriteInv, LogOfHistory
      <3>5. QED
        BY <1>0, <2>1, <2>2, <3>4, FinishInv DEF Denials
    <2>3. CASE verdict = "gone" /\ Finish(t, "deleted") /\ UNCHANGED round
      <3>1. hist = <<>>
        BY <2>3 DEF Landed, WriteInv, LogOfHistory
      <3>2. QED
        BY <1>0, <2>1, <2>3, <3>1, FinishInv
    <2>4. CASE verdict = "unknown" /\ Finish(t, "unconfirmed") /\ UNCHANGED round
      BY <1>0, <2>1, <2>4, FinishInv DEF Denials
    <2>5. CASE verdict = "no" /\ Finish(t, "lost") /\ UNCHANGED round
      BY <1>0, <2>1, <2>5, NoVerdict, FinishInv
    <2>6. CASE /\ verdict = "no" /\ round' = [round EXCEPT ![t] = @ + 1]
               /\ pc' = [pc EXCEPT ![t] = "read"] /\ UNCHANGED result
      BY <1>0, <1>7, <2>6, RetryInv
    <2>7. QED
      BY <1>7, <2>2, <2>3, <2>4, <2>5, <2>6 DEF ReadBack
  <1>8. ASSUME NEW t \in Tasks, DeleteAnswered(t) PROVE WriteInv'
    BY <1>0, <1>8, FinishInv DEF DeleteAnswered, Denials
  <1>9. ASSUME NEW t \in Tasks, ApplyDelete(t) PROVE WriteInv'
    BY <1>0, <1>9, DeleteInv
  <1>10. ASSUME NEW q \in net, Apply(q) PROVE WriteInv'
    BY <1>0, <1>10, ApplyInv
  <1>11. ASSUME NEW t \in Tasks, Fault(t) PROVE WriteInv'
    <2>1. \E r \in {"unconfirmed", "failed", "cut"} :
            Finish(t, r) /\ UNCHANGED <<point, net, round, base, hist, applied>>
      BY <1>11 DEF Fault, SendFails, Abort, CutOff
    <2>2. QED
      BY <1>0, <2>1, FinishInv DEF Denials
  <1>12. CASE UNCHANGED vars
    BY <1>12 DEF vars, WriteInv, TypeOK, NoLostUpdate, AtMostOnce, TruthfulOutcome,
                 LogOfHistory, FreshBeforeRead, AppliedAfterBase, RequestsFresh,
                 AnsweredOnce, Stamp
  <1>13. QED
    BY <1>1, <1>2, <1>3, <1>4, <1>5, <1>6, <1>7, <1>8, <1>9, <1>10, <1>11, <1>12
       DEF Next, Step, Serve

-----------------------------------------------------------------------------
(* The theorems *)

\* What keeps the writes safe holds of every behaviour.
LEMMA WritesSafe == Spec => []WriteInv
  BY InitInv, NextInv, PTL DEF Spec

\* The payload of a memory is built from exactly the writes applied to it.
THEOREM NoUpdateIsLost == Spec => []NoLostUpdate
  BY WritesSafe, PTL DEF WriteInv

\* A call takes effect at most once in the life of a point.
THEOREM EffectsAreOnce == Spec => []AtMostOnce
  BY WritesSafe, PTL DEF WriteInv

\* What a caller is told about its write is true.
THEOREM OutcomesAreTruthful == Spec => []TruthfulOutcome
  BY WritesSafe, PTL DEF WriteInv

-----------------------------------------------------------------------------
(* The protocol implements the atomic memory *)

\* A request that creates the point is a store's, one that updates it comes
\* neither from an insert-only store nor from a delete, which sends none.
SentByKind ==
  /\ \A t \in Tasks : pc[t] = "read" => Kind[t] # "delete"
  /\ \A t \in Tasks : pc[t] = "gate" => Kind[t] = "bump"
  /\ \A q \in net : IF q.create THEN IsStore(Owner(Tok(q)))
                                ELSE Kind[Owner(Tok(q))] \notin {"insertOnly", "delete"}

\* The kinds of requests stay right through every step.
LEMMA KindStep == TypeOK /\ SentByKind /\ [Next]_vars => SentByKind'
  <1> SUFFICES ASSUME TypeOK, SentByKind, [Next]_vars PROVE SentByKind'
    OBVIOUS
  <1> USE DEF storeVars, taskVars, lockVars, ghostVars
  <1>1. ASSUME NEW t \in Tasks, TakeWriteLock(t) PROVE SentByKind'
    BY <1>1 DEF TypeOK, SentByKind, TakeWriteLock, IsStore, Tok, Owner
  <1>2. ASSUME NEW t \in Tasks, TakeAccessLock(t) PROVE SentByKind'
    BY <1>2 DEF TypeOK, SentByKind, TakeAccessLock, IsStore, Tok, Owner
  <1>3. ASSUME NEW t \in Tasks, PassGate(t) PROVE SentByKind'
    BY <1>3 DEF TypeOK, SentByKind, PassGate, IsStore, Tok, Owner
  <1>4. ASSUME NEW t \in Tasks, ReadAndSend(t) PROVE SentByKind'
    <2> DEFINE q == Request(t, point)
    <2>1. Owner(Tok(q)) = t /\ q.create = ~point.live
      BY DEF Request, Stamped, Stamp, Tok, Owner
    <2>2. IF q.create THEN IsStore(t) ELSE Kind[t] \notin {"insertOnly", "delete"}
      BY <1>4, <2>1 DEF ReadAndSend, SentByKind
    <2>3. \A r \in net' : r \in net \/ r = q
      BY <1>4 DEF ReadAndSend
    <2>4. \A r \in net' : IF r.create THEN IsStore(Owner(Tok(r)))
                          ELSE Kind[Owner(Tok(r))] \notin {"insertOnly", "delete"}
      BY <2>1, <2>2, <2>3 DEF SentByKind
    <2>5. \A u \in Tasks : pc'[u] = pc[u] \/ pc'[u] = "wait"
      BY <1>4 DEF ReadAndSend, TypeOK
    <2>6. QED
      BY <2>4, <2>5 DEF SentByKind, IsStore, Tok, Owner
  <1>5. ASSUME NEW t \in Tasks, NEW r, Finish(t, r), UNCHANGED net PROVE SentByKind'
    BY <1>5 DEF TypeOK, SentByKind, Finish, IsStore, Tok, Owner
  <1>6. ASSUME NEW t \in Tasks, ReadBack(t) PROVE SentByKind'
    <2>1. CASE \E r : Finish(t, r)
      BY <1>5, <1>6, <2>1 DEF ReadBack
    <2>2. CASE pc' = [pc EXCEPT ![t] = "read"]
      BY <1>6, <2>2 DEF ReadBack, TypeOK, SentByKind, IsStore, Tok, Owner
    <2>3. QED
      BY <1>6, <2>1, <2>2 DEF ReadBack
  <1>7. ASSUME NEW t \in Tasks, Decline(t) \/ FindAbsent(t) \/ DeleteAnswered(t) \/ Fault(t)
        PROVE SentByKind'
    BY <1>5, <1>7 DEF Decline, FindAbsent, DeleteAnswered, Fault, SendFails, Abort, CutOff
  <1>8. ASSUME NEW t \in Tasks, ApplyDelete(t) PROVE SentByKind'
    BY <1>8 DEF ApplyDelete, SentByKind, IsStore, Tok, Owner
  <1>9. ASSUME NEW q \in net, Apply(q) PROVE SentByKind'
    BY <1>9 DEF Apply, SentByKind, IsStore, Tok, Owner
  <1>10. CASE UNCHANGED vars
    BY <1>10 DEF vars, SentByKind, IsStore, Tok, Owner
  <1>11. QED
    BY <1>1, <1>2, <1>3, <1>4, <1>6, <1>7, <1>8, <1>9, <1>10 DEF Next, Step, Serve

\* They are right in every state.
LEMMA SentHolds == Spec => []SentByKind
  <1>1. Init => SentByKind
    BY DEF Init, SentByKind
  <1>2. QED
    BY <1>1, KindStep, TypeCorrect, PTL DEF Spec

\* At the start the atomic memory is as it may start.
LEMMA AtomicInit == Init => Atomic!Init
  <1> SUFFICES ASSUME Init PROVE Atomic!Init
    OBVIOUS
  <1>1. point.built = <<>> /\ (point.live = FALSE \/ point.live = TRUE)
    BY DEF Init, Gone, Legacy
  <1>2. Calls(point.built) = <<>>
    BY <1>1 DEF Calls
  <1>3. {Owner(rev) : rev \in applied} = {}
    BY DEF Init
  <1>4. AtomicMem \in [live : BOOLEAN, calls : {<<>>}]
    BY <1>1, <1>2 DEF AtomicMem
  <1>5. QED
    BY <1>3, <1>4 DEF Atomic!Init, Init

\* A call that returns answers the atomic memory's question truthfully.
LEMMA AtomicAnswer ==
  ASSUME WriteInv, WriteInv', NEW t \in Tasks, pc[t] # "done",
         NEW r \in {"landed", "skipped", "absent", "deleted", "unconfirmed",
                    "lost", "failed", "cut", "erased"},
         Finish(t, r), UNCHANGED <<point, hist, applied>>
  PROVE  Atomic!Next
  <1>1. result[t] = "none" /\ result' = [result EXCEPT ![t] = r] /\ result'[t] = r
    BY DEF WriteInv, AnsweredOnce, TypeOK, Finish
  <1>2. UNCHANGED <<AtomicMem, {Owner(rev) : rev \in applied}>>
    BY DEF AtomicMem, Calls, Owner
  <1>3. r = "landed" => t \in {Owner(rev) : rev \in applied}
    <2>1. r = "landed" => \E rev \in applied' : Owner(rev) = t
      BY <1>1 DEF WriteInv, TruthfulOutcome, Owner
    <2>2. QED
      BY <2>1
  <1>4. r \in Denials => ~ Atomic!PartOf(t)
    <2>1. r \in Denials => \A i \in DOMAIN hist : Owner(hist[i]) # t
      BY <1>1 DEF WriteInv, TruthfulOutcome, Owner, Denials
    <2>2. point.built = hist
      BY DEF WriteInv, NoLostUpdate
    <2>3. QED
      BY <2>1, <2>2 DEF Atomic!PartOf, AtomicMem, Calls
  <1>5. Atomic!Answer(t)
    BY <1>1, <1>2, <1>3, <1>4
       DEF Atomic!Answer, Atomic!Denials, Atomic!Unknowns, Denials
  <1>6. QED
    BY <1>5 DEF Atomic!Next

\* A conditional write that Qdrant applies is one whole call of the memory.
LEMMA AtomicApply ==
  ASSUME WriteInv, WriteInv', SentByKind, NEW q \in net, Apply(q)
  PROVE  [Atomic!Next]_(Atomic!vars)
  <1> DEFINE t == Owner(Tok(q))
  <1>1. CASE ~Matches(q)
    BY <1>1 DEF Apply, Atomic!vars, AtomicMem, Calls, Owner, ghostVars, taskVars
  <1>2. CASE Matches(q)
    <2>1. /\ point' = q.payload /\ hist' = Append(hist, Tok(q))
          /\ applied' = applied \cup {Tok(q)} /\ UNCHANGED result
      BY <1>2 DEF Apply, taskVars
    <2>2. /\ t \in Tasks /\ Tok(q) \in Revs /\ q.payload.live = TRUE
          /\ hist \in Seq(Revs) /\ point.live \in BOOLEAN
      BY RevShape DEF WriteInv, TypeOK, Requests, Payloads, Points, Tok
    <2>3. /\ {Owner(rev) : rev \in applied'} = {Owner(rev) : rev \in applied} \cup {t}
          /\ result[t] \notin Denials
      BY <2>1, <2>2 DEF WriteInv, TruthfulOutcome, Owner
    <2>4. /\ point.built = hist /\ q.payload.built = Append(hist, Tok(q))
      BY <2>1 DEF WriteInv, NoLostUpdate
    <2>5. Calls(q.payload.built) = Append(Calls(point.built), t)
      <3> DEFINE h == Append(hist, Tok(q))
      <3>1. /\ Len(hist) \in Nat /\ DOMAIN hist = 1 .. Len(hist)
            /\ DOMAIN h = 1 .. Len(hist) + 1
            /\ \A i \in 1 .. Len(hist) : h[i] = hist[i]
            /\ h[Len(hist) + 1] = Tok(q)
        BY <2>2, AppendProperties, LenProperties
      <3>2. Calls(hist) \in Seq(Tasks) /\ Len(Calls(hist)) = Len(hist)
        <4>1. \A i \in DOMAIN hist : hist[i] \in Revs /\ Owner(hist[i]) \in Tasks
          BY <2>2, RevShape, ElementOfSeq
        <4>2. Calls(hist) \in [1 .. Len(hist) -> Tasks]
          BY <3>1, <4>1 DEF Calls
        <4>3. QED
          BY <3>1, <4>2, LenProperties
      <3>3. /\ DOMAIN Append(Calls(hist), t) = 1 .. Len(hist) + 1
            /\ \A i \in 1 .. Len(hist) : Append(Calls(hist), t)[i] = Owner(hist[i])
            /\ Append(Calls(hist), t)[Len(hist) + 1] = t
        BY <2>2, <3>1, <3>2, AppendProperties, LenProperties DEF Calls
      <3>4. Append(Calls(hist), t) = [i \in 1 .. Len(hist) + 1 |-> Append(Calls(hist), t)[i]]
        <4>1. Append(Calls(hist), t) \in Seq(Tasks)
          BY <2>2, <3>2, AppendProperties
        <4>2. Append(Calls(hist), t) \in [1 .. Len(hist) + 1 -> Tasks]
          BY <3>3, <4>1, LenProperties
        <4>3. QED
          BY <4>2
      <3>5. \A i \in 1 .. Len(hist) + 1 : Owner(h[i]) = Append(Calls(hist), t)[i]
        BY <3>1, <3>3
      <3>6. QED
        BY <2>4, <3>1, <3>4, <3>5 DEF Calls
    <2>6. ~Atomic!PartOf(t)
      BY <2>4 DEF Atomic!PartOf, AtomicMem, Calls, WriteInv, RequestsFresh
    <2>7. CASE q.create /\ ~point.live
      <3>1. hist = <<>> /\ Calls(point.built) = <<>>
        BY <2>4, <2>7 DEF WriteInv, LogOfHistory, Calls
      <3>2. Calls(q.payload.built) = <<t>>
        BY <2>5, <3>1
      <3>3. Kind[t] \in {"store", "insertOnly"}
        BY <2>7 DEF SentByKind, IsStore
      <3>4. Atomic!Create(t)
        BY <2>1, <2>2, <2>3, <2>7, <3>2, <3>3
           DEF Atomic!Create, Atomic!Denials, Denials, AtomicMem
      <3>5. QED
        BY <2>2, <3>4 DEF Atomic!Next
    <2>8. CASE ~q.create /\ point.live
      <3>1. Kind[t] \notin {"insertOnly", "delete"}
        BY <2>8 DEF SentByKind
      <3>2. AtomicMem' = [live |-> TRUE, calls |-> Append(AtomicMem.calls, t)]
        BY <2>1, <2>2, <2>5 DEF AtomicMem
      <3>3. Atomic!Change(t)
        BY <2>1, <2>2, <2>3, <2>6, <2>8, <3>1, <3>2
           DEF Atomic!Change, Atomic!Denials, Denials, AtomicMem
      <3>4. QED
        BY <2>2, <3>3 DEF Atomic!Next
    <2>9. QED
      BY <1>2, <2>7, <2>8 DEF Matches
  <1>3. QED
    BY <1>1, <1>2

\* Every step of the protocol is a step of the atomic memory, or invisible.
LEMMA AtomicStep ==
  WriteInv /\ WriteInv' /\ SentByKind /\ [Next]_vars => [Atomic!Next]_(Atomic!vars)
  <1> SUFFICES ASSUME WriteInv, WriteInv', SentByKind, [Next]_vars
               PROVE  [Atomic!Next]_(Atomic!vars)
    OBVIOUS
  <1> USE DEF storeVars, taskVars, lockVars, ghostVars
  <1>1. ASSUME UNCHANGED <<point, applied, result>> PROVE UNCHANGED Atomic!vars
    BY <1>1 DEF Atomic!vars, AtomicMem, Calls, Owner
  <1>2. ASSUME NEW t \in Tasks,
               TakeWriteLock(t) \/ TakeAccessLock(t) \/ PassGate(t) \/ ReadAndSend(t)
        PROVE  UNCHANGED Atomic!vars
    BY <1>1, <1>2 DEF TakeWriteLock, TakeAccessLock, PassGate, ReadAndSend
  <1>3. ASSUME NEW t \in Tasks,
               Decline(t) \/ FindAbsent(t) \/ DeleteAnswered(t) \/ Fault(t)
        PROVE  Atomic!Next
    BY <1>3, AtomicAnswer
       DEF Decline, FindAbsent, DeleteAnswered, Fault, SendFails, Abort, CutOff
  <1>4. ASSUME NEW t \in Tasks, ReadBack(t) PROVE [Atomic!Next]_(Atomic!vars)
    BY <1>1, <1>4, AtomicAnswer DEF ReadBack
  <1>5. ASSUME NEW t \in Tasks, ApplyDelete(t) PROVE Atomic!Next
    <2>1. AtomicMem' = Atomic!Absent
      BY <1>5 DEF ApplyDelete, AtomicMem, Calls, Gone, Atomic!Absent
    <2>2. UNCHANGED <<{Owner(rev) : rev \in applied}, result>>
      BY <1>5 DEF ApplyDelete, Owner
    <2>3. QED
      BY <2>1, <2>2 DEF Atomic!Next, Atomic!Erase
  <1>6. ASSUME NEW q \in net, Apply(q) PROVE [Atomic!Next]_(Atomic!vars)
    BY <1>6, AtomicApply
  <1>7. CASE UNCHANGED vars
    BY <1>1, <1>7 DEF vars
  <1>8. QED
    BY <1>2, <1>3, <1>4, <1>5, <1>6, <1>7 DEF Next, Step, Serve

\* To its callers the protocol is a memory changed by whole calls, one at a
\* time, each at most once, with answers that agree with what they did.
THEOREM ProtocolIsAtomic == Spec => ImplementsAtomicMemory
  BY SentHolds, AtomicInit, AtomicStep, WritesSafe, PTL
     DEF Spec, ImplementsAtomicMemory, Atomic!Spec

-----------------------------------------------------------------------------
(* The turn of a writer *)

\* A set with one element more, or one less.
LEMMA OneMore ==
  ASSUME NEW T, IsFiniteSet(T), NEW x, NEW S \in SUBSET (T \cup {x})
  PROVE  /\ IsFiniteSet(S) /\ Cardinality(S) \in Nat /\ Cardinality(T) \in Nat
         /\ Cardinality(S) <= Cardinality(T) + 1
  <1>1. IsFiniteSet(T \cup {x}) /\ Cardinality(T \cup {x}) <= Cardinality(T) + 1
        /\ Cardinality(T) \in Nat /\ Cardinality(T \cup {x}) \in Nat
    BY FS_AddElement, FS_CardinalityType
  <1>2. IsFiniteSet(S) /\ Cardinality(S) <= Cardinality(T \cup {x}) /\ Cardinality(S) \in Nat
    BY <1>1, FS_Subset, FS_CardinalityType
  <1>3. QED
    BY <1>1, <1>2

LEMMA OneLess ==
  ASSUME NEW T, IsFiniteSet(T), NEW x \in T, NEW S \in SUBSET (T \ {x})
  PROVE  Cardinality(S) \in Nat /\ Cardinality(T) \in Nat
         /\ Cardinality(S) + 1 <= Cardinality(T)
  <1>1. IsFiniteSet(T \ {x}) /\ Cardinality(T \ {x}) = Cardinality(T) - 1
        /\ Cardinality(T) \in Nat /\ Cardinality(T \ {x}) \in Nat
    BY FS_RemoveElement, FS_CardinalityType
  <1>2. Cardinality(S) <= Cardinality(T \ {x}) /\ Cardinality(S) \in Nat
    BY <1>1, FS_Subset, FS_CardinalityType
  <1>3. QED
    BY <1>1, <1>2

LEMMA NoMore ==
  ASSUME NEW T, IsFiniteSet(T), NEW S \in SUBSET T
  PROVE  IsFiniteSet(S) /\ Cardinality(S) \in Nat /\ Cardinality(T) \in Nat
         /\ Cardinality(S) <= Cardinality(T)
  BY FS_Subset, FS_CardinalityType

\* What the bound counts is finite: calls that were made.
LEMMA CountsFinite ==
  ASSUME IsFiniteSet(Started), NEW c
  PROVE  /\ IsFiniteSet(AbandonedBumps(c)) /\ Cardinality(AbandonedBumps(c)) \in Nat
         /\ IsFiniteSet(MayIntrude(c)) /\ Cardinality(MayIntrude(c)) \in Nat
         /\ IsFiniteSet(Deletes) /\ Cardinality(Deletes) \in Nat
         /\ IsFiniteSet(Spent) /\ Cardinality(Spent) \in Nat
         /\ Cardinality(Spent) <= Cardinality(Deletes)
  <1>1. /\ AbandonedBumps(c) \in SUBSET Started /\ MayIntrude(c) \in SUBSET Started
        /\ Deletes \in SUBSET Started /\ Spent \in SUBSET Deletes
    BY DEF AbandonedBumps, MayIntrude, Deletes, Spent, Started
  <1>2. QED
    BY <1>1, NoMore

\* A request on its way is of a call that waits or is done.
LEMMA OwnerOfRequest ==
  ASSUME WriteInv, NEW q \in net
  PROVE  /\ Owner(Tok(q)) \in Tasks /\ pc[Owner(Tok(q))] \in {"wait", "done"}
         /\ \A i \in DOMAIN hist : Owner(hist[i]) # Owner(Tok(q))
  BY RevShape DEF WriteInv, RequestsFresh, TypeOK, Requests, Payloads, Tok

\* A call that returns, and gave up only with "cut" or "unconfirmed" on a
\* request that is on its way.
Returning(t) ==
  /\ pc[t] \in {"gate", "read", "wait"}
  /\ UNCHANGED <<point, net, deleting, hist, applied, intruded>>
  /\ \E r \in {"landed", "skipped", "absent", "deleted", "unconfirmed",
               "lost", "failed", "cut", "erased"} :
       /\ Finish(t, r)
       /\ r \in {"cut", "unconfirmed"} \/ \A q \in net : Owner(Tok(q)) # t

\* A call that goes round again.
Retrying(t) ==
  /\ pc[t] = "wait" /\ Kind[t] # "delete" /\ pc' = [pc EXCEPT ![t] = "read"]
  /\ UNCHANGED <<point, net, deleting, hist, applied, intruded, result, lockVars>>

\* The steps, as far as turns are concerned.
LEMMA TurnSteps ==
  ASSUME WriteInv, SentByKind, NEW t \in Tasks,
         ReadBack(t) \/ Decline(t) \/ FindAbsent(t) \/ DeleteAnswered(t) \/ Fault(t)
  PROVE  Returning(t) \/ Retrying(t)
  <1> USE DEF storeVars, ghostVars
  <1>1. CASE ReadBack(t)
    <2>1. /\ pc[t] = "wait" /\ Kind[t] # "delete" /\ \A q \in net : Owner(Tok(q)) # t
          /\ UNCHANGED <<point, net, deleting, hist, applied, intruded>>
      BY <1>1 DEF ReadBack, WriteInv, RequestsFresh
    <2>2. \/ \E r \in {"landed", "deleted", "unconfirmed", "lost"} : Finish(t, r)
          \/ pc' = [pc EXCEPT ![t] = "read"] /\ UNCHANGED <<result, lockVars>>
      BY <1>1 DEF ReadBack
    <2>3. QED
      BY <2>1, <2>2 DEF Returning, Retrying
  <1>2. CASE Decline(t) \/ FindAbsent(t)
    <2>1. \A q \in net : Owner(Tok(q)) # t
      BY <1>2 DEF Decline, FindAbsent, WriteInv, FreshBeforeRead
    <2>2. QED
      BY <1>2, <2>1 DEF Decline, FindAbsent, Returning
  <1>3. CASE DeleteAnswered(t)
    <2>1. \A q \in net : Owner(Tok(q)) # t
      BY <1>3 DEF DeleteAnswered, SentByKind, IsStore
    <2>2. QED
      BY <1>3, <2>1 DEF DeleteAnswered, Returning
  <1>4. CASE Fault(t)
    <2>1. CASE SendFails(t) \/ CutOff(t)
      BY <2>1 DEF SendFails, CutOff, Returning
    <2>2. CASE Abort(t)
      <3>1. \A q \in net : Owner(Tok(q)) # t
        BY <2>2 DEF Abort, WriteInv, FreshBeforeRead, RequestsFresh
      <3>2. QED
        BY <2>2, <3>1 DEF Abort, Returning
    <2>3. QED
      BY <1>4, <2>1, <2>2 DEF Fault
  <1>5. QED
    BY <1>1, <1>2, <1>3, <1>4


\* Every step is of one of these kinds.
TurnStep(t) ==
  \/ TakeWriteLock(t) \/ TakeAccessLock(t) \/ PassGate(t) \/ ReadAndSend(t)
  \/ Returning(t) \/ Retrying(t) \/ ApplyDelete(t) \/ \E q \in net : Apply(q)

LEMMA EveryStep ==
  ASSUME WriteInv, SentByKind, [Next]_vars
  PROVE  UNCHANGED vars \/ \E t \in Tasks : TurnStep(t)
  BY TurnSteps DEF Next, Step, Serve, TurnStep

\* A step changes the place and the answer of one call at most, gives one
\* answer at most, and deletes only what a delete asks for.
OfOne(t) ==
  /\ \A u \in Tasks \ {t} : pc'[u] = pc[u] /\ result'[u] = result[u]
  /\ result[t] # "none" => result'[t] = result[t]
  /\ Kind[t] = "delete" /\ pc[t] = "wait" => pc'[t] = "wait" \/ result'[t] # "none"
  /\ \/ deleting' \in SUBSET deleting
     \/ /\ deleting' = deleting \cup {t} /\ result[t] = "none"
        /\ Kind[t] = "delete" /\ pc[t] = "idle" /\ pc'[t] = "wait"

LEMMA StepOfOne ==
  ASSUME WriteInv, NEW t \in Tasks, TurnStep(t)
  PROVE  OfOne(t)
  <1> USE DEF storeVars, taskVars, lockVars, ghostVars
  <1>0. /\ pc \in [Tasks -> {"idle", "gate", "read", "wait", "done"}] /\ DOMAIN result = Tasks
        /\ \A u \in Tasks : pc[u] # "done" => result[u] = "none"
    BY DEF WriteInv, TypeOK, AnsweredOnce
  <1>1. CASE TakeWriteLock(t)
    BY <1>0, <1>1 DEF TakeWriteLock, OfOne
  <1>2. CASE TakeAccessLock(t) \/ PassGate(t) \/ ReadAndSend(t)
    BY <1>0, <1>2 DEF TakeAccessLock, PassGate, ReadAndSend, OfOne
  <1>3. CASE Returning(t)
    BY <1>0, <1>3 DEF Returning, Finish, OfOne
  <1>4. CASE Retrying(t)
    BY <1>0, <1>4 DEF Retrying, OfOne
  <1>5. CASE ApplyDelete(t) \/ \E q \in net : Apply(q)
    BY <1>0, <1>5 DEF ApplyDelete, Apply, OfOne
  <1>6. QED
    BY <1>1, <1>2, <1>3, <1>4, <1>5 DEF TurnStep

\* What was abandoned and what was deleted stays, and one call more at most
\* is started.
LEMMA CountsGrow ==
  ASSUME WriteInv, LocksHeld, NEW t \in Tasks, TurnStep(t)
  PROVE  /\ \A c : AbandonedBumps(c) \in SUBSET AbandonedBumps(c)'
         /\ Deletes \in SUBSET Deletes' /\ deleting' \in SUBSET Deletes'
         /\ Spent \in SUBSET Spent' /\ Started' \in SUBSET (Started \cup {t})
  <1>1. OfOne(t)
    BY StepOfOne
  <1>2. \A c : AbandonedBumps(c) \in SUBSET AbandonedBumps(c)'
    BY <1>1 DEF OfOne, AbandonedBumps
  <1>3. Deletes \in SUBSET Deletes'
    BY <1>1 DEF OfOne, Deletes
  <1>4. deleting' \in SUBSET Deletes'
    BY <1>1, <1>3 DEF OfOne, Deletes, LocksHeld
  <1>5. Spent \in SUBSET Spent'
    BY <1>1, <1>3 DEF OfOne, Spent, Deletes
  <1>6. Started' \in SUBSET (Started \cup {t})
    BY <1>1 DEF OfOne, Started
  <1>7. QED
    BY <1>2, <1>3, <1>4, <1>5, <1>6

\* Locks are held by calls under way, whatever happens.
LEMMA NextLocks ==
  ASSUME WriteInv, LocksHeld, NEW t \in Tasks, TurnStep(t)
  PROVE  LocksHeld'
  <1> USE DEF storeVars, taskVars, lockVars, ghostVars
  <1>0. /\ pc \in [Tasks -> {"idle", "gate", "read", "wait", "done"}]
        /\ writeLock \in [Clients -> Tasks \cup {Nobody}]
        /\ accessLock \in [Clients -> Tasks \cup {Nobody}]
        /\ intruded \in [Tasks -> Nat]
        /\ DOMAIN result = Tasks /\ Client \in [Tasks -> Clients] /\ Nobody \notin Tasks
    BY CasAssumption DEF WriteInv, TypeOK
  <1>1. deleting' \subseteq Deletes' /\ IsFiniteSet(Started')
    <2>1. IsFiniteSet(Started) /\ Started' \in SUBSET (Started \cup {t})
      BY CountsGrow DEF LocksHeld
    <2>2. QED
      BY <2>1, CountsGrow, OneMore
  <1>2. /\ \A c \in Clients, u \in Tasks : writeLock[c] = u =>
             Client[u] = c /\ Kind[u] # "bump" /\ pc[u] \in {"read", "wait"}
        /\ \A c \in Clients, b \in Tasks : accessLock[c] = b =>
             Client[b] = c /\ Kind[b] = "bump" /\ pc[b] \in {"gate", "read", "wait"}
        /\ \A b \in Tasks : Kind[b] = "bump" /\ pc[b] \in {"gate", "read", "wait"} =>
             accessLock[Client[b]] = b
        /\ \A u \in Tasks : pc[u] = "idle" => intruded[u] = 0
        /\ \A q \in net : pc[Owner(Tok(q))] = "done" =>
             result[Owner(Tok(q))] \in {"cut", "unconfirmed"}
        /\ \A q \in net : Owner(Tok(q)) \in Tasks /\ pc[Owner(Tok(q))] \in {"wait", "done"}
    BY OwnerOfRequest DEF LocksHeld
  <1>3. CASE TakeWriteLock(t)
    BY <1>0, <1>1, <1>2, <1>3 DEF TakeWriteLock, LocksHeld, Tok, Owner
  <1>4. CASE TakeAccessLock(t)
    BY <1>0, <1>1, <1>2, <1>4 DEF TakeAccessLock, LocksHeld, Tok, Owner
  <1>5. CASE PassGate(t) \/ Retrying(t)
    BY <1>0, <1>1, <1>2, <1>5 DEF PassGate, Retrying, LocksHeld, Tok, Owner
  <1>6. CASE ReadAndSend(t)
    <2>1. Owner(Tok(Request(t, point))) = t
      BY DEF Request, Stamped, Stamp, Tok, Owner
    <2>2. \A q \in net' : pc'[Owner(Tok(q))] = "done" =>
            result'[Owner(Tok(q))] \in {"cut", "unconfirmed"}
      BY <1>0, <1>2, <1>6, <2>1 DEF ReadAndSend
    <2>3. QED
      BY <1>0, <1>1, <1>2, <1>6, <2>2 DEF ReadAndSend, LocksHeld, Tok, Owner
  <1>7. CASE Returning(t)
    <2>1. PICK r : /\ Finish(t, r)
                   /\ r \in {"cut", "unconfirmed"} \/ \A q \in net : Owner(Tok(q)) # t
      BY <1>7 DEF Returning
    <2>2. \A c \in Clients, u \in Tasks :
            /\ writeLock'[c] = u => writeLock[c] = u /\ u # t
            /\ accessLock'[c] = u => accessLock[c] = u /\ u # t
      BY <1>0, <2>1 DEF Finish
    <2>3. \A b \in Tasks \ {t} : accessLock[Client[b]] = b => accessLock'[Client[b]] = b
      BY <1>0, <2>1 DEF Finish
    <2>4. /\ pc' = [pc EXCEPT ![t] = "done"] /\ result' = [result EXCEPT ![t] = r]
          /\ UNCHANGED <<net, intruded>>
      BY <1>7, <2>1 DEF Returning, Finish
    <2>5. \A q \in net : pc'[Owner(Tok(q))] = "done" =>
            result'[Owner(Tok(q))] \in {"cut", "unconfirmed"}
      BY <1>0, <1>2, <2>1, <2>4
    <2>6. QED
      BY <1>0, <1>1, <1>2, <2>2, <2>3, <2>4, <2>5 DEF LocksHeld, Tok, Owner
  <1>8. CASE ApplyDelete(t)
    BY <1>0, <1>1, <1>2, <1>8 DEF ApplyDelete, LocksHeld, Tok, Owner
  <1>9. ASSUME NEW q \in net, Apply(q) PROVE LocksHeld'
    <2>1. ASSUME NEW u \in Tasks, pc[u] = "idle" PROVE intruded'[u] = intruded[u]
      <3>1. ~IntrudesOn(q, u)
        BY <1>0, <1>2, <2>1 DEF IntrudesOn
      <3>2. QED
        BY <1>9, <3>1 DEF Apply
    <2>2. UNCHANGED <<pc, result, writeLock, accessLock>> /\ net' \in SUBSET net
      BY <1>9 DEF Apply
    <2>3. QED
      BY <1>1, <1>2, <2>1, <2>2 DEF LocksHeld, Tok, Owner
  <1>10. QED
    BY <1>3, <1>4, <1>5, <1>6, <1>7, <1>8, <1>9 DEF TurnStep

\* In the turn of a writer u that goes on, no increment of its client is
\* added to those that may be applied, unless the point is deleted.
LEMMA NoNewIntruder ==
  ASSUME WriteInv, NEW t \in Tasks, NEW u \in Tasks, writeLock[Client[u]] = u,
         TakeWriteLock(t) \/ TakeAccessLock(t) \/ PassGate(t) \/ ReadAndSend(t)
         \/ Returning(t) \/ Retrying(t)
  PROVE  MayIntrude(Client[u])' \in SUBSET MayIntrude(Client[u])
  <1> USE DEF storeVars, taskVars, lockVars, ghostVars
  <1> DEFINE c == Client[u]
             Kept(b) == \/ b \in AbandonedBumps(c) /\ \E q \in net : Owner(Tok(q)) = b
                        \/ pc[b] \in {"read", "wait"} /\ \A i \in DOMAIN hist : Owner(hist[i]) # b
  <1>0. /\ pc \in [Tasks -> {"idle", "gate", "read", "wait", "done"}]
        /\ DOMAIN result = Tasks /\ Nobody \notin Tasks /\ hist' = hist
        /\ \A v \in Tasks : pc[v] # "done" => result[v] = "none"
    BY CasAssumption DEF WriteInv, TypeOK, AnsweredOnce, TakeWriteLock, TakeAccessLock, PassGate,
       ReadAndSend, Returning, Retrying
  <1>1. SUFFICES ASSUME NEW b \in Tasks, Kind[b] = "bump", Client[b] = c,
                        \/ b \in AbandonedBumps(c)' /\ \E q \in net' : Owner(Tok(q)) = b
                        \/ pc'[b] \in {"read", "wait"} /\ \A i \in DOMAIN hist : Owner(hist[i]) # b
                 PROVE  Kept(b)
    BY <1>0 DEF MayIntrude, Owner, Tok
  <1>2. CASE b # t
    <2>1. pc'[b] = pc[b] /\ result'[b] = result[b]
      BY <1>0, <1>2 DEF TakeWriteLock, TakeAccessLock, PassGate, ReadAndSend, Returning, Finish,
         Retrying
    <2>2. \A q \in net' : Owner(Tok(q)) = b => q \in net
      <3>1. Owner(Tok(Request(t, point))) = t
        BY DEF Request, Stamped, Stamp, Tok, Owner
      <3>2. QED
        BY <1>2, <3>1 DEF TakeWriteLock, TakeAccessLock, PassGate, ReadAndSend, Returning, Retrying
    <2>3. QED
      BY <1>1, <2>1, <2>2 DEF AbandonedBumps
  <1>3. CASE b = t
    <2>1. CASE TakeWriteLock(t) \/ TakeAccessLock(t)
      BY <1>0, <1>1, <1>3, <2>1 DEF TakeWriteLock, TakeAccessLock, AbandonedBumps
    <2>2. CASE PassGate(t)
      BY <1>0, <1>1, <1>3, <2>2 DEF PassGate
    <2>3. CASE ReadAndSend(t)
      BY <1>3, <2>3 DEF ReadAndSend, WriteInv, FreshBeforeRead
    <2>4. CASE Retrying(t)
      BY <1>0, <1>1, <1>3, <2>4 DEF Retrying, AbandonedBumps
    <2>5. CASE Returning(t)
      <3>1. pc'[t] = "done" /\ net' = net /\ pc[t] \in {"gate", "read", "wait"}
        BY <1>0, <2>5 DEF Returning, Finish
      <3>2. PICK q \in net : Owner(Tok(q)) = t
        BY <1>1, <1>3, <3>1
      <3>3. pc[t] = "wait" /\ \A i \in DOMAIN hist : Owner(hist[i]) # t
        BY <3>1, <3>2, OwnerOfRequest
      <3>4. QED
        BY <1>3, <3>3
    <2>6. QED
      BY <2>1, <2>2, <2>3, <2>4, <2>5
  <1>4. QED
    BY <1>2, <1>3

\* A delete lets the increment under way come in once more, and no other.
LEMMA OneComesBack ==
  ASSUME WriteInv, LocksHeld, NEW t \in Tasks, ApplyDelete(t), NEW c \in Clients
  PROVE  MayIntrude(c)' \in SUBSET (MayIntrude(c) \cup {accessLock[c]})
  BY DEF ApplyDelete, MayIntrude, AbandonedBumps, LocksHeld, taskVars, Tok, Owner

\* An increment that is applied is one that might be, and no longer is.
LEMMA IntruderLeaves ==
  ASSUME WriteInv, LocksHeld, NEW q \in net, Apply(q), NEW c \in Clients
  PROVE  /\ MayIntrude(c)' \in SUBSET MayIntrude(c)
         /\ Matches(q) => Owner(Tok(q)) \notin MayIntrude(c)'
         /\ Kind[Owner(Tok(q))] = "bump" /\ Client[Owner(Tok(q))] = c
              => Owner(Tok(q)) \in MayIntrude(c)
  <1> DEFINE b == Owner(Tok(q))
  <1>1. /\ net' = net \ {q} /\ UNCHANGED <<pc, result>>
        /\ b \in Tasks /\ pc[b] \in {"wait", "done"}
        /\ \A i \in DOMAIN hist : Owner(hist[i]) # b
        /\ \A r \in net : Owner(Tok(r)) = b => r = q
        /\ hist \in Seq(Revs) /\ Tok(q) \in Revs
    BY OwnerOfRequest DEF Apply, taskVars, WriteInv, RequestsFresh, TypeOK, Requests, Payloads, Tok
  <1>2. /\ \A i \in DOMAIN hist : i \in DOMAIN hist' /\ hist'[i] = hist[i]
        /\ Matches(q) => \E i \in DOMAIN hist' : hist'[i] = Tok(q)
    <2>1. CASE Matches(q)
      <3>1. hist' = Append(hist, Tok(q))
        BY <2>1 DEF Apply
      <3>2. QED
        BY <1>1, <3>1, AppendProperties, LenProperties
    <2>2. CASE ~Matches(q)
      BY <2>2 DEF Apply, ghostVars
    <2>3. QED
      BY <2>1, <2>2
  <1>3. MayIntrude(c)' \in SUBSET MayIntrude(c)
    BY <1>1, <1>2 DEF MayIntrude, AbandonedBumps, Tok, Owner
  <1>4. Matches(q) => b \notin MayIntrude(c)'
    BY <1>1, <1>2 DEF MayIntrude, Tok, Owner
  <1>5. Kind[b] = "bump" /\ Client[b] = c => b \in MayIntrude(c)
    BY <1>1 DEF MayIntrude, AbandonedBumps, LocksHeld
  <1>6. QED
    BY <1>3, <1>4, <1>5

\* The account of a writer's turn stays within its budget.
LEMMA NextBudget ==
  ASSUME WriteInv, LocksHeld, LocksHeld', TurnBudget, NEW t \in Tasks, TurnStep(t)
  PROVE  TurnBudget'
  <1> SUFFICES ASSUME NEW u \in Tasks, writeLock'[Client[u]] = u
               PROVE  intruded'[u] + Cardinality(MayIntrude(Client[u])')
                        <= 1 + Cardinality(AbandonedBumps(Client[u])') + Cardinality(Spent')
    BY DEF TurnBudget
  <1> USE DEF storeVars, taskVars, lockVars, ghostVars
  <1> DEFINE c == Client[u]
             may == MayIntrude(c)
             gave == AbandonedBumps(c)
  <1>0. /\ c \in Clients /\ Nobody \notin Tasks /\ intruded \in [Tasks -> Nat]
        /\ writeLock \in [Clients -> Tasks \cup {Nobody}]
    BY CasAssumption DEF WriteInv, TypeOK
  <1>1. /\ IsFiniteSet(may) /\ Cardinality(may) \in Nat
        /\ IsFiniteSet(gave) /\ Cardinality(gave) \in Nat
        /\ IsFiniteSet(Spent) /\ Cardinality(Spent) \in Nat
    BY CountsFinite DEF LocksHeld
  <1>2. /\ IsFiniteSet(Started')
        /\ IsFiniteSet(gave') /\ Cardinality(gave') \in Nat
        /\ IsFiniteSet(may') /\ Cardinality(may') \in Nat
        /\ IsFiniteSet(Spent') /\ Cardinality(Spent') \in Nat
    <2>1. IsFiniteSet(Started')
      BY DEF LocksHeld
    <2>2. /\ gave' \in SUBSET Started' /\ may' \in SUBSET Started' /\ Spent' \in SUBSET Started'
      BY DEF AbandonedBumps, MayIntrude, Spent, Deletes, Started
    <2>3. QED
      BY <2>1, <2>2, NoMore
  <1>3. Cardinality(gave) <= Cardinality(gave') /\ Cardinality(Spent) <= Cardinality(Spent')
    <2>1. gave \in SUBSET gave' /\ Spent \in SUBSET Spent'
      BY CountsGrow
    <2>2. QED
      BY <1>2, <2>1, NoMore
  <1> HIDE DEF may, gave, c
  <1>4. ASSUME writeLock[c] = u, may' \in SUBSET may, intruded'[u] = intruded[u]
        PROVE  intruded'[u] + Cardinality(may') <= 1 + Cardinality(gave') + Cardinality(Spent')
    <2>1. intruded[u] + Cardinality(may) <= 1 + Cardinality(gave) + Cardinality(Spent)
      BY <1>4 DEF TurnBudget, may, gave, c
    <2>2. Cardinality(may') <= Cardinality(may)
      BY <1>1, <1>4, NoMore
    <2>3. QED
      BY <1>0, <1>1, <1>2, <1>3, <1>4, <2>1, <2>2
  <1>5. CASE TakeWriteLock(t) /\ u = t
    <2>1. intruded'[u] = 0
      BY <1>5 DEF TakeWriteLock, LocksHeld
    <2>2. may' \in SUBSET (gave' \cup {accessLock'[c]})
      BY DEF LocksHeld, MayIntrude, may, gave, c
    <2>3. Cardinality(may') <= Cardinality(gave') + 1
      BY <1>2, <2>2, OneMore
    <2>4. QED
      BY <1>2, <2>1, <2>3 DEF may, gave, c
  <1>6. CASE /\ TakeWriteLock(t) \/ TakeAccessLock(t) \/ PassGate(t) \/ ReadAndSend(t)
                \/ Returning(t) \/ Retrying(t)
             /\ ~(TakeWriteLock(t) /\ u = t)
    <2>1. writeLock[c] = u
      BY <1>0, <1>6 DEF TakeWriteLock, TakeAccessLock, PassGate, ReadAndSend, Returning, Finish,
         Retrying, c
    <2>2. intruded' = intruded
      BY <1>6 DEF TakeWriteLock, TakeAccessLock, PassGate, ReadAndSend, Returning, Retrying
    <2>3. may' \in SUBSET may
      BY <1>6, <2>1, NoNewIntruder DEF may, c
    <2>4. QED
      BY <1>4, <2>1, <2>2, <2>3 DEF may, gave, c
  <1>7. CASE ApplyDelete(t)
    <2>1. writeLock[c] = u /\ intruded' = intruded
      BY <1>7 DEF ApplyDelete, c
    <2>2. Cardinality(may') <= Cardinality(may) + 1
      <3>1. may' \in SUBSET (may \cup {accessLock[c]})
        BY <1>0, <1>7, OneComesBack DEF may, c
      <3>2. QED
        BY <1>1, <3>1, OneMore
    <2>3. Cardinality(Spent) + 1 <= Cardinality(Spent')
      <3>1. t \in Spent' /\ Spent \in SUBSET (Spent' \ {t})
        <4>1. t \in deleting /\ deleting' = deleting \ {t} /\ UNCHANGED <<pc, result>>
          BY <1>7 DEF ApplyDelete
        <4>2. t \in Deletes /\ Deletes' = Deletes
          BY <4>1 DEF LocksHeld, Deletes
        <4>3. QED
          BY <4>1, <4>2 DEF Spent
      <3>2. QED
        BY <1>2, <3>1, OneLess
    <2>4. intruded[u] + Cardinality(may) <= 1 + Cardinality(gave) + Cardinality(Spent)
      BY <2>1 DEF TurnBudget, may, gave, c
    <2>5. QED
      BY <1>0, <1>1, <1>2, <1>3, <2>1, <2>2, <2>3, <2>4 DEF may, gave, c
  <1>8. ASSUME NEW q \in net, Apply(q)
        PROVE  intruded'[u] + Cardinality(may') <= 1 + Cardinality(gave') + Cardinality(Spent')
    <2>1. writeLock[c] = u /\ may' \in SUBSET may
      BY <1>0, <1>8, IntruderLeaves DEF Apply, may, c
    <2>2. CASE Matches(q) /\ IntrudesOn(q, u)
      <3>1. intruded'[u] = intruded[u] + 1
        BY <2>2, <1>8 DEF Apply
      <3>2. Kind[Owner(Tok(q))] = "bump" /\ Client[Owner(Tok(q))] = c
        <4>1. Owner(Tok(q)) \in Tasks /\ Client[Owner(Tok(q))] \in Clients
          BY OwnerOfRequest, CasAssumption
        <4>2. QED
          BY <2>2, <4>1 DEF IntrudesOn, LocksHeld, c
      <3>3. Owner(Tok(q)) \in may /\ may' \in SUBSET (may \ {Owner(Tok(q))})
        BY <1>0, <1>8, <2>1, <2>2, <3>2, IntruderLeaves DEF may
      <3>4. Cardinality(may') + 1 <= Cardinality(may)
        BY <1>1, <3>3, OneLess
      <3>5. intruded[u] + Cardinality(may) <= 1 + Cardinality(gave) + Cardinality(Spent)
        BY <2>1 DEF TurnBudget, may, gave, c
      <3>6. QED
        BY <1>0, <1>1, <1>2, <1>3, <3>1, <3>4, <3>5
    <2>3. CASE ~(Matches(q) /\ IntrudesOn(q, u))
      <3>1. intruded'[u] = intruded[u]
        BY <1>0, <1>8, <2>3 DEF Apply
      <3>2. QED
        BY <1>4, <2>1, <3>1
    <2>4. QED
      BY <2>2, <2>3
  <1>9. QED
    BY <1>5, <1>6, <1>7, <1>8 DEF TurnStep, may, gave, c

\* The bound holds in the turn by the budget, and after it for good.
LEMMA NextBound ==
  ASSUME WriteInv, WriteInv', LocksHeld, LocksHeld', TurnBound, TurnBudget',
         NEW t \in Tasks, TurnStep(t)
  PROVE  TurnBound'
  <1> SUFFICES ASSUME NEW u \in Tasks
               PROVE  intruded'[u] <= 1 + Cardinality(AbandonedBumps(Client[u])')
                                        + Cardinality(Deletes')
    BY DEF TurnBound
  <1> DEFINE c == Client[u]
             gave == AbandonedBumps(c)
             may == MayIntrude(c)
  <1>0. intruded[u] \in Nat /\ intruded'[u] \in Nat /\ c \in Clients
    BY CasAssumption DEF WriteInv, TypeOK
  <1>1. /\ Cardinality(gave) \in Nat /\ Cardinality(Deletes) \in Nat
        /\ intruded[u] <= 1 + Cardinality(gave) + Cardinality(Deletes)
    BY CountsFinite DEF LocksHeld, TurnBound
  <1>2. /\ IsFiniteSet(gave') /\ Cardinality(gave') \in Nat
        /\ IsFiniteSet(Deletes') /\ Cardinality(Deletes') \in Nat
        /\ Cardinality(may') \in Nat
        /\ Cardinality(Spent') \in Nat /\ Cardinality(Spent') <= Cardinality(Deletes')
    <2>1. IsFiniteSet(Started')
      BY DEF LocksHeld
    <2>2. /\ gave' \in SUBSET Started' /\ Deletes' \in SUBSET Started'
          /\ may' \in SUBSET Started' /\ Spent' \in SUBSET Deletes'
      BY DEF AbandonedBumps, Spent, Deletes, Started, MayIntrude
    <2>3. QED
      BY <2>1, <2>2, NoMore
  <1>3. Cardinality(gave) <= Cardinality(gave') /\ Cardinality(Deletes) <= Cardinality(Deletes')
    <2>1. gave \in SUBSET gave' /\ Deletes \in SUBSET Deletes'
      BY CountsGrow
    <2>2. QED
      BY <1>2, <2>1, NoMore
  <1> HIDE DEF gave, may, c
  <1>4. CASE intruded'[u] = intruded[u]
    BY <1>0, <1>1, <1>2, <1>3, <1>4 DEF gave, c
  <1>5. CASE intruded'[u] # intruded[u]
    <2>1. PICK q \in net : Apply(q) /\ Matches(q) /\ IntrudesOn(q, u)
      BY <1>5 DEF TurnStep, TakeWriteLock, TakeAccessLock, PassGate, ReadAndSend, Returning,
         Retrying, ApplyDelete, Apply, ghostVars, WriteInv, TypeOK
    <2>2. writeLock[Client[Owner(Tok(q))]] = u /\ Client[Owner(Tok(q))] \in Clients
      BY <2>1, OwnerOfRequest, CasAssumption DEF IntrudesOn
    <2>3. writeLock'[c] = u
      BY <2>1, <2>2 DEF LocksHeld, Apply, lockVars, c
    <2>4. intruded'[u] + Cardinality(may') <= 1 + Cardinality(gave') + Cardinality(Spent')
      BY <2>3 DEF TurnBudget, may, gave, c
    <2>5. QED
      BY <1>0, <1>2, <2>4 DEF gave, c
  <1>6. QED
    BY <1>4, <1>5

\* The account of the turns holds at the start.
LEMMA InitAccess == Init => AccessInv
  <1> SUFFICES ASSUME Init PROVE AccessInv
    OBVIOUS
  <1>1. Started = {} /\ Deletes = {}
    BY DEF Init, Started, Deletes
  <1>2. LocksHeld
    BY <1>1, FS_EmptySet, CasAssumption DEF Init, LocksHeld
  <1>3. TurnBudget
    BY CasAssumption DEF Init, TurnBudget
  <1>4. TurnBound
    <2>1. ASSUME NEW u \in Tasks
          PROVE  /\ Cardinality(AbandonedBumps(Client[u])) \in Nat
                 /\ Cardinality(Deletes) \in Nat /\ intruded[u] = 0
      BY <1>2, CountsFinite DEF LocksHeld, Init
    <2>2. QED
      BY <2>1 DEF TurnBound
  <1>5. QED
    BY <1>2, <1>3, <1>4 DEF AccessInv

\* Every step keeps it.
LEMMA NextAccess ==
  WriteInv /\ WriteInv' /\ SentByKind /\ AccessInv /\ [Next]_vars => AccessInv'
  <1> SUFFICES ASSUME WriteInv, WriteInv', SentByKind, AccessInv, [Next]_vars PROVE AccessInv'
    OBVIOUS
  <1>1. CASE UNCHANGED vars
    BY <1>1 DEF vars, storeVars, taskVars, lockVars, ghostVars, AccessInv, LocksHeld, TurnBudget,
       TurnBound, MayIntrude, AbandonedBumps, Spent, Deletes, Started, Tok, Owner
  <1>2. ASSUME NEW t \in Tasks, TurnStep(t) PROVE AccessInv'
    BY <1>2, NextLocks, NextBudget, NextBound DEF AccessInv
  <1>3. QED
    BY <1>1, <1>2, EveryStep

\* The strengthened invariant holds of every behaviour.
THEOREM InvariantHolds == Spec => []CasInv
  <1>1. Spec => []SentByKind
    BY SentHolds
  <1>2. QED
    BY <1>1, WritesSafe, InitAccess, NextAccess, PTL DEF Spec, CasInv

\* write_lock, access_turn: no cycle of calls waits for each other's locks; what
\* Returns needs of the locks besides fairness.
THEOREM LocksAreServed == Spec => []LocksNeverBlock
  <1>1. CasInv => LocksNeverBlock
    <2> SUFFICES ASSUME CasInv, NEW t \in Tasks, pc[t] # "done", ~Unblocked(t)
                 PROVE  \E u \in Tasks : Client[u] = Client[t] /\ Unblocked(u)
      BY DEF LocksNeverBlock
    <2>0. /\ pc \in [Tasks -> {"idle", "gate", "read", "wait", "done"}] /\ Client[t] \in Clients
          /\ writeLock[Client[t]] \in Tasks \cup {Nobody}
          /\ accessLock[Client[t]] \in Tasks \cup {Nobody}
      BY CasAssumption DEF CasInv, WriteInv, TypeOK
    <2>1. CASE writeLock[Client[t]] # Nobody
      BY <2>0, <2>1 DEF CasInv, AccessInv, LocksHeld, Unblocked
    <2>2. CASE writeLock[Client[t]] = Nobody
      <3>1. accessLock[Client[t]] # Nobody
        BY <2>0, <2>2 DEF Unblocked
      <3>2. QED
        BY <2>0, <2>2, <3>1 DEF CasInv, AccessInv, LocksHeld, Unblocked
    <2>3. QED
      BY <2>1, <2>2
  <1>2. QED
    BY <1>1, InvariantHolds, PTL

\* access_turn: in one turn of a writer at most one access increment of its
\* client is applied, and one more for each increment given up on with its
\* request on its way and for each delete, for any number of calls.
THEOREM TurnsAreBounded == Spec => []TurnBound
  BY InvariantHolds, PTL DEF CasInv, AccessInv

=============================================================================
