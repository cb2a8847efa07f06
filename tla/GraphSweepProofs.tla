-------------------------- MODULE GraphSweepProofs --------------------------
(***************************************************************************)
(* Theorems about GraphSweep, for any number of hashes, processes, calls   *)
(* and any page size and allowance.  SweepInv is inductive; that a sweep   *)
(* spares every ensured node, that a call keeps to its allowance, that a   *)
(* pass skips no stray node and that an empty collection is spared follow. *)
(***************************************************************************)
EXTENDS GraphSweep, FiniteSetTheorems, WellFoundedInduction, TLAPS

\* Sets of hashes are finite, and a subset is no larger.
LEMMA FiniteHashes ==
  ASSUME NEW S \in SUBSET Hashes
  PROVE  /\ IsFiniteSet(S) /\ Cardinality(S) \in Nat
         /\ \A T \in SUBSET S : Cardinality(T) \in Nat /\ Cardinality(T) <= Cardinality(S)
  <1>1. IsFiniteSet(Hashes)
    BY FS_Interval, SweepAssumption DEF Hashes
  <1>2. IsFiniteSet(S) /\ Cardinality(S) \in Nat
    BY <1>1, FS_Subset, FS_CardinalityType
  <1>3. ASSUME NEW T \in SUBSET S
        PROVE  Cardinality(T) \in Nat /\ Cardinality(T) <= Cardinality(S)
    BY <1>2, FS_Subset, FS_CardinalityType
  <1>4. QED
    BY <1>2, <1>3

\* The union of two sets of hashes is no larger than both together.
LEMMA UnionBound ==
  ASSUME NEW S \in SUBSET Hashes, NEW T \in SUBSET Hashes
  PROVE  Cardinality(S \cup T) <= Cardinality(S) + Cardinality(T)
  <1>1. IsFiniteSet(S) /\ IsFiniteSet(T) /\ Cardinality(S) \in Nat /\ Cardinality(T) \in Nat
        /\ Cardinality(S \cap T) \in Nat /\ Cardinality(S \cup T) \in Nat
    BY FiniteHashes
  <1>2. Cardinality(S \cup T) = Cardinality(S) + Cardinality(T) - Cardinality(S \cap T)
    BY <1>1, FS_Union
  <1>3. QED
    BY <1>1, <1>2

\* A page holds no more nodes than the caller's limit leaves.
LEMMA PageFits ==
  ASSUME TypeOK, NEW s \in Sweepers, NEW h \in window[s], IsLast(s, h)
  PROVE  /\ PageOf(s) \in SUBSET Hashes /\ Cardinality(PageOf(s)) \in Nat
         /\ Cardinality(PageOf(s)) <= left[s]
  <1>1. window[s] \in SUBSET Hashes /\ PageOf(s) \in SUBSET window[s]
    BY DEF TypeOK, PageOf, First
  <1> DEFINE upTo == {g \in window[s] : g <= h}
  <1>2. PageOf(s) \in SUBSET upTo /\ upTo \in SUBSET Hashes
    BY <1>1 DEF IsLast
  <1>3. Cardinality(upTo) <= Want(s)
    BY DEF IsLast, PageOf, First
  <1>4. Cardinality(PageOf(s)) \in Nat /\ Cardinality(upTo) \in Nat
        /\ Cardinality(PageOf(s)) <= Cardinality(upTo)
    BY <1>2, FiniteHashes
  <1>5. Want(s) \in Nat /\ Want(s) <= left[s] /\ left[s] \in Nat
    BY SweepAssumption DEF Want, TypeOK
  <1>6. QED
    BY <1>1, <1>2, <1>3, <1>4, <1>5

\* The invariant holds at the start.
LEMMA InitInv == Init => SweepInv
  <1> SUFFICES ASSUME Init PROVE SweepInv
    OBVIOUS
  <1> USE SweepAssumption
  <1>1. TypeOK
    BY DEF Init, TypeOK, Tokens, Places, Idle, Hashes, Valid
  <1>2. TokensApart
    BY DEF Init, TokensApart, Active, Idle
  <1>3. DeletesSpareEnsured /\ CallGoesOn
    BY DEF Init, DeletesSpareEnsured, CallGoesOn, AtPage
  <1>4. Allowed
    BY FS_EmptySet DEF Init, Allowed, Active, Idle
  <1>5. DueAhead
    BY DEF Init, DueAhead, AheadOf, Due, Idle, AtPage
  <1>6. EmptyIsHeld
    BY DEF Init, EmptyIsHeld, AtPage
  <1>7. QED
    BY <1>1, <1>2, <1>3, <1>4, <1>5, <1>6 DEF SweepInv

\* What a delete removes is among the nodes it names.
LEMMA MarkedShape ==
  ASSUME NEW H \in SUBSET Valid, NEW t
  PROVE  Marked(H, t) \in SUBSET (H \cap nodes)
  BY DEF Marked

\* A sweep's write of the graph keeps the types.
LEMMA WriteType ==
  ASSUME TypeOK, NEW H \in SUBSET Valid, NEW t \in 1..MaxCalls,
         MarkNodes(H, t) \/ DeleteMarked(H, t), own' = own, points' = points
  PROVE  /\ nodes' \subseteq Hashes /\ mark' \in [Hashes -> Tokens]
         /\ own' \subseteq points' /\ fresh' \subseteq points' \cap nodes'
         /\ took' \in [1..MaxCalls -> SUBSET Valid] /\ stray' \in [Sweepers -> SUBSET Valid]
  <1> USE SweepAssumption DEF TypeOK, Tokens
  <1>1. CASE MarkNodes(H, t)
    BY <1>1 DEF MarkNodes
  <1>2. CASE DeleteMarked(H, t)
    BY <1>2, MarkedShape DEF DeleteMarked, Detach
  <1>3. QED
    BY <1>1, <1>2

\* Every step keeps the types.
LEMMA NextType == SweepInv /\ [Next]_vars => TypeOK'
  <1> SUFFICES ASSUME SweepInv, [Next]_vars PROVE TypeOK'
    OBVIOUS
  <1> USE SweepAssumption DEF SweepInv, TypeOK, stores, locals, ghosts, Tokens
  <1>1. CASE UNCHANGED vars
    BY <1>1 DEF vars
  <1>2. ASSUME NEW h \in Moving, PutPoint(h) \/ RefuteReads(h) PROVE TypeOK'
    BY <1>2 DEF PutPoint, RefuteReads, Touch
  <1>3. ASSUME NEW h \in Moving, EnsureNode(h) PROVE TypeOK'
    BY <1>3 DEF EnsureNode, Touch, Cleared, Valid
  <1>4. ASSUME NEW h \in Moving, EnsureLost(h) \/ Link(h) \/ DropNodeLost(h) PROVE TypeOK'
    BY <1>4 DEF EnsureLost, Link, DropNodeLost
  <1>5. ASSUME NEW h \in Moving, DropPoint(h) \/ DropNode(h) PROVE TypeOK'
    BY <1>5 DEF DropPoint, DropNode, Detach
  <1>6. ASSUME NEW s \in Sweepers, Begin(s) PROVE TypeOK'
    <2>1. tokens' \in Tokens /\ token' \in [Sweepers -> Tokens]
      BY <1>6 DEF Begin
    <2>2. after' \in [Sweepers -> 0..N] /\ stray' \in [Sweepers -> SUBSET Valid]
      <3>1. CASE /\ after' = [after EXCEPT ![s] = 0]
                 /\ stray' = [stray EXCEPT ![s] = (nodes \cap Valid) \ points]
        <4>1. 0 \in 0..N /\ (nodes \cap Valid) \ points \in SUBSET Valid
          OBVIOUS
        <4>2. QED
          BY <3>1, <4>1
      <3>2. CASE UNCHANGED <<after, stray>>
        BY <3>2
      <3>3. QED
        BY <1>6, <3>1, <3>2 DEF Begin
    <2>3. from' \in [Sweepers -> 0..N]
      BY <1>6, <2>2 DEF Begin
    <2>4. left' \in [Sweepers -> Nat] /\ candidates' \in [Sweepers -> Nat]
      BY <1>6 DEF Begin
    <2>5. pc' \in [Sweepers -> Places]
      BY <1>6 DEF Begin, Places
    <2>6. QED
      BY <1>6, <2>1, <2>2, <2>3, <2>4, <2>5 DEF Begin
  <1>7. ASSUME NEW s \in Sweepers, List(s) PROVE TypeOK'
    <2>1. First(Page, {h \in nodes : h > after[s]}) \in SUBSET Hashes
      BY DEF First
    <2>2. QED
      BY <1>7, <2>1 DEF List, Places, Idle
  <1>8. ASSUME NEW s \in Sweepers, Hold(s) PROVE TypeOK'
    BY <1>8 DEF Hold, Places, Idle
  <1>9. ASSUME NEW s \in Sweepers, Read(s) PROVE TypeOK'
    <2> DEFINE gone == Missing(s) \cap PageOf(s)
    <2>1. PICK h \in window[s] : IsLast(s, h) /\ after' = [after EXCEPT ![s] = h]
      BY <1>9 DEF Read
    <2>2. gone \in SUBSET Valid /\ gone \in SUBSET Hashes
      BY DEF Missing, Valid
    <2>3. Cardinality(gone) \in Nat
      BY <2>2, FiniteHashes
    <2>4. Cardinality(PageOf(s)) \in Nat /\ Cardinality(PageOf(s)) <= left[s]
      BY <2>1, PageFits
    <2>5. Turn(s) \in {"passed", "over", "list"}
      BY DEF Turn
    <2>6. h \in 0..N
      BY <2>1 DEF Hashes
    <2>7. suspects' \in [Sweepers -> SUBSET Valid] /\ candidates' \in [Sweepers -> Nat]
      BY <1>9, <2>2, <2>3 DEF Read
    <2>8. left' \in [Sweepers -> Nat]
      BY <1>9, <2>4 DEF Read
    <2>9. pc' \in [Sweepers -> Places] /\ next' \in [Sweepers -> {"passed", "over", "list"}]
      BY <1>9, <2>5 DEF Read, Places, Idle
    <2>10. QED
      BY <1>9, <2>1, <2>6, <2>7, <2>8, <2>9 DEF Read
  <1>10. ASSUME NEW s \in Sweepers, MarkPage(s) \/ Delete(s) PROVE TypeOK'
    <2>1. token[s] \in 1..MaxCalls
      <3>1. Active(s)
        BY <1>10 DEF MarkPage, Delete, Active, Idle
      <3>2. token[s] > 0 /\ token[s] \in 0..MaxCalls
        BY <3>1 DEF TokensApart
      <3>3. QED
        BY <3>2
    <2>2. /\ nodes' \subseteq Hashes /\ mark' \in [Hashes -> Tokens]
          /\ own' \subseteq points' /\ fresh' \subseteq points' \cap nodes'
          /\ took' \in [1..MaxCalls -> SUBSET Valid] /\ stray' \in [Sweepers -> SUBSET Valid]
      BY <1>10, <2>1, WriteType DEF MarkPage, Delete
    <2>3. pc' \in [Sweepers -> Places]
      BY <1>10 DEF MarkPage, Delete, Places, Idle
    <2>4. QED
      BY <1>10, <2>2, <2>3 DEF MarkPage, Delete
  <1>11. ASSUME NEW s \in Sweepers, Reread(s) PROVE TypeOK'
    BY <1>11 DEF Reread, StillGone, Places, Idle
  <1>12. ASSUME NEW s \in Sweepers, CutOff(s) PROVE TypeOK'
    <2>1. pc[s] \in {"mark", "delete"} =>
            [op |-> pc[s], token |-> token[s], hashes |-> suspects[s]] \in Requests
      BY DEF Requests
    <2>2. late' \subseteq Requests
      BY <1>12, <2>1 DEF CutOff
    <2>3. QED
      BY <1>12, <2>2 DEF CutOff, Places, Idle
  <1>13. ASSUME NEW r \in late, LandLate(r) PROVE TypeOK'
    <2>1. r.token \in 1..MaxCalls /\ r.hashes \in SUBSET Valid
      BY DEF TokensApart, Requests
    <2>2. MarkNodes(r.hashes, r.token) \/ DeleteMarked(r.hashes, r.token)
      BY <1>13 DEF LandLate, Apply
    <2>3. /\ nodes' \subseteq Hashes /\ mark' \in [Hashes -> Tokens]
          /\ own' \subseteq points' /\ fresh' \subseteq points' \cap nodes'
          /\ took' \in [1..MaxCalls -> SUBSET Valid] /\ stray' \in [Sweepers -> SUBSET Valid]
      BY <1>13, <2>1, <2>2, WriteType DEF LandLate
    <2>4. QED
      BY <1>13, <2>3 DEF LandLate
  <1>14. QED
    BY <1>1, <1>2, <1>3, <1>4, <1>5, <1>6, <1>7, <1>8, <1>9, <1>10, <1>11, <1>12, <1>13
       DEF Next, Move, SweepStep

\* What stores, refutes and deletes leave alone.
LEMMA MoveFrame ==
  ASSUME NEW h \in Moving, Move(h)
  PROVE  UNCHANGED <<late, tokens, locals, took>>
  BY DEF Move, PutPoint, RefuteReads, EnsureNode, EnsureLost, Link, DropPoint, DropNode,
         DropNodeLost, stores, locals, ghosts

\* The steps of a call between its first and its last that send no delete.
Reading(s) == List(s) \/ Hold(s) \/ Read(s) \/ MarkPage(s) \/ Reread(s)

\* They send no delete and keep the token.
LEMMA ReadingFrame ==
  ASSUME TypeOK, NEW s \in Sweepers, Reading(s)
  PROVE  /\ Active(s)
         /\ UNCHANGED <<late, tokens, token, took, points, own>>
         /\ \A u \in Sweepers \ {s} : Active(u)' = Active(u)
  <1>1. Active(s) /\ UNCHANGED <<late, tokens, token, took, points, own>>
    BY DEF Reading, List, Hold, Read, MarkPage, MarkNodes, Reread, Active, Idle, stores, ghosts
  <1>2. ASSUME NEW u \in Sweepers \ {s} PROVE pc'[u] = pc[u]
    BY DEF TypeOK, Reading, List, Hold, Read, MarkPage, Reread
  <1>3. QED
    BY <1>1, <1>2 DEF Active

\* A call that is active has a token of its own.
LEMMA ActiveToken ==
  ASSUME SweepInv, NEW s \in Sweepers, Active(s)
  PROVE  /\ token[s] \in 1..MaxCalls /\ token[s] <= tokens
         /\ \A u \in Sweepers \ {s} : token[u] # token[s]
         /\ \A r \in late : r.token # token[s]
  BY SweepAssumption DEF SweepInv, TypeOK, Tokens, TokensApart

\* Every step keeps the tokens apart.
LEMMA NextTokens == SweepInv /\ [Next]_vars => TokensApart'
  <1> SUFFICES ASSUME SweepInv, [Next]_vars PROVE TokensApart'
    OBVIOUS
  <1> USE SweepAssumption DEF SweepInv, stores, ghosts
  <1>1. CASE UNCHANGED <<late, tokens, locals, took>>
    BY <1>1 DEF TokensApart, Active, locals
  <1>2. ASSUME NEW s \in Sweepers, Begin(s) PROVE TokensApart'
    <2>1. /\ tokens' = tokens + 1 /\ token' = [token EXCEPT ![s] = tokens + 1]
          /\ late' = late /\ took' = took /\ pc' = [pc EXCEPT ![s] = "list"]
          /\ tokens \in Nat /\ token \in [Sweepers -> Nat]
      BY <1>2 DEF Begin, TypeOK, Tokens
    <2>2. \A r \in late : r.token \in Nat
      BY DEF TypeOK, Requests, Tokens
    <2>3. pc \in [Sweepers -> Places]
      BY DEF TypeOK
    <2>4. QED
      BY <2>1, <2>2, <2>3 DEF TokensApart, Active
  <1>3. ASSUME NEW s \in Sweepers, Reading(s) PROVE TokensApart'
    BY <1>3, ReadingFrame DEF TokensApart, SweepInv
  <1>4. ASSUME NEW s \in Sweepers, Delete(s) PROVE TokensApart'
    <2>1. Active(s) /\ UNCHANGED <<late, tokens, token>>
          /\ \A u \in Sweepers \ {s} : Active(u)' = Active(u)
      BY <1>4 DEF Delete, Active, Idle
    <2>2. \A t \in 1..MaxCalls : t > tokens => took'[t] = took[t]
      BY <1>4, <2>1, ActiveToken DEF Delete, DeleteMarked, TypeOK, Tokens
    <2>3. QED
      BY <2>1, <2>2 DEF TokensApart
  <1>5. ASSUME NEW s \in Sweepers, CutOff(s) PROVE TokensApart'
    <2>1. /\ Active(s) /\ ~Active(s)' /\ UNCHANGED <<tokens, token, took>>
          /\ \A u \in Sweepers \ {s} : Active(u)' = Active(u)
      BY <1>5 DEF CutOff, Active, Idle, TypeOK
    <2>2. \A r \in late' : r \in late \/ (r.token = token[s] /\ r \notin late)
      BY <1>5, <2>1, ActiveToken DEF CutOff
    <2>3. \A r, q \in late' : r \notin late /\ q \notin late => r = q
      BY <1>5 DEF CutOff
    <2>4. \A r, q \in late' : r.token = q.token => r = q
      BY <2>1, <2>2, <2>3, ActiveToken DEF TokensApart
    <2>5. \A r \in late' : 0 < r.token /\ r.token <= tokens
      BY <2>1, <2>2 DEF TokensApart
    <2>6. \A r \in late', u \in Sweepers : Active(u)' => r.token # token[u]
      BY <2>1, <2>2, ActiveToken DEF TokensApart
    <2>7. QED
      BY <2>1, <2>4, <2>5, <2>6 DEF TokensApart
  <1>6. ASSUME NEW r \in late, LandLate(r) PROVE TokensApart'
    <2>1. late' = late \ {r} /\ UNCHANGED <<tokens, token, pc>>
      BY <1>6 DEF LandLate, locals
    <2>2. r.token <= tokens /\ r.token \in Nat /\ tokens \in Nat
      BY DEF TokensApart, TypeOK, Requests, Tokens
    <2>3. \A t \in 1..MaxCalls : t > tokens => took'[t] = took[t]
      <3>1. MarkNodes(r.hashes, r.token) \/ DeleteMarked(r.hashes, r.token)
        BY <1>6 DEF LandLate, Apply
      <3>2. CASE MarkNodes(r.hashes, r.token)
        BY <3>2 DEF MarkNodes
      <3>3. CASE DeleteMarked(r.hashes, r.token)
        BY <2>2, <3>3 DEF DeleteMarked, TypeOK
      <3>4. QED
        BY <3>1, <3>2, <3>3
    <2>4. QED
      BY <2>1, <2>3 DEF TokensApart, Active
  <1>7. QED
    BY <1>1, <1>2, <1>3, <1>4, <1>5, <1>6, MoveFrame DEF Next, SweepStep, Reading, vars

\* Every step leaves the deletes under way sparing what was ensured.
LEMMA NextSpares == SweepInv /\ [Next]_vars => DeletesSpareEnsured'
  <1> SUFFICES ASSUME SweepInv, [Next]_vars PROVE DeletesSpareEnsured'
    OBVIOUS
  <1> USE SweepAssumption DEF SweepInv, stores, locals, ghosts
  <1>0. /\ own \subseteq points /\ mark \in [Hashes -> Tokens]
        /\ \A s \in Sweepers : suspects[s] \subseteq Hashes
        /\ \A r \in late : r.hashes \subseteq Hashes /\ r.token # 0
    BY DEF TypeOK, Requests, Valid, TokensApart
  <1>1. CASE UNCHANGED vars
    BY <1>1 DEF vars, DeletesSpareEnsured
  <1>2. ASSUME NEW h \in Moving, Move(h) PROVE DeletesSpareEnsured'
    <2>1. \A g \in Hashes : g \in own' =>
            (g \in own /\ mark'[g] = mark[g]) \/ mark'[g] = 0
      BY <1>0, <1>2 DEF Move, PutPoint, RefuteReads, EnsureNode, Cleared, EnsureLost, Link,
         DropPoint, DropNode, Detach, DropNodeLost
    <2>2. UNCHANGED <<late, locals>>
      BY <1>2, MoveFrame
    <2>3. \A s \in Sweepers : pc[s] = "delete" => token[s] # 0
      BY ActiveToken DEF Active, Idle
    <2>4. QED
      BY <1>0, <2>1, <2>2, <2>3 DEF DeletesSpareEnsured
  <1>3. ASSUME NEW s \in Sweepers, Begin(s) \/ List(s) \/ Hold(s) \/ Read(s)
        PROVE DeletesSpareEnsured'
    <2>1. pc'[s] # "delete" /\ UNCHANGED <<late, mark, own>>
      BY <1>3 DEF Begin, List, Hold, Read, Turn, TypeOK
    <2>2. \A u \in Sweepers \ {s} : pc'[u] = pc[u] /\ suspects'[u] = suspects[u]
                                     /\ token'[u] = token[u]
      <3>1. CASE Begin(s)
        BY <3>1 DEF Begin, TypeOK
      <3>2. CASE List(s) \/ Hold(s) \/ Read(s)
        BY <3>2 DEF List, Hold, Read, TypeOK
      <3>3. QED
        BY <1>3, <3>1, <3>2
    <2>3. QED
      BY <2>1, <2>2 DEF DeletesSpareEnsured
  <1>4. ASSUME NEW s \in Sweepers, MarkPage(s) PROVE DeletesSpareEnsured'
    <2>1. Active(s)
      BY <1>4 DEF MarkPage, Active, Idle
    <2>2. \A g \in Hashes : mark'[g] = mark[g] \/ mark'[g] = token[s]
      BY <1>4 DEF MarkPage, MarkNodes
    <2>3. /\ UNCHANGED <<late, own, suspects, token>>
          /\ \A u \in Sweepers : pc'[u] = "delete" => u # s /\ pc[u] = "delete"
      BY <1>4 DEF MarkPage, TypeOK
    <2>4. QED
      BY <1>0, <2>1, <2>2, <2>3, ActiveToken DEF DeletesSpareEnsured
  <1>5. ASSUME NEW s \in Sweepers, Reread(s) PROVE DeletesSpareEnsured'
    BY <1>0, <1>5 DEF Reread, StillGone, DeletesSpareEnsured, TypeOK
  <1>6. ASSUME NEW s \in Sweepers, Delete(s) PROVE DeletesSpareEnsured'
    <2>1. \A g \in Hashes : mark'[g] = mark[g] \/ mark'[g] = 0
      BY <1>6 DEF Delete, DeleteMarked, Detach
    <2>2. /\ UNCHANGED <<late, own, suspects, token>>
          /\ \A u \in Sweepers : pc'[u] = "delete" => u # s /\ pc[u] = "delete"
      BY <1>6 DEF Delete, TypeOK
    <2>3. \A u \in Sweepers : pc[u] = "delete" => token[u] # 0
      BY ActiveToken DEF Active, Idle
    <2>4. QED
      BY <1>0, <2>1, <2>2, <2>3 DEF DeletesSpareEnsured
  <1>7. ASSUME NEW s \in Sweepers, CutOff(s) PROVE DeletesSpareEnsured'
    <2>1. /\ UNCHANGED <<mark, own, suspects, token>>
          /\ \A u \in Sweepers : pc'[u] = "delete" => pc[u] = "delete"
      BY <1>7 DEF CutOff, TypeOK
    <2>2. \A r \in late' : r \in late
            \/ (r.op = pc[s] /\ r.token = token[s] /\ r.hashes = suspects[s])
      BY <1>7 DEF CutOff
    <2>3. QED
      BY <2>1, <2>2 DEF DeletesSpareEnsured
  <1>8. ASSUME NEW r \in late, LandLate(r) PROVE DeletesSpareEnsured'
    <2>1. \A g \in Hashes : mark'[g] = mark[g] \/ mark'[g] = r.token \/ mark'[g] = 0
      BY <1>8 DEF LandLate, Apply, MarkNodes, DeleteMarked, Detach
    <2>2. /\ UNCHANGED <<own, suspects, token, pc>> /\ late' = late \ {r}
      BY <1>8 DEF LandLate
    <2>3. \A u \in Sweepers : pc[u] = "delete" => token[u] # 0 /\ token[u] # r.token
      BY ActiveToken DEF Active, Idle
    <2>4. \A q \in late \ {r} : q.token # r.token
      BY DEF TokensApart
    <2>5. QED
      BY <1>0, <2>1, <2>2, <2>3, <2>4 DEF DeletesSpareEnsured
  <1>9. QED
    BY <1>1, <1>2, <1>3, <1>4, <1>5, <1>6, <1>7, <1>8 DEF Next, SweepStep

\* Removing some of the nodes a request names keeps to what it was allowed.
LEMMA DeleteKeepsAllowance ==
  ASSUME TypeOK, NEW H \in SUBSET Valid, NEW t \in 1..MaxCalls, DeleteMarked(H, t)
  PROVE  /\ took'[t] \in SUBSET (took[t] \cup H)
         /\ \A u \in (1..MaxCalls) \ {t} : took'[u] = took[u]
  BY MarkedShape DEF DeleteMarked, TypeOK

\* Every step keeps what each call may still remove within its allowance.
LEMMA NextAllowed == SweepInv /\ [Next]_vars => Allowed'
  <1> SUFFICES ASSUME SweepInv, [Next]_vars PROVE Allowed'
    OBVIOUS
  <1> USE SweepAssumption DEF SweepInv, stores, ghosts
  <1>0. /\ took \in [1..MaxCalls -> SUBSET Hashes] /\ suspects \in [Sweepers -> SUBSET Hashes]
        /\ \A r \in late : r.hashes \in SUBSET Hashes /\ r.token \in 1..MaxCalls
        /\ candidates \in [Sweepers -> Nat]
        /\ \A t \in 1..MaxCalls : Cardinality(took[t]) \in Nat
    <2>1. took \in [1..MaxCalls -> SUBSET Hashes] /\ suspects \in [Sweepers -> SUBSET Hashes]
      BY DEF TypeOK, Valid
    <2>2. \A r \in late : r.hashes \in SUBSET Hashes /\ r.token \in 1..MaxCalls
      BY DEF TypeOK, Requests, Tokens, TokensApart, Valid
    <2>3. QED
      BY <2>1, <2>2, FiniteHashes DEF TypeOK
  <1>1. CASE UNCHANGED <<late, tokens, locals, took>>
    BY <1>1 DEF Allowed, Active, locals
  <1>2. ASSUME NEW s \in Sweepers, Begin(s) PROVE Allowed'
    <2>1. /\ token' = [token EXCEPT ![s] = tokens + 1] /\ pc' = [pc EXCEPT ![s] = "list"]
          /\ candidates' = [candidates EXCEPT ![s] = 0] /\ tokens + 1 \in 1..MaxCalls
          /\ UNCHANGED <<late, took, suspects>>
      BY <1>2 DEF Begin, TypeOK, Tokens
    <2>2. took[tokens + 1] = {} /\ Cardinality({}) = 0
      <3>1. tokens \in Nat
        BY DEF TypeOK, Tokens
      <3>2. tokens + 1 > tokens
        BY <3>1
      <3>3. QED
        BY <2>1, <3>2, FS_EmptySet DEF TokensApart
    <2>3. ASSUME NEW u \in Sweepers, u # s
          PROVE  token'[u] = token[u] /\ pc'[u] = pc[u] /\ candidates'[u] = candidates[u]
      BY <2>1, <2>3 DEF TypeOK
    <2>4. token'[s] = tokens + 1 /\ pc'[s] = "list" /\ candidates'[s] = 0
      BY <2>1 DEF TypeOK
    <2>5. QED
      <3>1. ASSUME NEW u \in Sweepers, Active(u)'
            PROVE  /\ candidates'[u] <= Floor
                   /\ Cardinality(took'[token'[u]]) <= candidates'[u]
                   /\ pc'[u] \in AtPage =>
                        Cardinality(took'[token'[u]] \cup suspects'[u]) <= candidates'[u]
        <4>1. CASE u = s
          <5>1. took'[token'[u]] = {} /\ candidates'[u] = 0 /\ pc'[u] = "list"
            BY <2>1, <2>2, <2>4, <4>1
          <5>2. Cardinality(took'[token'[u]]) = 0
            BY <5>1, FS_EmptySet
          <5>3. pc'[u] \notin AtPage
            BY <5>1 DEF AtPage
          <5>4. 0 <= Floor
            BY DEF SweepAssumption
          <5>5. QED
            BY <5>1, <5>2, <5>3, <5>4
        <4>2. CASE u # s
          BY <2>1, <2>3, <3>1, <4>2 DEF Allowed, Active
        <4>3. QED
          BY <4>1, <4>2
      <3>2. QED
        BY <2>1, <3>1 DEF Allowed
  <1>3. ASSUME NEW s \in Sweepers, List(s) \/ Hold(s) PROVE Allowed'
    <2>1. UNCHANGED <<late, took, suspects, token, candidates>> /\ pc'[s] \notin AtPage /\ Active(s)
      BY <1>3 DEF List, Hold, AtPage, Active, Idle, TypeOK
    <2>2. \A u \in Sweepers \ {s} : pc'[u] = pc[u]
      BY <1>3 DEF List, Hold, TypeOK
    <2>3. QED
      BY <2>1, <2>2 DEF Allowed, Active
  <1>4. ASSUME NEW s \in Sweepers, Read(s) PROVE Allowed'
    <2> DEFINE gone == Missing(s) \cap PageOf(s)
    <2>1. /\ UNCHANGED <<late, took, token>> /\ pc[s] = "read" /\ ~CallCaps(s)
          /\ suspects' = [suspects EXCEPT ![s] = gone]
          /\ candidates' = [candidates EXCEPT ![s] = @ + Cardinality(gone)]
          /\ pc' = [pc EXCEPT ![s] = IF gone = {} THEN Turn(s) ELSE "mark"]
      BY <1>4 DEF Read
    <2>2. gone \in SUBSET Hashes /\ Cardinality(gone) \in Nat
      <3>1. gone \in SUBSET Hashes
        BY DEF Missing, Valid
      <3>2. QED
        BY <3>1, FiniteHashes
    <2>3. candidates'[s] = candidates[s] + Cardinality(gone) /\ candidates'[s] <= Floor
          /\ suspects'[s] = gone
      BY <1>0, <2>1, <2>2 DEF CallCaps
    <2>4. Active(s) /\ token[s] \in 1..MaxCalls
      BY <2>1, ActiveToken DEF Active, Idle
    <2>5. Cardinality(took[token[s]]) <= candidates[s]
      BY <2>4 DEF Allowed
    <2>6. Cardinality(took[token[s]] \cup gone) <= candidates'[s]
      <3>1. Cardinality(took[token[s]] \cup gone) <= Cardinality(took[token[s]]) + Cardinality(gone)
        BY <1>0, <2>2, <2>4, UnionBound
      <3>2. Cardinality(took[token[s]] \cup gone) \in Nat
        BY <1>0, <2>2, <2>4, FiniteHashes
      <3>3. QED
        BY <1>0, <2>2, <2>3, <2>4, <2>5, <3>1, <3>2
    <2>7. ASSUME NEW u \in Sweepers, u # s
          PROVE  pc'[u] = pc[u] /\ candidates'[u] = candidates[u] /\ suspects'[u] = suspects[u]
      BY <1>0, <2>1, <2>7 DEF TypeOK
    <2>8. Cardinality(took[token[s]]) <= candidates'[s]
      BY <1>0, <2>2, <2>3, <2>4, <2>5
    <2>9. QED
      BY <2>1, <2>3, <2>6, <2>7, <2>8 DEF Allowed, Active
  <1>5. ASSUME NEW s \in Sweepers, MarkPage(s) \/ Reread(s) PROVE Allowed'
    <2>1. /\ UNCHANGED <<late, took, token, candidates>> /\ pc[s] \in AtPage
          /\ \A u \in Sweepers \ {s} : pc'[u] = pc[u] /\ suspects'[u] = suspects[u]
      BY <1>5 DEF MarkPage, MarkNodes, Reread, AtPage, TypeOK
    <2>2. suspects'[s] \in SUBSET suspects[s]
      BY <1>0, <1>5 DEF MarkPage, Reread, StillGone
    <2>3. Active(s) /\ token[s] \in 1..MaxCalls
      BY <2>1, ActiveToken DEF Active, Idle, AtPage
    <2>4. /\ took[token[s]] \cup suspects[s] \in SUBSET Hashes
          /\ took[token[s]] \cup suspects'[s] \in SUBSET (took[token[s]] \cup suspects[s])
      BY <1>0, <2>2, <2>3
    <2>5. Cardinality(took[token[s]] \cup suspects[s]) <= candidates[s]
      BY <2>1, <2>3 DEF Allowed
    <2>6. Cardinality(took[token[s]] \cup suspects'[s]) <= candidates[s]
      BY <1>0, <2>4, <2>5, FiniteHashes
    <2>7. QED
      BY <2>1, <2>3, <2>6 DEF Allowed, Active
  <1>6. ASSUME NEW s \in Sweepers, Delete(s) PROVE Allowed'
    <2>1. /\ UNCHANGED <<late, token, candidates, suspects>> /\ pc[s] = "delete"
          /\ pc' = [pc EXCEPT ![s] = next[s]] /\ DeleteMarked(suspects[s], token[s])
      BY <1>6 DEF Delete
    <2>2. Active(s) /\ token[s] \in 1..MaxCalls /\ pc[s] \in AtPage /\ suspects[s] \in SUBSET Valid
      BY <2>1, ActiveToken DEF Active, Idle, AtPage, TypeOK
    <2>3. /\ took'[token[s]] \in SUBSET (took[token[s]] \cup suspects[s])
          /\ \A t \in (1..MaxCalls) \ {token[s]} : took'[t] = took[t]
      BY <2>1, <2>2, DeleteKeepsAllowance
    <2>4. took[token[s]] \cup suspects[s] \in SUBSET Hashes
      BY <1>0, <2>2
    <2>5. /\ Cardinality(took[token[s]] \cup suspects[s]) <= candidates[s]
          /\ candidates[s] <= Floor
      BY <2>2 DEF Allowed
    <2>6. Cardinality(took'[token[s]]) <= candidates[s] /\ Cardinality(took'[token[s]]) <= Floor
      <3>1. /\ Cardinality(took'[token[s]]) \in Nat
            /\ Cardinality(took[token[s]] \cup suspects[s]) \in Nat
            /\ Cardinality(took'[token[s]]) <= Cardinality(took[token[s]] \cup suspects[s])
        BY <2>3, <2>4, FiniteHashes
      <3>2. QED
        BY <1>0, <2>5, <3>1
    <2>7. pc'[s] = next[s] /\ next[s] \notin AtPage
      BY <2>1 DEF TypeOK, AtPage
    <2>8. ASSUME NEW u \in Sweepers, u # s, Active(u)'
          PROVE  /\ pc'[u] = pc[u] /\ Active(u) /\ token[u] \in 1..MaxCalls
                 /\ took'[token[u]] = took[token[u]]
      <3>1. pc'[u] = pc[u]
        BY <2>1, <2>8 DEF TypeOK
      <3>2. Active(u)
        BY <2>8, <3>1 DEF Active
      <3>3. token[u] \in 1..MaxCalls /\ token[u] # token[s]
        BY <2>2, <2>8, <3>2, ActiveToken
      <3>4. QED
        BY <2>3, <3>1, <3>2, <3>3
    <2>9. \A r \in late : took'[r.token] = took[r.token]
      BY <1>0, <2>2, <2>3, ActiveToken
    <2>10. \A t \in 1..MaxCalls : Cardinality(took'[t]) <= Floor
      BY <2>3, <2>6 DEF Allowed
    <2>11. \A r \in late' : Cardinality(took'[r.token] \cup r.hashes) <= Floor
      BY <2>1, <2>9 DEF Allowed
    <2>12. ASSUME NEW u \in Sweepers, Active(u)'
           PROVE  /\ candidates'[u] <= Floor
                  /\ Cardinality(took'[token'[u]]) <= candidates'[u]
                  /\ pc'[u] \in AtPage =>
                       Cardinality(took'[token'[u]] \cup suspects'[u]) <= candidates'[u]
      <3>1. CASE u = s
        BY <2>1, <2>5, <2>6, <2>7, <3>1
      <3>2. CASE u # s
        BY <2>1, <2>8, <2>12, <3>2 DEF Allowed
      <3>3. QED
        BY <3>1, <3>2
    <2>13. QED
      BY <2>10, <2>11, <2>12 DEF Allowed
  <1>7. ASSUME NEW s \in Sweepers, CutOff(s) PROVE Allowed'
    <2>1. /\ UNCHANGED <<token, took, candidates, suspects>> /\ Active(s) /\ ~Active(s)'
          /\ \A u \in Sweepers \ {s} : pc'[u] = pc[u]
      BY <1>7 DEF CutOff, Active, Idle, TypeOK
    <2>2. \A r \in late' : r \in late
            \/ (pc[s] \in AtPage /\ r.token = token[s] /\ r.hashes = suspects[s])
      BY <1>7 DEF CutOff, AtPage
    <2>3. pc[s] \in AtPage => Cardinality(took[token[s]] \cup suspects[s]) <= Floor
      <3>1. ASSUME pc[s] \in AtPage
            PROVE  /\ Cardinality(took[token[s]] \cup suspects[s]) <= candidates[s]
                   /\ candidates[s] <= Floor
        BY <2>1, <3>1 DEF Allowed
      <3>2. Cardinality(took[token[s]] \cup suspects[s]) \in Nat
        BY <1>0, <2>1, ActiveToken, FiniteHashes
      <3>3. QED
        BY <1>0, <3>1, <3>2
    <2>4. QED
      BY <2>1, <2>2, <2>3 DEF Allowed, Active
  <1>8. ASSUME NEW r \in late, LandLate(r) PROVE Allowed'
    <2>1. late' = late \ {r} /\ UNCHANGED locals
      BY <1>8 DEF LandLate
    <2>2. MarkNodes(r.hashes, r.token) \/ DeleteMarked(r.hashes, r.token)
      BY <1>8 DEF LandLate, Apply
    <2>3. CASE MarkNodes(r.hashes, r.token)
      BY <2>1, <2>3 DEF MarkNodes, Allowed, Active, locals
    <2>4. CASE DeleteMarked(r.hashes, r.token)
      <3>1. r.hashes \in SUBSET Valid /\ r.token \in 1..MaxCalls
        BY <1>0 DEF TypeOK, Requests
      <3>2. /\ took'[r.token] \in SUBSET (took[r.token] \cup r.hashes)
            /\ \A t \in (1..MaxCalls) \ {r.token} : took'[t] = took[t]
        BY <2>4, <3>1, DeleteKeepsAllowance
      <3>3. Cardinality(took'[r.token]) <= Floor
        <4>1. took[r.token] \cup r.hashes \in SUBSET Hashes
          BY <1>0
        <4>2. /\ Cardinality(took'[r.token]) \in Nat
              /\ Cardinality(took[r.token] \cup r.hashes) \in Nat
              /\ Cardinality(took'[r.token]) <= Cardinality(took[r.token] \cup r.hashes)
          BY <3>2, <4>1, FiniteHashes
        <4>3. QED
          BY <4>2 DEF Allowed
      <3>4. ASSUME NEW u \in Sweepers, Active(u)
            PROVE  took'[token[u]] = took[token[u]]
        BY <3>2, <3>4, ActiveToken
      <3>5. \A q \in late \ {r} : took'[q.token] = took[q.token]
        BY <1>0, <3>2 DEF TokensApart
      <3>6. \A t \in 1..MaxCalls : Cardinality(took'[t]) <= Floor
        BY <3>2, <3>3 DEF Allowed
      <3>7. QED
        BY <2>1, <3>4, <3>5, <3>6 DEF Allowed, Active, locals
    <2>5. QED
      BY <2>2, <2>3, <2>4
  <1>9. QED
    BY <1>1, <1>2, <1>3, <1>4, <1>5, <1>6, <1>7, <1>8, MoveFrame DEF Next, SweepStep, vars

\* Every step leaves a call that turns the page with nodes left to read.
LEMMA NextGoesOn == SweepInv /\ [Next]_vars => CallGoesOn'
  <1> SUFFICES ASSUME SweepInv, [Next]_vars PROVE CallGoesOn'
    OBVIOUS
  <1> USE SweepAssumption DEF SweepInv, TypeOK, stores, locals, ghosts
  <1>1. CASE UNCHANGED locals
    BY <1>1 DEF CallGoesOn
  <1>2. ASSUME NEW s \in Sweepers, Begin(s) PROVE CallGoesOn'
    <2>1. left' \in [Sweepers -> Nat] /\ left'[s] > 0
          /\ \A u \in Sweepers \ {s} : left'[u] = left[u]
      BY <1>2 DEF Begin
    <2>2. pc' = [pc EXCEPT ![s] = "list"] /\ next' = next
      BY <1>2 DEF Begin
    <2>3. QED
      BY <2>1, <2>2 DEF CallGoesOn, AtPage
  <1>3. ASSUME NEW s \in Sweepers, List(s) \/ Hold(s) \/ CutOff(s) PROVE CallGoesOn'
    BY <1>3 DEF List, Hold, CutOff, CallGoesOn, AtPage
  <1>4. ASSUME NEW s \in Sweepers, Read(s) PROVE CallGoesOn'
    <2>1. PICK h \in window[s] : IsLast(s, h)
      BY <1>4 DEF Read
    <2>2. Cardinality(PageOf(s)) \in Nat /\ Cardinality(PageOf(s)) <= left[s]
      BY <2>1, PageFits
    <2>3. left' = [left EXCEPT ![s] = @ - Cardinality(PageOf(s))]
          /\ next' = [next EXCEPT ![s] = Turn(s)]
          /\ (pc'[s] = Turn(s) \/ pc'[s] = "mark")
      BY <1>4 DEF Read
    <2>4. left[s] \in Nat /\ left'[s] = left[s] - Cardinality(PageOf(s)) /\ next'[s] = Turn(s)
      BY <2>3
    <2>5. Turn(s) = "list" => left'[s] > 0
      BY <2>2, <2>4 DEF Turn
    <2>6. Turn(s) # "read"
      BY DEF Turn
    <2>7. \A u \in Sweepers \ {s} : pc'[u] = pc[u] /\ left'[u] = left[u] /\ next'[u] = next[u]
      BY <1>4, <2>3 DEF Read
    <2>8. QED
      BY <2>3, <2>4, <2>5, <2>6, <2>7 DEF CallGoesOn, AtPage
  <1>5. ASSUME NEW s \in Sweepers, MarkPage(s) \/ Reread(s) \/ Delete(s) PROVE CallGoesOn'
    <2>1. UNCHANGED <<left, next>> /\ pc[s] \in AtPage
          /\ pc'[s] \in {"reread", "delete", next[s]}
          /\ \A u \in Sweepers \ {s} : pc'[u] = pc[u]
      BY <1>5 DEF MarkPage, Reread, Delete, AtPage
    <2>2. QED
      BY <2>1 DEF CallGoesOn
  <1>6. ASSUME NEW r \in late, LandLate(r) PROVE CallGoesOn'
    BY <1>1, <1>6 DEF LandLate
  <1>7. QED
    BY <1>1, <1>2, <1>3, <1>4, <1>5, <1>6, MoveFrame DEF Next, SweepStep, vars

\* No sweep of a collection that stays empty gets as far as a write.
LEMMA NextEmpty == SweepInv /\ [Next]_vars => EmptyIsHeld'
  <1> SUFFICES ASSUME SweepInv, [Next]_vars, Moving = {}, points' = {} PROVE EmptyIsHeld'
    BY DEF EmptyIsHeld
  <1> USE SweepAssumption DEF SweepInv, stores, locals, ghosts
  <1>1. points' = points
    BY DEF Next, SweepStep, Begin, List, Hold, Read, MarkPage, Reread, Delete, CutOff, LandLate,
       vars
  <1>2. /\ late = {} /\ pc \in [Sweepers -> Places]
        /\ \A s \in Sweepers : pc[s] \notin AtPage
        /\ \A t \in 1..MaxCalls : took[t] = {}
    BY <1>1 DEF EmptyIsHeld, TypeOK
  <1>3. CASE UNCHANGED vars
    BY <1>2, <1>3 DEF vars, EmptyIsHeld
  <1>4. ASSUME NEW s \in Sweepers, Begin(s) \/ List(s) \/ Hold(s) \/ CutOff(s) PROVE EmptyIsHeld'
    <2>1. UNCHANGED <<late, took>> /\ pc'[s] \notin AtPage
      BY <1>2, <1>4 DEF Begin, List, Hold, CutOff, AtPage
    <2>2. \A u \in Sweepers \ {s} : pc'[u] = pc[u]
      BY <1>2, <1>4 DEF Begin, List, Hold, CutOff
    <2>3. QED
      BY <1>2, <2>1, <2>2 DEF EmptyIsHeld
  <1>5. ASSUME NEW s \in Sweepers, Read(s) PROVE EmptyIsHeld'
    <2>1. Missing(s) = {}
      BY <1>1, <1>5 DEF Read, WindowHolds, Missing
    <2>2. UNCHANGED <<late, took>> /\ pc' = [pc EXCEPT ![s] = Turn(s)]
      BY <1>5, <2>1 DEF Read
    <2>3. Turn(s) \notin AtPage
      BY DEF Turn, AtPage
    <2>4. QED
      BY <1>2, <2>2, <2>3 DEF EmptyIsHeld
  <1>6. ASSUME NEW s \in Sweepers, MarkPage(s) \/ Reread(s) \/ Delete(s) PROVE FALSE
    BY <1>2, <1>6 DEF MarkPage, Reread, Delete, AtPage
  <1>7. QED
    BY <1>2, <1>3, <1>4, <1>5, <1>6 DEF Next, SweepStep

\* A set of hashes that is not empty has a least member.
LEMMA LeastHash ==
  ASSUME NEW S \in SUBSET Hashes, S # {}
  PROVE  \E m \in S : \A g \in S : m <= g
  <1>1. \E R : IsWellFoundedOn(R, Nat) /\ \A x, y \in Nat : x < y => <<x, y>> \in R
    BY NatLessThanWellFounded DEF OpToRel
  <1>2. PICK R : IsWellFoundedOn(R, Nat) /\ \A x, y \in Nat : x < y => <<x, y>> \in R
    BY <1>1
  <1>3. S \subseteq Nat
    BY DEF Hashes
  <1>4. PICK m \in S : \A g \in S : ~(<<g, m>> \in R)
    <2>1. IsWellFoundedOn(R, Nat)
      BY <1>2
    <2>2. QED
      BY <1>3, <2>1, WFMin
  <1>5. \A g \in S : ~(g < m)
    BY <1>2, <1>3, <1>4
  <1>6. QED
    BY <1>3, <1>5

\* The members of a set that are left out of its first n come after them.
LEMMA FirstComesFirst ==
  ASSUME NEW S \in SUBSET Hashes, NEW n \in Nat,
         NEW h \in First(n, S), NEW g \in S \ First(n, S)
  PROVE  h < g
  <1> DEFINE upTo(k) == {i \in S : i <= k}
  <1>1. h \in S /\ S \subseteq Nat /\ Cardinality(upTo(h)) <= n /\ ~(Cardinality(upTo(g)) <= n)
    BY DEF First, Hashes
  <1>2. SUFFICES ASSUME g <= h PROVE FALSE
    BY <1>1
  <1>3. upTo(h) \in SUBSET Hashes /\ upTo(g) \in SUBSET upTo(h)
    <2>1. ASSUME NEW i \in S, i <= g PROVE i <= h
      BY <1>1, <1>2, <2>1
    <2>2. QED
      BY <2>1
  <1>4. /\ Cardinality(upTo(h)) \in Nat /\ Cardinality(upTo(g)) \in Nat
        /\ Cardinality(upTo(g)) <= Cardinality(upTo(h))
    BY <1>3, FiniteHashes
  <1>5. QED
    BY <1>1, <1>4

\* When fewer than n come first, that is the whole set.
LEMMA ShortIsAll ==
  ASSUME NEW S \in SUBSET Hashes, NEW n \in Nat, Cardinality(First(n, S)) < n
  PROVE  First(n, S) = S
  <1>1. First(n, S) \in SUBSET S
    BY DEF First
  <1>2. SUFFICES ASSUME S \ First(n, S) # {} PROVE FALSE
    BY <1>1
  <1>3. PICK m \in S \ First(n, S) : \A g \in S \ First(n, S) : m <= g
    BY <1>2, LeastHash
  <1> DEFINE upTo == {i \in S : i <= m}
  <1>4. upTo \in SUBSET (First(n, S) \cup {m})
    <2>1. \A i \in upTo : i \notin First(n, S) => i = m
      BY <1>3 DEF Hashes
    <2>2. QED
      BY <2>1
  <1>5. First(n, S) \in SUBSET Hashes /\ First(n, S) \cup {m} \in SUBSET Hashes /\ {m} \in SUBSET Hashes
    BY <1>1
  <1>6. Cardinality(First(n, S) \cup {m}) <= Cardinality(First(n, S)) + 1
    BY <1>5, UnionBound, FS_Singleton
  <1>7. /\ Cardinality(upTo) \in Nat /\ Cardinality(First(n, S) \cup {m}) \in Nat
        /\ Cardinality(First(n, S)) \in Nat
        /\ Cardinality(upTo) <= Cardinality(First(n, S) \cup {m})
    BY <1>4, <1>5, FiniteHashes
  <1>8. Cardinality(upTo) <= n
    BY <1>6, <1>7
  <1>9. QED
    BY <1>3, <1>8 DEF First

\* A pass whose place does not change, and whose marks stay, is still ahead
\* of what it has to remove when that has not grown.
LEMMA StaysAhead ==
  ASSUME NEW s \in Sweepers, AheadOf(s),
         UNCHANGED <<pc[s], after[s], from[s], window[s], suspects[s], next[s], token[s]>>,
         Due(s)' \in SUBSET Due(s), Due(s)' \cap points' = {},
         pc[s] \in {"reread", "delete"} =>
           \A h \in Due(s)' \cap suspects[s] : mark'[h] = mark[h]
  PROVE  AheadOf(s)'
  BY DEF AheadOf, Active

\* A step of one sweep leaves the place of every other.
LEMMA OtherSweeps ==
  ASSUME TypeOK, NEW s \in Sweepers, NEW u \in Sweepers, u # s, SweepStep(s)
  PROVE  /\ UNCHANGED <<pc[u], after[u], from[u], window[u], suspects[u], next[u], token[u]>>
         /\ points' = points
  <1> USE DEF TypeOK, stores
  <1>1. CASE Begin(s)
    BY <1>1 DEF Begin
  <1>2. CASE List(s) \/ Hold(s) \/ Read(s) \/ CutOff(s)
    BY <1>2 DEF List, Hold, Read, CutOff
  <1>3. CASE MarkPage(s) \/ Reread(s) \/ Delete(s)
    BY <1>3 DEF MarkPage, Reread, Delete
  <1>4. QED
    BY <1>1, <1>2, <1>3 DEF SweepStep

\* A write of the graph, of its own call or late, leaves every other pass
\* ahead: a mark of another token strips what it marks from what is due.
LEMMA WriteStaysAhead ==
  ASSUME SweepInv, NEW u \in Sweepers, NEW H, NEW t,
         MarkNodes(H, t) \/ DeleteMarked(H, t), Active(u) => token[u] # t,
         UNCHANGED <<points, pc[u], after[u], from[u], window[u], suspects[u], next[u], token[u]>>
  PROVE  AheadOf(u)'
  <1> USE DEF SweepInv
  <1>1. AheadOf(u) /\ mark \in [Hashes -> Tokens] /\ nodes \in SUBSET Hashes
    BY DEF DueAhead, TypeOK
  <1>2. Due(u)' \in SUBSET Due(u)
    BY DEF Due, MarkNodes, DeleteMarked, Detach
  <1>3. ASSUME pc[u] \in {"reread", "delete"}, NEW h \in Due(u)' \cap suspects[u]
        PROVE  mark'[h] = mark[h]
    <2>1. token[u] # t
      BY <1>3 DEF Active, Idle
    <2>2. h \in Hashes
      BY <1>1, <1>2 DEF Due
    <2>3. CASE MarkNodes(H, t)
      BY <1>3, <2>1, <2>2, <2>3 DEF MarkNodes, Due
    <2>4. CASE DeleteMarked(H, t)
      BY <1>3, <2>2, <2>4 DEF DeleteMarked, Detach, Due
    <2>5. QED
      BY <2>3, <2>4
  <1>4. Due(u)' \cap points' = {}
    BY <1>1, <1>2 DEF AheadOf
  <1>5. QED
    BY <1>1, <1>2, <1>3, <1>4, StaysAhead

\* Every step leaves every pass ahead of what it has to remove.
LEMMA NextAhead == SweepInv /\ [Next]_vars => DueAhead'
  <1> SUFFICES ASSUME SweepInv, [Next]_vars PROVE DueAhead'
    OBVIOUS
  <1> USE SweepAssumption DEF SweepInv, stores, locals, ghosts
  <1>0. /\ \A s \in Sweepers : AheadOf(s) /\ Due(s) \in SUBSET Hashes
        /\ nodes \in SUBSET Hashes /\ mark \in [Hashes -> Tokens]
        /\ pc \in [Sweepers -> Places] /\ after \in [Sweepers -> 0..N]
        /\ stray \in [Sweepers -> SUBSET Valid]
    BY DEF DueAhead, Due, TypeOK
  <1>1. CASE UNCHANGED vars
    BY <1>1 DEF vars, DueAhead, AheadOf, Due, Active
  <1>2. ASSUME NEW h \in Moving, Move(h) PROVE DueAhead'
    <2>1. SUFFICES ASSUME NEW s \in Sweepers PROVE AheadOf(s)'
      BY DEF DueAhead
    <2>2. UNCHANGED locals
      BY <1>2, MoveFrame
    <2>3. /\ Due(s)' \in SUBSET Due(s) /\ Due(s)' \cap points' = {}
          /\ \A g \in Due(s)' : mark'[g] = mark[g]
      <3>1. Due(s) \cap points = {}
        BY <1>0 DEF AheadOf
      <3>2. CASE PutPoint(h)
        BY <3>1, <3>2 DEF PutPoint, Touch, Due
      <3>3. CASE RefuteReads(h) \/ EnsureLost(h) \/ Link(h) \/ DropNodeLost(h)
        BY <3>1, <3>3 DEF RefuteReads, EnsureLost, Link, DropNodeLost, Due
      <3>4. CASE EnsureNode(h)
        BY <1>0, <3>1, <3>4 DEF EnsureNode, Cleared, Touch, Due
      <3>5. CASE DropPoint(h)
        BY <3>1, <3>5 DEF DropPoint, Due
      <3>6. CASE DropNode(h)
        BY <1>0, <3>1, <3>6 DEF DropNode, Detach, Due
      <3>7. QED
        BY <1>2, <3>2, <3>3, <3>4, <3>5, <3>6 DEF Move
    <2>4. QED
      BY <1>0, <2>2, <2>3, StaysAhead
  <1>3. ASSUME NEW s \in Sweepers, SweepStep(s), AheadOf(s)',
               stray' = [stray EXCEPT ![s] = stray'[s]], UNCHANGED <<nodes, mark>>
        PROVE DueAhead'
    <2>1. SUFFICES ASSUME NEW u \in Sweepers, u # s PROVE AheadOf(u)'
      BY <1>3 DEF DueAhead
    <2>2. /\ UNCHANGED <<pc[u], after[u], from[u], window[u], suspects[u], next[u], token[u]>>
          /\ points' = points
      BY <1>3, <2>1, OtherSweeps
    <2>3. Due(u)' = Due(u)
      BY <1>0, <1>3, <2>1 DEF Due
    <2>4. Due(u) \cap points = {}
      BY <1>0 DEF AheadOf
    <2>5. QED
      BY <1>0, <1>3, <2>2, <2>3, <2>4, StaysAhead
  <1>4. ASSUME NEW s \in Sweepers, Begin(s) PROVE DueAhead'
    <2>1. /\ pc[s] \in Idle /\ pc'[s] = "list" /\ UNCHANGED <<nodes, mark, points>>
          /\ from'[s] = after'[s] /\ stray' = [stray EXCEPT ![s] = stray'[s]]
      BY <1>0, <1>4 DEF Begin, TypeOK
    <2>2. \/ after'[s] = 0 /\ Due(s)' = (nodes \cap Valid) \ points
          \/ pc[s] # "passed" /\ after'[s] = after[s] /\ Due(s)' = Due(s)
      BY <1>0, <1>4, <2>1 DEF Begin, Due
    <2>3. Due(s)' \cap points' = {} /\ \A h \in Due(s)' : h > after'[s]
      <3>1. CASE after'[s] = 0 /\ Due(s)' = (nodes \cap Valid) \ points
        BY <1>0, <2>1, <3>1 DEF Hashes
      <3>2. CASE pc[s] # "passed" /\ after'[s] = after[s] /\ Due(s)' = Due(s)
        BY <1>0, <2>1, <3>2 DEF AheadOf, Idle, AtPage
      <3>3. QED
        BY <2>2, <3>1, <3>2
    <2>4. AheadOf(s)'
      BY <2>1, <2>3 DEF AheadOf, AtPage
    <2>5. QED
      BY <1>3, <1>4, <2>1, <2>4 DEF SweepStep
  <1>5. ASSUME NEW s \in Sweepers, List(s) PROVE DueAhead'
    <2> DEFINE S == {h \in nodes : h > after[s]}
    <2>1. /\ pc[s] = "list" /\ window'[s] = First(Page, S) /\ UNCHANGED <<stores, ghosts, after, from>>
          /\ pc'[s] = IF First(Page, S) = {} THEN "passed" ELSE "read"
      BY <1>0, <1>5 DEF List, TypeOK
    <2>2. S \in SUBSET Hashes /\ Due(s) \in SUBSET S /\ Due(s)' = Due(s) /\ Page \in Nat /\ Page > 0
      BY <1>0, <2>1 DEF AheadOf, AtPage, Due
    <2>3. Cardinality(First(Page, S)) < Page => First(Page, S) = S
      BY <2>2, ShortIsAll
    <2>4. First(Page, S) = {} => Due(s) = {}
      BY <2>2, <2>3, FS_EmptySet
    <2>5. \A h \in Due(s) \ First(Page, S), g \in First(Page, S) : g < h
      BY <2>2, FirstComesFirst
    <2>6. Due(s) \cap points = {} /\ \A h \in Due(s) : h > from[s] /\ h > after[s]
      BY <1>0, <2>1 DEF AheadOf, Active, Idle, AtPage
    <2>7. AheadOf(s)'
      BY <2>1, <2>2, <2>3, <2>4, <2>5, <2>6 DEF AheadOf, AtPage
    <2>8. stray' = [stray EXCEPT ![s] = stray'[s]]
      BY <1>0, <2>1
    <2>9. QED
      BY <1>3, <1>5, <2>1, <2>7, <2>8 DEF SweepStep
  <1>6. ASSUME NEW s \in Sweepers, Hold(s) PROVE DueAhead'
    <2>1. /\ pc[s] = "read" /\ pc'[s] = "held" /\ UNCHANGED <<stores, ghosts, after, from>>
      BY <1>0, <1>6 DEF Hold
    <2>2. AheadOf(s)'
      BY <1>0, <2>1 DEF AheadOf, AtPage, Active, Idle, Due
    <2>3. stray' = [stray EXCEPT ![s] = stray'[s]]
      BY <1>0, <2>1
    <2>4. QED
      BY <1>3, <1>6, <2>1, <2>2, <2>3 DEF SweepStep
  <1>7. ASSUME NEW s \in Sweepers, Read(s) PROVE DueAhead'
    <2> DEFINE gone == Missing(s) \cap PageOf(s)
    <2>1. PICK l \in window[s] : IsLast(s, l) /\ after' = [after EXCEPT ![s] = l]
      BY <1>7 DEF Read
    <2>2. /\ pc[s] = "read" /\ UNCHANGED <<stores, ghosts, from, window>> /\ after'[s] = l
          /\ suspects'[s] = gone /\ next'[s] = Turn(s)
          /\ pc'[s] = IF gone = {} THEN Turn(s) ELSE "mark"
      BY <1>0, <1>7, <2>1 DEF Read, TypeOK
    <2>3. window[s] \in SUBSET Hashes /\ PageOf(s) \in SUBSET window[s] /\ Want(s) \in Nat
          /\ Want(s) <= Page /\ Due(s)' = Due(s)
      BY <2>2 DEF TypeOK, PageOf, First, Want, Due
    <2>4. /\ Due(s) \cap points = {}
          /\ \A h \in Due(s) : h > from[s]
          /\ \A h \in Due(s) \ window[s], g \in window[s] : g < h
          /\ Cardinality(window[s]) < Page => Due(s) \subseteq window[s]
      BY <1>0, <2>2 DEF AheadOf, Active, Idle
    <2>5. Due(s) \cap PageOf(s) \in SUBSET gone
      BY <1>0, <2>3, <2>4 DEF Due, Missing
    <2>6. \A h \in Due(s) \ PageOf(s) : h > l
      BY <2>1, <2>3, <2>4, FirstComesFirst DEF PageOf, IsLast, Hashes
    <2>7. Turn(s) = "passed" => Due(s) \in SUBSET PageOf(s)
      <3>1. SUFFICES ASSUME Cardinality(PageOf(s)) < Want(s) PROVE Due(s) \in SUBSET PageOf(s)
        BY DEF Turn
      <3>2. PageOf(s) = window[s]
        BY <2>3, <3>1, ShortIsAll DEF PageOf
      <3>3. Cardinality(window[s]) < Page
        BY <2>3, <3>1, <3>2, FiniteHashes
      <3>4. QED
        BY <2>4, <3>2, <3>3
    <2>8. Turn(s) \in {"passed", "over", "list"}
      BY DEF Turn
    <2>9. AheadOf(s)'
      <3>1. CASE gone = {}
        <4>1. Due(s) \cap PageOf(s) = {}
          BY <2>5, <3>1
        <4>2. \A h \in Due(s) : h > l
          BY <2>6, <4>1
        <4>3. Turn(s) = "passed" => Due(s) = {}
          BY <2>7, <4>1
        <4>4. QED
          BY <2>2, <2>3, <2>4, <2>8, <3>1, <4>2, <4>3 DEF AheadOf, AtPage
      <3>2. CASE gone # {}
        <4>1. \A h \in Due(s) \ gone : h > l /\ Turn(s) # "passed"
          BY <2>5, <2>6, <2>7
        <4>2. pc'[s] = "mark"
          BY <2>2, <3>2
        <4>3. QED
          BY <2>2, <2>3, <2>4, <4>1, <4>2 DEF AheadOf, AtPage
      <3>3. QED
        BY <3>1, <3>2
    <2>10. stray' = [stray EXCEPT ![s] = stray'[s]]
      BY <1>0, <2>2
    <2>11. QED
      BY <1>3, <1>7, <2>2, <2>9, <2>10 DEF SweepStep
  <1>8. ASSUME NEW s \in Sweepers, MarkPage(s) \/ Delete(s) PROVE DueAhead'
    <2>1. MarkNodes(suspects[s], token[s]) \/ DeleteMarked(suspects[s], token[s])
      BY <1>8 DEF MarkPage, Delete
    <2>2. Active(s) /\ pc[s] \in AtPage
      BY <1>8 DEF MarkPage, Delete, Active, Idle, AtPage
    <2>3. ASSUME NEW u \in Sweepers, u # s PROVE AheadOf(u)'
      BY <1>8, <2>1, <2>2, <2>3, OtherSweeps, ActiveToken, WriteStaysAhead DEF SweepStep
    <2>4. /\ Due(s) \cap points = {}
          /\ \A h \in Due(s) : h > from[s]
          /\ \A h \in Due(s) \ suspects[s] : next[s] # "passed" /\ h > after[s]
          /\ pc[s] = "delete" => \A h \in Due(s) \cap suspects[s] : mark[h] = token[s]
      BY <1>0, <2>2 DEF AheadOf
    <2>5. UNCHANGED <<points, after, from, suspects, next, token>>
      BY <1>8 DEF MarkPage, Delete
    <2>6. CASE MarkPage(s)
      <3>1. pc'[s] = "reread" /\ Due(s)' = Due(s)
            /\ \A h \in Due(s) \cap suspects[s] : mark'[h] = token[s]
        BY <1>0, <2>6 DEF MarkPage, MarkNodes, Due
      <3>2. QED
        BY <2>3, <2>4, <2>5, <3>1 DEF DueAhead, AheadOf, AtPage
    <2>7. CASE Delete(s)
      <3>1. pc'[s] = next[s] /\ pc[s] = "delete" /\ next[s] \in {"passed", "over", "list"}
        BY <1>0, <2>7 DEF Delete, TypeOK
      <3>2. Due(s)' = Due(s) \ suspects[s]
        BY <2>4, <2>7, <3>1 DEF Delete, DeleteMarked, Detach, Marked, Due
      <3>3. AheadOf(s)'
        BY <2>4, <2>5, <3>1, <3>2 DEF AheadOf, AtPage
      <3>4. QED
        BY <2>3, <3>3 DEF DueAhead
    <2>8. QED
      BY <1>8, <2>6, <2>7
  <1>9. ASSUME NEW s \in Sweepers, Reread(s) PROVE DueAhead'
    <2>1. /\ pc[s] = "reread" /\ UNCHANGED <<stores, ghosts, after, from, next, token>>
          /\ suspects'[s] = suspects[s] \ points /\ next[s] \in {"passed", "over", "list"}
          /\ pc'[s] = IF suspects[s] \ points = {} THEN next[s] ELSE "delete"
      BY <1>0, <1>9 DEF Reread, StillGone, TypeOK
    <2>2. /\ Due(s) \cap points = {} /\ Due(s)' = Due(s)
          /\ \A h \in Due(s) : h > from[s]
          /\ \A h \in Due(s) \ suspects[s] : next[s] # "passed" /\ h > after[s]
          /\ \A h \in Due(s) \cap suspects[s] : mark[h] = token[s]
      BY <1>0, <2>1 DEF AheadOf, Active, Idle, AtPage, Due
    <2>3. AheadOf(s)'
      BY <2>1, <2>2 DEF AheadOf, AtPage
    <2>4. stray' = [stray EXCEPT ![s] = stray'[s]]
      BY <1>0, <2>1
    <2>5. QED
      BY <1>3, <1>9, <2>1, <2>3, <2>4 DEF SweepStep
  <1>10. ASSUME NEW s \in Sweepers, CutOff(s) PROVE DueAhead'
    <2>1. Active(s) /\ pc'[s] = "failed" /\ after'[s] = from[s] /\ UNCHANGED <<stores, ghosts, from>>
      BY <1>0, <1>10 DEF CutOff, Active
    <2>2. AheadOf(s)'
      BY <1>0, <2>1 DEF AheadOf, AtPage, Active, Idle, Due
    <2>3. stray' = [stray EXCEPT ![s] = stray'[s]]
      BY <1>0, <2>1
    <2>4. QED
      BY <1>3, <1>10, <2>1, <2>2, <2>3 DEF SweepStep
  <1>11. ASSUME NEW r \in late, LandLate(r) PROVE DueAhead'
    <2>1. MarkNodes(r.hashes, r.token) \/ DeleteMarked(r.hashes, r.token)
      BY <1>11 DEF LandLate, Apply
    <2>2. UNCHANGED <<points, locals>>
      BY <1>11 DEF LandLate
    <2>3. ASSUME NEW u \in Sweepers PROVE AheadOf(u)'
      BY <2>1, <2>2, ActiveToken, WriteStaysAhead
    <2>4. QED
      BY <2>3 DEF DueAhead
  <1>12. QED
    BY <1>1, <1>2, <1>4, <1>5, <1>6, <1>7, <1>8, <1>9, <1>10, <1>11 DEF Next, SweepStep

\* Holds of every behaviour, for any number of hashes, processes and calls:
\* tokens stay apart, deletes under way spare what was ensured, and calls keep
\* within their allowance.
THEOREM InvariantHolds == Spec => []SweepInv
  <1>1. SweepInv /\ [Next]_vars => SweepInv'
    BY NextType, NextTokens, NextSpares, NextAllowed, NextGoesOn, NextAhead, NextEmpty DEF SweepInv
  <1>2. QED
    BY InitInv, <1>1, PTL DEF Spec

\* The state has the types TypeOK names.
THEOREM TypeCorrect == Spec => []TypeOK
  <1>1. SweepInv => TypeOK
    BY DEF SweepInv
  <1>2. QED
    BY InvariantHolds, <1>1, PTL

\* sweep_gone_memory_nodes: a call removes at most GRAPH_SWEEP_HOLD_FLOOR
\* nodes, over all its pages, its request cut off and landing late included.
THEOREM CallsKeepAllowance == Spec => []CallAllowance
  <1>1. SweepInv => CallAllowance
    BY DEF SweepInv, Allowed, CallAllowance
  <1>2. QED
    BY InvariantHolds, <1>1, PTL

\* sweep_gone_memory_nodes: a pass that reaches the end has removed every
\* node that had no point when it began and that nothing touched since,
\* through any pages, limits, holds, failures and resumptions.
THEOREM PassesAreComplete == Spec => []PassComplete
  <1>1. SweepInv => PassComplete
    BY DEF SweepInv, DueAhead, AheadOf, Due, PassComplete
  <1>2. QED
    BY InvariantHolds, <1>1, PTL

\* sweep_gone_memory_nodes: of a collection that is and stays empty, whatever
\* the graph's size, the window check holds every page, and nothing is removed.
THEOREM EmptyCollectionsAreSpared == Spec => []EmptyCollectionKeepsNodes
  <1>1. SweepInv => EmptyCollectionKeepsNodes
    BY DEF SweepInv, EmptyIsHeld, EmptyCollectionKeepsNodes
  <1>2. QED
    BY InvariantHolds, <1>1, PTL

\* A step that takes the node of a memory that is there and was ensured is
\* delete_node, of a delete_memory under way.
LEMMA StepSpares ==
  SweepInv /\ [Next]_vars =>
    \A h \in own \cap own' : h \in nodes => h \in nodes' \/ h \in removing
  <1> SUFFICES ASSUME SweepInv, [Next]_vars, NEW g \in own \cap own', g \in nodes,
                      g \notin nodes'
               PROVE  g \in removing
    OBVIOUS
  <1> USE SweepAssumption DEF SweepInv, stores, locals, ghosts
  <1>1. nodes' # nodes
    OBVIOUS
  <1>2. ASSUME NEW h \in Moving, Move(h) PROVE g \in removing
    BY <1>2 DEF Move, PutPoint, RefuteReads, EnsureNode, EnsureLost, Link, DropPoint, DropNode,
       Detach, DropNodeLost
  <1>3. ASSUME NEW H, NEW t, DeleteMarked(H, t) PROVE g \in H /\ mark[g] = t
    BY <1>3 DEF DeleteMarked, Detach, Marked
  <1>4. ASSUME NEW s \in Sweepers, Delete(s) PROVE FALSE
    <2>1. g \in suspects[s] /\ mark[g] = token[s] /\ pc[s] = "delete"
      BY <1>3, <1>4 DEF Delete
    <2>2. QED
      BY <2>1 DEF DeletesSpareEnsured
  <1>5. ASSUME NEW r \in late, LandLate(r) PROVE FALSE
    <2>1. r.op # "mark"
      BY <1>1, <1>5 DEF LandLate, Apply, MarkNodes
    <2>2. r.op = "delete" /\ DeleteMarked(r.hashes, r.token)
      BY <1>5, <2>1 DEF LandLate, Apply, TypeOK, Requests
    <2>3. g \in r.hashes /\ mark[g] = r.token
      BY <1>3, <2>2
    <2>4. QED
      BY <2>2, <2>3 DEF DeletesSpareEnsured
  <1>6. ASSUME NEW s \in Sweepers, Begin(s) \/ List(s) \/ Hold(s) \/ Read(s) \/ MarkPage(s)
                                   \/ Reread(s) \/ CutOff(s)
        PROVE FALSE
    BY <1>1, <1>6 DEF Begin, List, Hold, Read, MarkPage, MarkNodes, Reread, CutOff
  <1>7. QED
    BY <1>1, <1>2, <1>4, <1>5, <1>6 DEF Next, SweepStep, vars

\* No sweep takes the node of a memory that is there and whose store ensured
\* it: only a delete_memory of it does.
THEOREM SweepsSpareEnsured == Spec => EnsuredNodesStay
  <1>1. SweepInv /\ [Next]_vars =>
          [\A h \in own \cap own' : h \in nodes => h \in nodes' \/ h \in removing]_vars
    BY StepSpares
  <1>2. QED
    BY InvariantHolds, <1>1, PTL DEF Spec, EnsuredNodesStay

=============================================================================
