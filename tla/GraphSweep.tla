----------------------------- MODULE GraphSweep -----------------------------
(***************************************************************************)
(* The sweep of graph nodes whose memory is gone                           *)
(* (crates/alaya-core/src/service.rs: sweep_gone_memory_nodes;             *)
(* crates/alaya-bridge/src/cypher.rs: the sweep queries, ensure_node).     *)
(*                                                                         *)
(* A memory is a point in Qdrant and a node in the graph, written by       *)
(* separate calls: a store puts the point and then ensures the node, a     *)
(* delete removes the point and then the node, and either graph call may   *)
(* fail, or land late, without failing its caller.  A sweep removes the    *)
(* nodes left without a point while stores and deletes go on.  It has no   *)
(* transaction over the two stores: it marks the nodes it found without a  *)
(* point with a token of its own, reads Qdrant again, and deletes those    *)
(* that still carry its mark; ensuring a node clears the mark.             *)
(*                                                                         *)
(* Hashes are the numbers 1..N, in the order the pages follow.  There is   *)
(* one sweeper per process (a second call to a process is refused as       *)
(* busy).  A step of a sweep that calls the bridge may be cut off by an    *)
(* error or the deadline, and its request may then land at any later time. *)
(***************************************************************************)
EXTENDS Naturals, FiniteSets

CONSTANTS N,          \* memory hashes
          Malformed,  \* those that are no valid content hash
          Sweepers,   \* processes that sweep
          Page,       \* GRAPH_SWEEP_PAGE
          Floor,      \* GRAPH_SWEEP_HOLD_FLOOR
          Limits,     \* values callers give for limit
          Moving,     \* bound: hashes stored, refuted, linked and deleted meanwhile
          MaxCalls    \* bound: sweep calls

Hashes == 1..N
Valid == Hashes \ Malformed

ASSUME SweepAssumption ==
  /\ N \in Nat /\ Page \in Nat \ {0} /\ Floor \in Nat /\ MaxCalls \in Nat
  /\ Malformed \subseteq Hashes /\ Moving \subseteq Valid /\ Limits \subseteq Nat \ {0}

VARIABLES
  points,    \* hashes that have a Qdrant point
  nodes,     \* hashes that have a Memory node
  mark,      \* sweep_mark of each node; 0 is null
  ensuring,  \* ensure_node requests under way
  removing,  \* delete_node requests under way
  late,      \* sweep requests cut off before their answer: [op, token, hashes]
  tokens,    \* the last token handed out
  pc, after, left, token, window, suspects, next, candidates, \* locals of a call
  from,      \* the after a call was made with
  \* history variables
  own,       \* points whose node was ensured since the point was put
  fresh,     \* nodes with an edge made while their point was there
  took,      \* per token: the nodes removed under it
  stray      \* per sweeper: nodes without a point since its pass began, untouched

stores == <<points, nodes, mark, ensuring, removing>>
locals == <<pc, after, left, token, window, suspects, next, candidates, from>>
ghosts == <<own, fresh, took, stray>>
vars == <<stores, late, tokens, locals, ghosts>>

-----------------------------------------------------------------------------
(* The graph's side *)

\* The n smallest members of S.
First(n, S) == {h \in S : Cardinality({g \in S : g <= h}) <= n}

\* DETACH DELETE of the nodes of H.
Detach(H) ==
  /\ nodes' = nodes \ H
  /\ mark' = [h \in Hashes |-> IF h \in H THEN 0 ELSE mark[h]]
  /\ fresh' = fresh \ H

\* sweep_mark_memory_nodes
MarkNodes(H, t) ==
  /\ mark' = [h \in Hashes |-> IF h \in H \cap nodes THEN t ELSE mark[h]]
  /\ stray' = [s \in Sweepers |-> IF token[s] = t THEN stray[s] ELSE stray[s] \ H]
  /\ UNCHANGED <<nodes, fresh, took>>

\* sweep_delete_marked_nodes
\* (Slip: it does not look at the mark.)
MarkedAny(H, t) == H \cap nodes
Marked(H, t) == {h \in H \cap nodes : mark[h] = t}
DeleteMarked(H, t) ==
  /\ Detach(Marked(H, t))
  /\ took' = [took EXCEPT ![t] = @ \cup Marked(H, t)]
  /\ UNCHANGED stray

Apply(op, H, t) == IF op = "mark" THEN MarkNodes(H, t) ELSE DeleteMarked(H, t)

-----------------------------------------------------------------------------
(* Stores, refutes and deletes *)

Touch(h) == stray' = [s \in Sweepers |-> stray[s] \ {h}]

\* The point of a store lands; it is new or replaces the one there.
PutPoint(h) ==
  /\ points' = points \cup {h}
  /\ ensuring' = ensuring \cup {h}
  /\ Touch(h)
  /\ UNCHANGED <<nodes, mark, removing, late, tokens, locals, own, fresh, took>>

\* A refute that read the point ensures the node before it links to it.
RefuteReads(h) ==
  /\ h \in points
  /\ ensuring' = ensuring \cup {h}
  /\ UNCHANGED <<points, nodes, mark, removing, late, tokens, locals, ghosts>>

\* ensure_node
\* (Slip: it keeps the mark of a node that exists.)
ClearedOnlyIfNew(h) == IF h \in nodes THEN mark ELSE [mark EXCEPT ![h] = 0]
Cleared(h) == [mark EXCEPT ![h] = 0]
EnsureNode(h) ==
  /\ h \in ensuring
  /\ nodes' = nodes \cup {h}
  /\ mark' = Cleared(h)
  /\ ensuring' = ensuring \ {h}
  /\ own' = IF h \in points THEN own \cup {h} ELSE own
  /\ Touch(h)
  /\ UNCHANGED <<points, removing, late, tokens, locals, fresh, took>>

\* The ensure fails, or its process stops: the caller does not fail for it.
EnsureLost(h) ==
  /\ h \in ensuring
  /\ ensuring' = ensuring \ {h}
  /\ UNCHANGED <<points, nodes, mark, removing, late, tokens, locals, ghosts>>

\* Another memory's store, a relation or a supersession adds an edge to the
\* node of a memory it found; these queries MATCH the node, they never make it.
Link(h) ==
  /\ h \in points \cap nodes
  /\ fresh' = fresh \cup {h}
  /\ UNCHANGED <<stores, late, tokens, locals, own, took, stray>>

\* delete_memory: the point goes, and then the node, unless that fails.
DropPoint(h) ==
  /\ points' = points \ {h}
  /\ removing' = removing \cup {h}
  /\ own' = own \ {h}
  /\ fresh' = fresh \ {h}
  /\ UNCHANGED <<nodes, mark, ensuring, late, tokens, locals, took, stray>>

DropNode(h) ==
  /\ h \in removing
  /\ removing' = removing \ {h}
  /\ Detach({h})
  /\ UNCHANGED <<points, ensuring, late, tokens, locals, own, took, stray>>

DropNodeLost(h) ==
  /\ h \in removing
  /\ removing' = removing \ {h}
  /\ UNCHANGED <<points, nodes, mark, ensuring, late, tokens, locals, ghosts>>

-----------------------------------------------------------------------------
(* One call of sweep_gone_memory_nodes *)

Idle == {"idle", "passed", "over", "held", "failed"}

\* A pass starts at the beginning, or resumes where the last call says.
Begin(s) ==
  /\ pc[s] \in Idle
  /\ tokens < MaxCalls
  /\ tokens' = tokens + 1
  /\ token' = [token EXCEPT ![s] = tokens + 1]
  /\ \/ /\ after' = [after EXCEPT ![s] = 0]
        /\ stray' = [stray EXCEPT ![s] = (nodes \cap Valid) \ points]
     \/ pc[s] # "passed" /\ after[s] # 0 /\ UNCHANGED <<after, stray>>
  /\ from' = [from EXCEPT ![s] = after'[s]]
  /\ \E l \in Limits : left' = [left EXCEPT ![s] = l]
  /\ candidates' = [candidates EXCEPT ![s] = 0]
  /\ pc' = [pc EXCEPT ![s] = "list"]
  /\ UNCHANGED <<stores, late, window, suspects, next, own, fresh, took>>

\* list_memory_nodes: the window is Page nodes, whatever the caller's limit.
List(s) ==
  /\ pc[s] = "list"
  /\ window' = [window EXCEPT ![s] = First(Page, {h \in nodes : h > after[s]})]
  /\ pc' = [pc EXCEPT ![s] = IF window'[s] = {} THEN "passed" ELSE "read"]
  /\ UNCHANGED <<stores, late, tokens, after, left, token, suspects, next, candidates,
                 from, ghosts>>

\* page: the window's prefix that the limit leaves.
Want(s) == IF left[s] < Page THEN left[s] ELSE Page
PageOf(s) == First(Want(s), window[s])
\* missing_points
Missing(s) == (window[s] \cap Valid) \ points
\* window_holds
\* (Slip: only the count is looked at.)
WindowHoldsByCount(s) == Cardinality(Missing(s)) > Floor
WindowHolds(s) ==
  \/ Cardinality(Missing(s)) > Floor
  \/ Missing(s) # {} /\ Missing(s) = window[s] \cap Valid
\* (Slip: the allowance is per page, not per call.)
CallCapsPerPage(s) == Cardinality(Missing(s) \cap PageOf(s)) > Floor
CallCaps(s) == candidates[s] + Cardinality(Missing(s) \cap PageOf(s)) > Floor

\* A held page is not written; the caller may resume from held_after.
Hold(s) ==
  /\ pc[s] = "read"
  /\ WindowHolds(s) \/ CallCaps(s)
  /\ pc' = [pc EXCEPT ![s] = "held"]
  /\ UNCHANGED <<stores, late, tokens, after, left, token, window, suspects, next,
                 candidates, from, ghosts>>

\* (Slip: the next page starts after the window.)
IsLastOfWindow(s, h) == h \in window[s] /\ \A g \in window[s] : g <= h
IsLast(s, h) == h \in PageOf(s) /\ \A g \in PageOf(s) : g <= h

\* Where a call goes after its page: a short page is the last one.
Turn(s) == IF Cardinality(PageOf(s)) < Want(s) THEN "passed"
           ELSE IF left[s] = Cardinality(PageOf(s)) THEN "over" ELSE "list"

Read(s) ==
  /\ pc[s] = "read"
  /\ ~WindowHolds(s) /\ ~CallCaps(s)
  /\ LET gone == Missing(s) \cap PageOf(s) IN
       /\ suspects' = [suspects EXCEPT ![s] = gone]
       /\ candidates' = [candidates EXCEPT ![s] = @ + Cardinality(gone)]
       /\ left' = [left EXCEPT ![s] = @ - Cardinality(PageOf(s))]
       /\ next' = [next EXCEPT ![s] = Turn(s)]
       /\ pc' = [pc EXCEPT ![s] = IF gone = {} THEN Turn(s) ELSE "mark"]
       /\ \E h \in window[s] : IsLast(s, h) /\ after' = [after EXCEPT ![s] = h]
  /\ UNCHANGED <<stores, late, tokens, token, window, from, ghosts>>

\* mark_memory_nodes is answered.
MarkPage(s) ==
  /\ pc[s] = "mark"
  /\ MarkNodes(suspects[s], token[s])
  /\ pc' = [pc EXCEPT ![s] = "reread"]
  /\ UNCHANGED <<points, ensuring, removing, late, tokens, after, left, token, window,
                 suspects, next, candidates, from, own>>

\* The second read: what has a point by now is kept.
StillGone(s) == suspects[s] \ points
Reread(s) ==
  /\ pc[s] = "reread"
  /\ suspects' = [suspects EXCEPT ![s] = StillGone(s)]
  /\ pc' = [pc EXCEPT ![s] = IF StillGone(s) = {} THEN next[s] ELSE "delete"]
  /\ UNCHANGED <<stores, late, tokens, after, left, token, window, next, candidates,
                 from, ghosts>>

\* delete_marked_nodes is answered.
Delete(s) ==
  /\ pc[s] = "delete"
  /\ DeleteMarked(suspects[s], token[s])
  /\ pc' = [pc EXCEPT ![s] = next[s]]
  /\ UNCHANGED <<points, ensuring, removing, late, tokens, after, left, token, window,
                 suspects, next, candidates, from, own>>

\* A call fails or meets its deadline.  The caller has no position to resume
\* from but the one it gave; a write already sent may land later.
CutOff(s) ==
  /\ pc[s] \notin Idle
  /\ pc' = [pc EXCEPT ![s] = "failed"]
  /\ after' = [after EXCEPT ![s] = from[s]]
  /\ late' = IF pc[s] \in {"mark", "delete"}
               THEN late \cup {[op |-> pc[s], token |-> token[s], hashes |-> suspects[s]]}
               ELSE late
  /\ UNCHANGED <<stores, tokens, left, token, window, suspects, next, candidates, from, ghosts>>

LandLate(r) ==
  /\ late' = late \ {r}
  /\ Apply(r.op, r.hashes, r.token)
  /\ UNCHANGED <<points, ensuring, removing, tokens, locals, own>>

-----------------------------------------------------------------------------

Init ==
  /\ points \in SUBSET Valid /\ nodes \in SUBSET Hashes
  /\ mark = [h \in Hashes |-> 0]
  /\ ensuring = {} /\ removing = {} /\ late = {} /\ tokens = 0
  /\ pc = [s \in Sweepers |-> "idle"]
  /\ after = [s \in Sweepers |-> 0] /\ from = [s \in Sweepers |-> 0]
  /\ left = [s \in Sweepers |-> 0] /\ token = [s \in Sweepers |-> 0]
  /\ window = [s \in Sweepers |-> {}] /\ suspects = [s \in Sweepers |-> {}]
  /\ next = [s \in Sweepers |-> "list"] /\ candidates = [s \in Sweepers |-> 0]
  /\ own = {} /\ fresh = {}
  /\ took = [t \in 1..MaxCalls |-> {}]
  /\ stray = [s \in Sweepers |-> {}]

Move(h) ==
  \/ PutPoint(h) \/ RefuteReads(h) \/ EnsureNode(h) \/ EnsureLost(h) \/ Link(h)
  \/ DropPoint(h) \/ DropNode(h) \/ DropNodeLost(h)

SweepStep(s) == Begin(s) \/ List(s) \/ Hold(s) \/ Read(s) \/ MarkPage(s) \/ Reread(s)
                \/ Delete(s) \/ CutOff(s)

Next ==
  \/ \E h \in Moving : Move(h)
  \/ \E s \in Sweepers : SweepStep(s)
  \/ \E r \in late : LandLate(r)

Spec == Init /\ [][Next]_vars

-----------------------------------------------------------------------------
(* Properties *)

Tokens == 0..MaxCalls
Places == Idle \cup {"list", "read", "mark", "reread", "delete"}
Requests == [op : {"mark", "delete"}, token : Tokens, hashes : SUBSET Valid]

\* Types of the state.
TypeOK ==
  /\ points \subseteq Valid /\ nodes \subseteq Hashes /\ mark \in [Hashes -> Tokens]
  /\ ensuring \subseteq Valid /\ removing \subseteq Valid
  /\ late \subseteq Requests /\ tokens \in Tokens
  /\ pc \in [Sweepers -> Places]
  /\ after \in [Sweepers -> 0..N] /\ from \in [Sweepers -> 0..N]
  /\ left \in [Sweepers -> Nat] /\ token \in [Sweepers -> Tokens]
  /\ window \in [Sweepers -> SUBSET Hashes] /\ suspects \in [Sweepers -> SUBSET Valid]
  /\ next \in [Sweepers -> {"passed", "over", "list"}] /\ candidates \in [Sweepers -> Nat]
  /\ own \subseteq points /\ fresh \subseteq points \cap nodes
  /\ took \in [1..MaxCalls -> SUBSET Valid] /\ stray \in [Sweepers -> SUBSET Valid]

\* Once a store's ensure_node has landed for a point, its node is taken by a
\* delete_memory of it alone: no sweep, in any process, on time or late,
\* removes the node of a memory that is there and has been ensured.
EnsuredNodesStay ==
  [][\A h \in own \cap own' : h \in nodes => h \in nodes' \/ h \in removing]_vars

\* A call removes at most GRAPH_SWEEP_HOLD_FLOOR nodes, over all its pages,
\* whatever collection it reads and whenever its requests land.
CallAllowance == \A t \in 1..MaxCalls : Cardinality(took[t]) <= Floor

\* A pass that reaches the end has removed every node that had no point
\* when the pass began and that nothing touched since, however the caller
\* paged and resumed it.
PassComplete == \A s \in Sweepers : pc[s] = "passed" => stray[s] \cap nodes = {}

\* A call that reads an empty collection from start to end removes nothing,
\* even of a graph with no more nodes than a call may remove.
EmptyCollectionKeepsNodes ==
  Moving = {} /\ points = {} => \A t \in 1..MaxCalls : took[t] = {}

-----------------------------------------------------------------------------
(* What makes the properties hold: the invariant of the proofs.             *)

Active(s) == pc[s] \notin Idle
AtPage == {"mark", "reread", "delete"}

\* A token is one call's, and a request that outlives its call is the only
\* one left with its token.
TokensApart ==
  /\ \A s \in Sweepers : token[s] <= tokens /\ (Active(s) => token[s] > 0)
  /\ \A s, u \in Sweepers : s # u /\ token[s] = token[u] => token[s] = 0
  /\ \A r \in late : 0 < r.token /\ r.token <= tokens
  /\ \A r \in late, s \in Sweepers : Active(s) => r.token # token[s]
  /\ \A r, q \in late : r.token = q.token => r = q
  /\ \A t \in 1..MaxCalls : t > tokens => took[t] = {}

\* A delete that is about to be sent, or is under way, finds its mark on no
\* node that was ensured for a point that is there.
DeletesSpareEnsured ==
  /\ \A s \in Sweepers : pc[s] = "delete" =>
       \A h \in suspects[s] : mark[h] = token[s] => h \notin own
  /\ \A r \in late : r.op = "delete" =>
       \A h \in r.hashes : mark[h] = r.token => h \notin own

\* What a call removed and may still remove was counted when it was read.
Allowed ==
  /\ \A t \in 1..MaxCalls : Cardinality(took[t]) <= Floor
  /\ \A s \in Sweepers : Active(s) =>
       /\ candidates[s] <= Floor
       /\ Cardinality(took[token[s]]) <= candidates[s]
       /\ pc[s] \in AtPage => Cardinality(took[token[s]] \cup suspects[s]) <= candidates[s]
  /\ \A r \in late : Cardinality(took[r.token] \cup r.hashes) <= Floor

\* A call that reads or turns to another page has nodes left to read.
CallGoesOn ==
  \A s \in Sweepers :
    /\ pc[s] \in {"list", "read"} => left[s] > 0
    /\ pc[s] \in AtPage /\ next[s] = "list" => left[s] > 0

\* What a pass has still to remove: the nodes without a point since it began.
Due(s) == stray[s] \cap nodes

\* A pass leaves no node it has to remove behind: between pages they are all
\* ahead of it; those of the page it is at are its suspects, and carry its
\* mark once it has marked them.
AheadOf(s) ==
  /\ Due(s) \cap points = {}
  /\ Active(s) => \A h \in Due(s) : h > from[s]
  /\ pc[s] = "passed" => Due(s) = {}
  /\ pc[s] \notin AtPage => \A h \in Due(s) : h > after[s]
  /\ pc[s] = "read" =>
       /\ \A h \in Due(s) \ window[s], g \in window[s] : g < h
       /\ Cardinality(window[s]) < Page => Due(s) \subseteq window[s]
  /\ pc[s] \in AtPage =>
       \A h \in Due(s) \ suspects[s] : next[s] # "passed" /\ h > after[s]
  /\ pc[s] \in {"reread", "delete"} =>
       \A h \in Due(s) \cap suspects[s] : mark[h] = token[s]
DueAhead == \A s \in Sweepers : AheadOf(s)

\* No sweep of an empty collection gets as far as a write.
EmptyIsHeld ==
  Moving = {} /\ points = {} =>
    /\ \A s \in Sweepers : pc[s] \notin AtPage
    /\ late = {}
    /\ \A t \in 1..MaxCalls : took[t] = {}

\* The parts above, inductive together.
SweepInv ==
  /\ TypeOK /\ TokensApart /\ DeletesSpareEnsured /\ Allowed /\ CallGoesOn
  /\ DueAhead /\ EmptyIsHeld

-----------------------------------------------------------------------------

\* cypher.rs: a store that lands after the second read loses "only the gone
\* memory's edges".  An edge made while the memory's point was there stays.
OnlyGoneEdgesLost ==
  [][\A h \in fresh \cap points' : h \in nodes' \/ h \in removing]_vars

=============================================================================
