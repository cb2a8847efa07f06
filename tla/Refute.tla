------------------------------- MODULE Refute -------------------------------
(***************************************************************************)
(* memory_refute: a correction is stored, and then supersedes the wrong    *)
(* memory or is linked CONTRADICTS to it                                   *)
(* (crates/alaya-core/src/service.rs, `refute_store` and `refute_finish`), *)
(* among stores, deletes, supersessions and edge deletions of the same two *)
(* memories.                                                               *)
(*                                                                         *)
(* A memory is a point in Qdrant and a node in the graph; neither write    *)
(* knows of the other.  The payload write of a call is atomic here (what   *)
(* CasStore is about); a request that fails has its effect or not.  One    *)
(* edge is modelled, CONTRADICTS from the correction to the wrong memory;  *)
(* SUPERSEDES edges and the reversal of a supersession are Supersession's. *)
(***************************************************************************)
EXTENDS Naturals, FiniteSets

CONSTANTS Wrong, Correction, Other,   \* the two memories, and a third survivor
          Calls,                      \* requests
          Workloads,                  \* what the requests may be, each a function of Calls
          Strict,                     \* refutes whose fields differ from what others store
          MaxFaults,                  \* bound on failures
          None

Memories == {Wrong, Correction}
RefuteKinds == {"link", "replace"}
Kinds == RefuteKinds \cup {"store", "delete", "supersede", "unrelate"}

\* What a request does, to which memory, and the reason it gives.
ASSUME RefuteAssumption ==
  /\ Wrong # Correction /\ Other \notin Memories
  /\ None \notin Calls \cup {Wrong, Correction, Other} /\ Other \notin Calls
  /\ \A w \in Workloads : \A c \in Calls :
       w[c].kind \in Kinds /\ w[c].target \in Memories /\ w[c].reason # None
  /\ MaxFaults \in Nat

VARIABLES req,      \* the workload: what each request is
          point,    \* per memory: its point in Qdrant
          nodes,    \* memories with a graph node
          link,     \* the CONTRADICTS edge from the correction to the wrong memory
          pc,       \* where each request is
          got,      \* the reason a refute's link came back with
          told,     \* what each request answered
          \* history variables
          wrote,    \* refutes whose marker or reason landed in this attempt, on
                    \* the wrong memory as it is now
          taken,    \* requests that removed a link which carried a reason
          faults,   \* how many failures there have been, capped
          raised    \* refutes that put back the node of a deleted wrong memory

stores == <<point, nodes, link>>
calls == <<pc, got, told>>
ghosts == <<wrote, taken, faults>>
vars == <<req, stores, calls, ghosts, raised>>

Kind(c) == req[c].kind
Target(c) == req[c].target
Reason(c) == req[c].reason
Refutes == {c \in Calls : Kind(c) \in RefuteKinds}

-----------------------------------------------------------------------------
(* What the two stores hold *)

\* A point: whose store made or last replaced it, and its supersession marker.
Gone == [author |-> None, by |-> None, why |-> None]
Fresh(c) == [Gone EXCEPT !.author = c]
There(m) == point[m] # Gone
Live(m) == There(m) /\ point[m].by = None
Superseded(m) == point[m].by # None

NoLink == [there |-> FALSE, reason |-> None]
BothNodes == Memories \subseteq nodes

\* create_typed_edge: MERGE, and nothing when an endpoint is missing.
Merged(l) == IF BothNodes THEN [l EXCEPT !.there = TRUE] ELSE l

\* link_refutation: MERGE, and the first reason stays.
\* (Slip: the last one wins.)
LinkedLast(l, why) == [l EXCEPT !.there = TRUE, !.reason = why]
Linked(l, why) ==
  [l EXCEPT !.there = TRUE, !.reason = IF @ = None THEN why ELSE @]

\* count_audited_contradiction; a verdict or a resolution counts like a reason.
Audited(l) == l.reason # None

\* DETACH DELETE, and delete_typed_edge.
Take(c) ==
  /\ link' = NoLink
  /\ taken' = IF link.reason # None THEN taken \cup {c} ELSE taken

-----------------------------------------------------------------------------
(* Pieces of steps *)

Goto(c, l) == pc' = [pc EXCEPT ![c] = l] /\ UNCHANGED told
Done(c, r) == pc' = [pc EXCEPT ![c] = "done"] /\ told' = [told EXCEPT ![c] = r]
Trouble == faults < MaxFaults /\ faults' = faults + 1

\* The correction's text is there with fields this refute contradicts.
Differs(c) == c \in Strict /\ Kind(point[Correction].author) = "store"

\* A correction that is there already (Refutation::refusal).
UseExisting(c) ==
  \/ Superseded(Correction) /\ Done(c, "correction_superseded")
  \/ ~Superseded(Correction) /\ Differs(c) /\ Done(c, "correction_exists")
  \/ ~Superseded(Correction) /\ ~Differs(c) /\ Goto(c, "check")

-----------------------------------------------------------------------------
(* refute_store *)

\* One read of both memories: refuse, use a live correction as it is, or
\* store one.
WrongRefusal(c) ==
  \/ ~There(Wrong)
  \/ Superseded(Wrong) /\ ~(Kind(c) = "replace" /\ point[Wrong].by = Correction)
ReadBoth(c) ==
  /\ pc[c] = "idle" /\ Kind(c) \in RefuteKinds
  /\ \/ WrongRefusal(c) /\ Done(c, IF There(Wrong) THEN "already" ELSE "not_found")
     \/ /\ ~WrongRefusal(c) /\ There(Correction)
        /\ UseExisting(c)
     \/ ~WrongRefusal(c) /\ ~There(Correction) /\ Goto(c, "insert")
  /\ UNCHANGED <<stores, got, ghosts>>

\* Insert-only: a point that is there is left alone.
Insert(c) ==
  /\ pc[c] = "insert" /\ Kind(c) \in RefuteKinds
  /\ IF There(Correction)
       THEN UNCHANGED point /\ Goto(c, "reread")
       ELSE point' = [point EXCEPT ![Correction] = Fresh(c)] /\ Goto(c, "confirm")
  /\ UNCHANGED <<nodes, link, got, ghosts>>

\* The store's read-back: deleted meanwhile, deleted and stored by another
\* (then the next round finds that one), or landed.
Confirm(c) ==
  /\ pc[c] = "confirm"
  /\ \/ ~There(Correction) /\ Done(c, "correction_deleted")
     \/ There(Correction) /\ point[Correction].author # c /\ Goto(c, "reread")
     \/ There(Correction) /\ point[Correction].author = c /\ Goto(c, "node")
  /\ UNCHANGED <<stores, got, ghosts>>

\* Created nothing: the memory that is there is the correction, checked as if
\* it had been there all along.
Reread(c) ==
  /\ pc[c] = "reread"
  /\ \/ ~There(Correction) /\ Done(c, "correction_deleted")
     \/ There(Correction) /\ UseExisting(c)
  /\ UNCHANGED <<stores, got, ghosts>>

-----------------------------------------------------------------------------
(* The rest of the store path, for a refute's correction and for a store *)

\* store_memory: Upsert replaces a point and keeps its marker (carry_over).
Store(c) ==
  /\ pc[c] = "idle" /\ Kind(c) = "store"
  /\ point' = [point EXCEPT ![Target(c)].author = c]
  /\ Goto(c, "node")
  /\ UNCHANGED <<nodes, link, got, ghosts>>

Stored(c) == IF Kind(c) = "store" THEN Target(c) ELSE Correction

\* ensure_node; a failure is only logged.
StoreNode(c) ==
  /\ pc[c] = "node"
  /\ nodes' = nodes \cup {Stored(c)}
  /\ Goto(c, "detect")
  /\ UNCHANGED <<point, link, got, ghosts>>

\* The interference edges, detected between any two texts or not.
Detect(c) ==
  /\ pc[c] = "detect"
  /\ link' \in IF Stored(c) = Correction THEN {link, Merged(link)} ELSE {link}
  /\ IF Kind(c) = "store" THEN Done(c, "stored") ELSE Goto(c, "check")
  /\ UNCHANGED <<point, nodes, got, ghosts>>

-----------------------------------------------------------------------------
(* refute_finish *)

\* correction_gone
Check(c) ==
  /\ pc[c] = "check"
  /\ \/ Superseded(Correction) /\ Done(c, "correction_superseded")
     \/ ~There(Correction) /\ Done(c, "correction_deleted")
     \/ /\ Live(Correction)
        /\ Goto(c, IF Kind(c) = "replace" THEN "mark" ELSE "wrong")
  /\ UNCHANGED <<stores, got, ghosts>>

\* wrong_gone, before the graph writes.
CheckWrong(c) ==
  /\ pc[c] = "wrong"
  /\ \/ Superseded(Wrong) /\ Done(c, "conflict")
     \/ ~There(Wrong) /\ Done(c, "partial")
     \/ Live(Wrong) /\ Goto(c, "ensureWrong")
  /\ UNCHANGED <<stores, got, ghosts>>

\* ensure_node of both.  (Slip: only the correction's node is ensured.)
EnsureWrongNot(c) ==
  /\ pc[c] = "ensureWrong"
  /\ Goto(c, "ensureCorrection")
  /\ UNCHANGED <<stores, got, ghosts>>
EnsureWrong(c) ==
  /\ pc[c] = "ensureWrong"
  /\ nodes' = nodes \cup {Wrong}
  /\ Goto(c, "ensureCorrection")
  /\ UNCHANGED <<point, link, got, ghosts>>

EnsureCorrection(c) ==
  /\ pc[c] = "ensureCorrection"
  /\ nodes' = nodes \cup {Correction}
  /\ Goto(c, "link")
  /\ UNCHANGED <<point, link, got, ghosts>>

\* The edge with this call's reason, or with the first one's.
PutLink(c) ==
  /\ link' = Linked(link, Reason(c))
  /\ wrote' = IF link.reason = None THEN wrote \cup {c} ELSE wrote

Link(c) ==
  /\ pc[c] = "link"
  /\ IF BothNodes
       THEN /\ PutLink(c)
            /\ got' = [got EXCEPT ![c] = link'.reason]
            /\ Goto(c, "recheck")
       ELSE Done(c, "partial") /\ UNCHANGED <<link, got, wrote>>
  /\ UNCHANGED <<point, nodes, taken, faults>>

\* wrong_gone again, since the graph write could not depend on the memory.
\* (Slips: whatever reason is there is claimed; the memory is not read.)
LinkAnswer(c) == IF got[c] = Reason(c) THEN "contradicts" ELSE "reason_conflict"
RecheckClaim(c) ==
  /\ pc[c] = "recheck"
  /\ \/ Superseded(Wrong) /\ Done(c, "conflict")
     \/ ~There(Wrong) /\ Done(c, "partial")
     \/ Live(Wrong) /\ Done(c, "contradicts")
  /\ UNCHANGED <<stores, got, ghosts>>
RecheckNot(c) ==
  /\ pc[c] = "recheck"
  /\ Done(c, LinkAnswer(c))
  /\ UNCHANGED <<stores, got, ghosts>>
Recheck(c) ==
  /\ pc[c] = "recheck"
  /\ \/ Superseded(Wrong) /\ Done(c, "conflict")
     \/ ~There(Wrong) /\ Done(c, "partial")
     \/ Live(Wrong) /\ Done(c, LinkAnswer(c))
  /\ UNCHANGED <<stores, got, ghosts>>

\* supersede_if_live: lands on a live memory; a marker already there answers
\* for itself.
PutMarker(c) ==
  /\ Live(Wrong)
  /\ point' = [point EXCEPT ![Wrong].by = Correction, ![Wrong].why = Reason(c)]
  /\ wrote' = wrote \cup {c}
MarkerAnswer(c) ==
  CASE point[Wrong].by # Correction -> "conflict"
    [] point[Wrong].by = Correction /\ point[Wrong].why # Reason(c) -> "reason_conflict"
    [] OTHER -> "superseded"
Mark(c) ==
  /\ pc[c] = "mark"
  /\ \/ PutMarker(c) /\ Done(c, "superseded")
     \/ ~There(Wrong) /\ Done(c, "partial") /\ UNCHANGED <<point, wrote>>
     \/ Superseded(Wrong) /\ Done(c, MarkerAnswer(c)) /\ UNCHANGED <<point, wrote>>
  /\ UNCHANGED <<nodes, link, got, taken, faults>>

\* The write failed: the stored marker decides.
Remark(c) ==
  /\ pc[c] = "remark"
  /\ \/ ~Superseded(Wrong) /\ Done(c, "partial")
     \/ Superseded(Wrong) /\ Done(c, MarkerAnswer(c))
  /\ UNCHANGED <<stores, got, ghosts>>

-----------------------------------------------------------------------------
(* What fails, and what the caller does about it *)

\* A read that fails before anything is written, or after the insert, is the
\* call's error; one around the second step lets the step go ahead.
ReadFails(c) ==
  /\ \/ pc[c] = "idle" /\ Kind(c) \in RefuteKinds /\ Done(c, "error")
     \/ pc[c] \in {"confirm", "reread"} /\ Done(c, "error")
     \/ pc[c] = "remark" /\ Done(c, "partial")
     \/ pc[c] = "check" /\ Goto(c, IF Kind(c) = "replace" THEN "mark" ELSE "wrong")
     \/ pc[c] = "wrong" /\ Goto(c, "ensureWrong")
     \/ pc[c] = "recheck" /\ Done(c, LinkAnswer(c))
  /\ Trouble
  /\ UNCHANGED <<stores, got, wrote, taken>>

\* The insert's outcome is unconfirmed, or its request failed.
InsertFails(c) ==
  /\ pc[c] = "insert" /\ Kind(c) \in RefuteKinds
  /\ \/ ~There(Correction) /\ point' = [point EXCEPT ![Correction] = Fresh(c)]
     \/ UNCHANGED point
  /\ Done(c, "error") /\ Trouble
  /\ UNCHANGED <<nodes, link, got, wrote, taken>>

\* ensure_node fails: logged, and the call goes on.
NodeFails(c) ==
  /\ \/ pc[c] = "node" /\ nodes' \in {nodes, nodes \cup {Stored(c)}} /\ Goto(c, "detect")
     \/ pc[c] = "ensureWrong" /\ nodes' \in {nodes, nodes \cup {Wrong}}
        /\ Goto(c, "ensureCorrection")
     \/ pc[c] = "ensureCorrection" /\ nodes' \in {nodes, nodes \cup {Correction}}
        /\ Goto(c, "link")
  /\ Trouble
  /\ UNCHANGED <<point, link, got, wrote, taken>>

LinkFails(c) ==
  /\ pc[c] = "link"
  /\ \/ BothNodes /\ PutLink(c)
     \/ UNCHANGED <<link, wrote>>
  /\ Done(c, "partial") /\ Trouble
  /\ UNCHANGED <<point, nodes, got, taken>>

MarkFails(c) ==
  /\ pc[c] = "mark"
  /\ PutMarker(c) \/ UNCHANGED <<point, wrote>>
  /\ Goto(c, "remark") /\ Trouble
  /\ UNCHANGED <<nodes, link, got, taken>>

\* The command's deadline, or a crash.
CutOff(c) ==
  /\ pc[c] \notin {"idle", "done"} /\ Kind(c) \in RefuteKinds
  /\ Done(c, "cut") /\ Trouble
  /\ UNCHANGED <<stores, got, wrote, taken>>

\* "Retry the same refute": the reply said so.
Unfinished == {"partial", "error", "cut", "correction_deleted"}
Retry(c) ==
  /\ Kind(c) \in RefuteKinds /\ told[c] \in Unfinished
  /\ pc' = [pc EXCEPT ![c] = "idle"]
  /\ told' = [told EXCEPT ![c] = "none"]
  /\ got' = [got EXCEPT ![c] = None]
  /\ wrote' = wrote \ {c}
  /\ UNCHANGED <<stores, taken, faults>>

-----------------------------------------------------------------------------
(* Other requests for the two memories *)

\* delete_memory: the point, then the node with its edges.
DropPoint(c) ==
  /\ pc[c] = "idle" /\ Kind(c) = "delete"
  /\ point' = [point EXCEPT ![Target(c)] = Gone]
  /\ wrote' = IF Target(c) = Wrong THEN {} ELSE wrote
  /\ Goto(c, "dropNode")
  /\ UNCHANGED <<nodes, link, got, taken, faults>>

DropNode(c) ==
  /\ pc[c] = "dropNode"
  /\ nodes' = nodes \ {Target(c)}
  /\ IF Target(c) \in nodes THEN Take(c) ELSE UNCHANGED <<link, taken>>
  /\ Done(c, "deleted")
  /\ UNCHANGED <<point, got, wrote, faults>>

\* memory_supersede by a third memory overwrites any marker.
Supersede(c) ==
  /\ pc[c] = "idle" /\ Kind(c) = "supersede"
  /\ IF There(Target(c))
       THEN /\ point' = [point EXCEPT ![Target(c)].by = Other, ![Target(c)].why = Reason(c)]
            /\ Done(c, "superseded")
       ELSE Done(c, "not_found") /\ UNCHANGED point
  /\ UNCHANGED <<nodes, link, got, ghosts>>

\* POST /edges/delete: the guard is one query, the delete another.
Guard(c) ==
  /\ pc[c] = "idle" /\ Kind(c) = "unrelate"
  /\ IF Audited(link) THEN Done(c, "refused") ELSE Goto(c, "unlink")
  /\ UNCHANGED <<stores, got, ghosts>>

Unlink(c) ==
  /\ pc[c] = "unlink"
  /\ Take(c)
  /\ Done(c, "deleted")
  /\ UNCHANGED <<point, nodes, got, wrote, faults>>

-----------------------------------------------------------------------------
\* The wrong memory is there; the correction, a node or a link may be.
Init ==
  /\ req \in Workloads
  /\ point = [m \in Memories |-> IF m = Wrong THEN Fresh(Other) ELSE Gone]
  /\ nodes \in {{}, {Wrong}}
  /\ link = NoLink
  /\ pc = [c \in Calls |-> "idle"]
  /\ got = [c \in Calls |-> None]
  /\ told = [c \in Calls |-> "none"]
  /\ wrote = {} /\ taken = {} /\ faults = 0 /\ raised = {}

\* History: who gave the wrong memory, gone with its node, a node again.
Raise ==
  raised' = IF There(Wrong) \/ Wrong \in nodes \/ Wrong \notin nodes'
              THEN raised
              ELSE raised \cup {c \in Calls : pc[c] = "ensureWrong" /\ pc'[c] # pc[c]}
Along == Raise /\ UNCHANGED req

Step(c) ==
  \/ ReadBoth(c) \/ Insert(c) \/ Confirm(c) \/ Reread(c) \/ StoreNode(c) \/ Detect(c)
  \/ Check(c) \/ CheckWrong(c) \/ EnsureWrong(c) \/ EnsureCorrection(c) \/ Link(c)
  \/ Recheck(c) \/ Mark(c) \/ Remark(c) \/ DropNode(c) \/ Unlink(c)
Request(c) ==
  \/ Store(c) \/ DropPoint(c) \/ Supersede(c) \/ Guard(c)
Fault(c) ==
  \/ ReadFails(c) \/ InsertFails(c) \/ NodeFails(c) \/ LinkFails(c) \/ MarkFails(c)
  \/ CutOff(c)

Next ==
  /\ \E c \in Calls : Step(c) \/ Request(c) \/ Fault(c) \/ Retry(c)
  /\ Along

Spec == Init /\ [][Next]_vars

\* Every step of a request ends: its awaits are bounded.  A caller retries
\* what it was told to retry; the other requests need not come.
FairSpec ==
  Spec /\ \A c \in Calls :
    WF_vars(Step(c) /\ Along) /\ WF_vars(Retry(c) /\ Along)

-----------------------------------------------------------------------------
(* Properties *)

Reasons == {Reason(c) : c \in Calls} \cup {None}
Answers == {"none", "not_found", "already", "correction_superseded", "correction_exists",
            "correction_deleted", "error", "cut", "partial", "conflict", "reason_conflict",
            "contradicts", "superseded", "stored", "deleted", "refused"}

Places == {"idle", "insert", "confirm", "reread", "node", "detect", "check", "wrong",
           "ensureWrong", "ensureCorrection", "link", "recheck", "mark", "remark",
           "dropNode", "unlink", "done"}
Points == [author : Calls \cup {Other, None}, by : {Correction, Other, None}, why : Reasons]
Links == [there : BOOLEAN, reason : Reasons]

\* Types of the state.
StoreTypes ==
  /\ point \in [Memories -> Points]
  /\ nodes \subseteq Memories
  /\ link \in Links /\ (link.reason # None => link.there)
CallTypes ==
  /\ req \in Workloads
  /\ pc \in [Calls -> Places]
  /\ got \in [Calls -> Reasons]
  /\ told \in [Calls -> Answers]
  /\ wrote \subseteq Calls /\ taken \subseteq Calls
  /\ faults \in 0 .. MaxFaults
TypeOK == StoreTypes /\ CallTypes /\ raised \subseteq Calls

Quiet == \A c \in Calls : pc[c] \in {"idle", "done"}

\* The wrong memory was deleted, or superseded by a third one.
Overtaken == \E c \in Calls :
  Kind(c) \in {"delete", "supersede"} /\ Target(c) = Wrong /\ pc[c] # "idle"

\* "contradicts promises that the link is in place", "superseded that the wrong
\* memory now points at the correction", each with the caller's own reason:
\* whatever other refutes, retries and failures there were, the record stands
\* until a memory or the edge is deleted, or a third memory supersedes.
AnswersStand ==
  \A c \in Refutes :
    /\ told[c] = "contradicts" /\ taken = {} =>
         link.there /\ link.reason = Reason(c)
    /\ told[c] = "superseded" /\ ~Overtaken =>
         point[Wrong].by = Correction /\ point[Wrong].why = Reason(c)

\* The refusals say "nothing (else) was written": an attempt that ends so left
\* no marker, and no reason on the link.
RefusalsWriteNothing ==
  \A c \in Refutes :
    told[c] \in {"not_found", "already", "correction_superseded", "correction_exists",
                 "correction_deleted", "reason_conflict"} => c \notin wrote

\* Nothing failed, and nobody stores the wrong memory again.
Calm == faults = 0 /\ \A c \in Calls : Kind(c) = "store" => Target(c) # Wrong

\* A node of the deleted memory.
Stray == ~There(Wrong) /\ Wrong \in nodes

\* "ensure_node would put back the node a delete removed, and the edge would
\* land on it": when that happens all the same, and nothing failed, it was a
\* refute, and no refute that did it ever reports a success.
NoSuccess(c) == told[c] \notin {"contradicts", "superseded"}
StrayIsTold ==
  Calm => /\ Quiet /\ Stray => raised # {}
          /\ \A c \in raised : NoSuccess(c)

\* The strengthening under which the three invariants are proved: a phase
\* belongs to a kind, and is before or after the refute's own write; a link
\* that came back with a reason still has it; a stray node has a delete that
\* will take it, or a refute that put it back, and the memory it did that for
\* stays gone.
KindPhase(c) ==
  /\ pc[c] \in {"insert", "confirm", "reread", "check", "wrong", "ensureWrong",
               "ensureCorrection", "link", "recheck", "mark", "remark"} => c \in Refutes
  /\ pc[c] \in {"node", "detect"} => c \in Refutes \/ Kind(c) = "store"
  /\ pc[c] \in {"wrong", "ensureWrong", "ensureCorrection", "link", "recheck"} =>
       Kind(c) = "link"
  /\ pc[c] \in {"mark", "remark"} => Kind(c) = "replace"
  /\ pc[c] = "dropNode" => Kind(c) = "delete"
  /\ pc[c] # "done" => told[c] = "none"
  /\ c \in wrote => pc[c] \in {"recheck", "remark", "done"}
LinkPhase(c) ==
  /\ pc[c] = "recheck" => got[c] # None
  /\ pc[c] = "recheck" /\ taken = {} => link.reason = got[c] /\ link.there
  /\ pc[c] = "recheck" /\ c \in wrote => got[c] = Reason(c)
MarkPhase(c) ==
  pc[c] = "remark" /\ c \in wrote =>
    \/ point[Wrong].by = Correction /\ point[Wrong].why = Reason(c)
    \/ point[Wrong].by = Other
RefutePhase(c) == KindPhase(c) /\ LinkPhase(c) /\ MarkPhase(c)
RefutePhases == \A c \in Calls : RefutePhase(c)

StrayHasCause ==
  Calm => /\ Stray => \/ \E c \in Calls : pc[c] = "dropNode" /\ Target(c) = Wrong
                      \/ raised # {}
          /\ \A c \in raised : c \in Refutes /\ ~There(Wrong) /\ NoSuccess(c)

RefuteInv ==
  /\ TypeOK /\ RefutePhases /\ AnswersStand /\ RefusalsWriteNothing /\ StrayHasCause

\* "A retry reuses the correction": a caller that retries as the replies say
\* comes to an end, and finds its own half-done work.
RetriesEnd ==
  \A c \in Calls : <>[](c \in Refutes => told[c] \notin Unfinished \cup {"none"})

=============================================================================
