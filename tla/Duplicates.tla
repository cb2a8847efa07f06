----------------------------- MODULE Duplicates -----------------------------
(***************************************************************************)
(* Finding duplicates and merging them into one memory                     *)
(* (crates/alaya-core/src/service.rs: find_duplicates, merge_duplicates,   *)
(* mark_superseded; crates/alaya-backends/src/qdrant.rs: the Strict batch  *)
(* of update_metadata_batch).                                              *)
(*                                                                         *)
(* A merge supersedes several memories at once, over two stores that have  *)
(* no transaction: every memory gets its marker by a conditional write of  *)
(* its own, and the graph gets one edge per memory for those that carry    *)
(* it.  Any part may fail, land late, or be undone by a delete, and the    *)
(* reply says of each memory what became of it.                            *)
(*                                                                         *)
(* Memories are numbers in the order of the scan, newest first.  Each call *)
(* runs in a process of its own (the write lock makes the batches of one   *)
(* process take turns, which these interleavings include).  A request and  *)
(* its answer are one step; one whose answer never comes may land later.   *)
(***************************************************************************)
EXTENDS Clusters

CONSTANTS N,          \* memories
          Callers,    \* who looks for duplicates and merges what was found
          Strategy,   \* Strategy[c]: the CanonicalStrategy c asks for
          Accesses,   \* Accesses[m]: the access_count of each memory
          Page,       \* scroll_page
          ScanLimit,  \* scan_limit
          Rounds,     \* MAX_WRITE_ATTEMPTS
          Workloads,  \* [pairs, hidden, bare, callers, events, faults]: what may happen
          None

Memories == 1 .. N
Strategies == {"keep_newest", "keep_oldest", "keep_most_accessed"}
\* What a call merges, and what it answers of its duplicates.
Goals == [canonical : Memories, duplicates : SUBSET Memories]
Replies == [superseded : SUBSET Memories, plain : SUBSET Memories, doubt : SUBSET Memories]

ASSUME DuplicatesAssumption ==
  /\ N \in Nat \ {0} /\ None \notin Memories \cup Callers \cup Goals \cup Replies
  /\ Strategy \in [Callers -> Strategies] /\ Accesses \in [Memories -> Nat]
  /\ Page \in Nat \ {0} /\ ScanLimit \in Nat /\ Rounds \in Nat \ {0}
  /\ \A w \in Workloads :
       /\ w.pairs \in Seq(Memories \X Memories)
       /\ w.callers \subseteq Callers /\ w.events \in Nat /\ w.faults \in Nat
       /\ w.hidden \subseteq Memories \ {1} /\ w.bare \subseteq Memories

VARIABLES
  live,      \* memories that have a point
  marker,    \* superseded_by of each
  rev, log,  \* the revision of each, and the writes applied since it was made
  nodes, edges,             \* the graph: nodes, and SUPERSEDES edges
  leaving,                  \* nodes that a delete is about to remove
  net, lateEdges,           \* writes without an answer that may still land
  similar,                  \* what find_duplicate_pairs says of the memories
  pc,                       \* where each call is
  scanned,                  \* find_duplicates: what the scroll kept
  goal,                     \* merge_duplicates: [canonical, duplicates]
  todo, pending, base, written, outcome, round,   \* the batch
  sent,                     \* writes sent so far, to tell them apart
  reply,                    \* what the merge answered
  events, faults,           \* bounds: what others may still do, what may fail
  \* history variables
  ever,      \* <<m, k>>: m has carried a marker that names k
  deleted,   \* memories that were deleted
  bare,      \* memories that were stored before the run, but got no node
  edgeLost   \* calls one of whose edge writes did not succeed

points == <<live, marker, rev, log>>
graph == <<nodes, edges, leaving>>
transit == <<net, lateEdges>>
batch == <<todo, pending, base, written, outcome, round>>
bounds == <<events, faults>>
history == <<ever, deleted, bare, edgeLost>>
vars == <<points, graph, transit, similar, pc, scanned, goal, batch, sent, reply, bounds, history>>

Least(k, S) == {m \in S : Cardinality({n \in S : n <= m}) <= k}
Canonical(c) == goal[c].canonical

\* Revisions: the n-th write of a caller, or of somebody else (None).
Stamp(c) == <<c, sent[c]>>
NoRev == <<None, 0>>
Noted == [superseded |-> {}, plain |-> {}, doubt |-> {}]

-----------------------------------------------------------------------------
(* find_duplicates *)

Visible == {m \in live : marker[m] = None}

\* The first page of get_all; superseded memories are passed over.  Whether
\* Qdrant gives a cursor with an ordered scroll is its own affair.
FirstPage(c) ==
  /\ pc[c] = "idle"
  /\ LET page == Least(IF Page < ScanLimit THEN Page ELSE ScanLimit, live)
         kept == page \cap Visible
         over == live \subseteq page \/ Cardinality(kept) >= ScanLimit
     IN  /\ scanned' = [scanned EXCEPT ![c] = kept]
         /\ \E next \in {"found", "more"} :
              /\ over => next = "found"
              /\ pc' = [pc EXCEPT ![c] = next]
  /\ UNCHANGED <<points, graph, transit, similar, goal, batch, sent, reply, bounds, history>>

\* get_all turns the cursor into text, quotes and all, and sends it as a string:
\* it names no point, Qdrant refuses the page, and the call is an error.
NextPage(c) ==
  /\ pc[c] = "more"
  /\ pc' = [pc EXCEPT ![c] = "idle"]
  /\ scanned' = [scanned EXCEPT ![c] = {}]
  /\ UNCHANGED <<points, graph, transit, similar, goal, batch, sent, reply, bounds, history>>

\* The embedding of the contents fails, and with it the call.
ScanFails(c) ==
  /\ pc[c] = "found" /\ faults > 0
  /\ faults' = faults - 1
  /\ pc' = [pc EXCEPT ![c] = "idle"]
  /\ scanned' = [scanned EXCEPT ![c] = {}]
  /\ UNCHANGED <<points, graph, transit, similar, goal, batch, sent, reply, events, history>>

\* The pairs that find_duplicate_pairs can find are those of what was scanned.
GroupsOf(c) == Groups(scanned[c], similar)

\* select_canonical: the last of those that max_by cannot tell apart.
Prefers(c, m, n) ==
  CASE Strategy[c] = "keep_newest" -> m <= n
    [] Strategy[c] = "keep_oldest" -> m >= n
    [] Strategy[c] = "keep_most_accessed" ->
         Accesses[m] > Accesses[n] \/ (Accesses[m] = Accesses[n] /\ m >= n)
IsCanonical(c, g, m) == \A n \in g : Prefers(c, m, n)

\* The caller merges a group it was shown, or there is none.
Choose(c) ==
  /\ pc[c] = "found"
  /\ \/ /\ GroupsOf(c) = {}
        /\ pc' = [pc EXCEPT ![c] = "done"]
        /\ UNCHANGED goal
     \/ \E g \in GroupsOf(c) : \E m \in g :
          /\ IsCanonical(c, g, m)
          /\ goal' = [goal EXCEPT ![c] = [canonical |-> m, duplicates |-> g \ {m}]]
          /\ pc' = [pc EXCEPT ![c] = "check"]
  /\ UNCHANGED <<points, graph, transit, similar, scanned, batch, sent, reply, bounds, history>>

-----------------------------------------------------------------------------
(* merge_duplicates: the checks *)

\* The canonical memory must exist; that it is live is not asked.
CheckCanonical(c) ==
  /\ pc[c] = "check"
  /\ pc' = [pc EXCEPT ![c] = IF Canonical(c) \in live THEN "exist" ELSE "refused"]
  /\ reply' = [reply EXCEPT ![c] = None]
  /\ UNCHANGED <<points, graph, transit, similar, scanned, goal, batch, sent, bounds, history>>

\* Slip: a memory that is superseded already is left as it is.
ToSupersedeIfVisible(c) == goal[c].duplicates \cap Visible

\* A duplicate that is not there is an error of its own.
ToSupersede(c) == goal[c].duplicates \cap live

\* One batch read.
CheckDuplicates(c) ==
  /\ pc[c] = "exist"
  /\ LET there == ToSupersede(c) IN
       /\ todo' = [todo EXCEPT ![c] = there]
       /\ pending' = [pending EXCEPT ![c] = there]
       /\ IF there = {}
            THEN /\ pc' = [pc EXCEPT ![c] = "done"]
                 /\ reply' = [reply EXCEPT ![c] = Noted]
            ELSE /\ pc' = [pc EXCEPT ![c] = "read"]
                 /\ UNCHANGED reply
  /\ outcome' = [outcome EXCEPT ![c] = [m \in Memories |-> "none"]]
  /\ round' = [round EXCEPT ![c] = 0]
  /\ UNCHANGED <<points, graph, transit, similar, scanned, goal, base, written, sent, bounds,
                 history>>

-----------------------------------------------------------------------------
(* update_metadata_batch: a Strict batch of conditional writes *)

\* A member absent from the first read: nothing of the batch is written.
FindAbsent(c) ==
  /\ pc[c] = "read" /\ round[c] = 0 /\ ~ (pending[c] \subseteq live)
  /\ outcome' = [outcome EXCEPT ![c] =
       [m \in Memories |-> IF m \in pending[c] \ live THEN "absent" ELSE @[m]]]
  /\ pc' = [pc EXCEPT ![c] = "reread"]
  /\ UNCHANGED <<points, graph, transit, similar, scanned, goal, todo, pending, base, written,
                 round,
                 sent, reply, bounds, history>>

\* A member absent from a later read was deleted meanwhile.
ReadBatch(c) ==
  /\ pc[c] = "read"
  /\ round[c] = 0 => pending[c] \subseteq live
  /\ base' = [base EXCEPT ![c] =
       [m \in Memories |-> IF m \in pending[c] \cap live THEN rev[m] ELSE NoRev]]
  /\ outcome' = [outcome EXCEPT ![c] =
       [m \in Memories |-> IF m \in pending[c] \ live THEN "deleted" ELSE @[m]]]
  /\ pending' = [pending EXCEPT ![c] = @ \cap live]
  /\ written' = [written EXCEPT ![c] = {}]
  /\ pc' = [pc EXCEPT ![c] = IF pending[c] \cap live = {} THEN "settle" ELSE "write"]
  /\ UNCHANGED <<points, graph, transit, similar, scanned, goal, todo, round, sent, reply, bounds,
                 history>>

\* Qdrant applies a write of the marker k to m if m still has revision r.
Mark(m, r, tok, k) ==
  IF m \in live /\ rev[m] = r
    THEN /\ marker' = [marker EXCEPT ![m] = k]
         /\ rev' = [rev EXCEPT ![m] = tok]
         /\ log' = [log EXCEPT ![m] = @ \cup {tok}]
         /\ ever' = ever \cup {<<m, k>>}
         /\ UNCHANGED live
    ELSE UNCHANGED <<points, ever>>

\* The members are written one at a time; the answer does not say whether
\* the write was applied.
Write(c, m) ==
  /\ pc[c] = "write" /\ m \in pending[c]
  /\ Mark(m, base[c][m], Stamp(c), Canonical(c))
  /\ sent' = [sent EXCEPT ![c] = @ + 1]
  /\ written' = [written EXCEPT ![c] = @ \cup {<<m, Stamp(c)>>}]
  /\ pending' = [pending EXCEPT ![c] = @ \ {m}]
  /\ pc' = [pc EXCEPT ![c] = IF pending[c] = {m} THEN "back" ELSE "write"]
  /\ UNCHANGED <<graph, transit, similar, scanned, goal, todo, base, outcome, round, reply,
                 bounds, deleted, bare, edgeLost>>

Request(c, m) == [mem |-> m, base |-> base[c][m], tok |-> Stamp(c), to |-> Canonical(c)]

\* No answer comes to a write: it may land now, later, or never.  The rest of
\* the batch still goes out.
WriteFails(c, m) ==
  /\ pc[c] = "write" /\ m \in pending[c] /\ faults > 0
  /\ faults' = faults - 1
  /\ net' = net \cup {Request(c, m)}
  /\ sent' = [sent EXCEPT ![c] = @ + 1]
  /\ outcome' = [outcome EXCEPT ![c][m] = "unconfirmed"]
  /\ pending' = [pending EXCEPT ![c] = @ \ {m}]
  /\ pc' = [pc EXCEPT ![c] = IF pending[c] # {m} THEN "write"
                             ELSE IF written[c] = {} THEN "settle" ELSE "back"]
  /\ UNCHANGED <<points, graph, lateEdges, similar, scanned, goal, todo, base, written, round,
                 reply,
                 events, history>>

\* What the read-back may say of a write (CasStore's Landed): the log does not
\* tell once REV_LOG_LEN other writes came on top.
Verdicts(c, m, tok) ==
  CASE m \notin live -> {"deleted"}
    [] m \in live /\ tok \in log[m] ->
         {"landed"} \cup IF rev[m] # tok THEN {"unconfirmed"} ELSE {}
    [] m \in live /\ tok \notin log[m] ->
         {"lost"} \cup IF rev[m] # base[c][m] THEN {"unconfirmed"} ELSE {}

\* The batch once v is what its read-back says of each write.
ReadBackAs(c, v) ==
  LET lost == {w \in written[c] : v[w] = "lost"}
      burst == Cardinality({w \in written[c] : v[w] = "unconfirmed"})
      last == round[c] + 1 = Rounds
      Of(m) == CHOOSE w \in written[c] : w[1] = m
  IN  /\ \A w \in written[c] : v[w] \in Verdicts(c, w[1], w[2])
      /\ burst <= faults /\ faults' = faults - burst
      /\ outcome' = [outcome EXCEPT ![c] = [m \in Memories |->
           IF \E w \in written[c] : w[1] = m
             THEN IF v[Of(m)] = "lost" THEN (IF last THEN "unconfirmed" ELSE "none")
                                       ELSE v[Of(m)]
             ELSE @[m]]]
      /\ IF lost = {} \/ last
           THEN /\ pc' = [pc EXCEPT ![c] = "settle"]
                /\ UNCHANGED <<pending, round>>
           ELSE /\ pc' = [pc EXCEPT ![c] = "read"]
                /\ pending' = [pending EXCEPT ![c] = {w[1] : w \in lost}]
                /\ round' = [round EXCEPT ![c] = @ + 1]

ReadBack(c) ==
  /\ pc[c] = "back"
  /\ \E v \in [written[c] -> {"landed", "lost", "deleted", "unconfirmed"}] : ReadBackAs(c, v)
  /\ written' = [written EXCEPT ![c] = {}]
  /\ UNCHANGED <<points, graph, transit, similar, scanned, goal, todo, base, sent, reply, events,
                 history>>

\* A read of the batch fails: the update is an error, whatever was written.
BatchReadFails(c) ==
  /\ pc[c] \in {"read", "back"} /\ faults > 0
  /\ faults' = faults - 1
  /\ pc' = [pc EXCEPT ![c] = "reread"]
  /\ UNCHANGED <<points, graph, transit, similar, scanned, goal, batch, sent, reply, events,
                 history>>

-----------------------------------------------------------------------------
(* mark_superseded: which memories carry the marker, and their edges *)

\* Slip: a write without an answer counts as done.
SucceedsUnconfirmed(c) ==
  \A m \in todo[c] : outcome[c][m] \in {"landed", "deleted", "unconfirmed"}

\* A member that was deleted on the way needs no marker and is no error.
Succeeds(c) == \A m \in todo[c] : outcome[c][m] \in {"landed", "deleted"}

Settle(c) ==
  /\ pc[c] = "settle"
  /\ IF Succeeds(c)
       THEN /\ reply' = [reply EXCEPT ![c] = [Noted EXCEPT !.superseded = todo[c]]]
            /\ pc' = [pc EXCEPT ![c] = "edges"]
       ELSE /\ pc' = [pc EXCEPT ![c] = "reread"]
            /\ UNCHANGED reply
  /\ UNCHANGED <<points, graph, transit, similar, scanned, goal, batch, sent, bounds, history>>

\* Slip: what was to be marked counts.
MarkedAsAsked(c) == todo[c]

\* After a failure the memories are read again.
Marked(c) == {m \in todo[c] \cap live : marker[m] = Canonical(c)}

Reread(c) ==
  /\ pc[c] = "reread"
  /\ reply' = [reply EXCEPT ![c] =
       [superseded |-> Marked(c), plain |-> todo[c] \ Marked(c), doubt |-> {}]]
  /\ pc' = [pc EXCEPT ![c] = "edges"]
  /\ UNCHANGED <<points, graph, transit, similar, scanned, goal, batch, sent, bounds, history>>

\* Which of them carry the marker is unknown, and no edge is guessed.
RereadFails(c) ==
  /\ pc[c] = "reread" /\ faults > 0
  /\ faults' = faults - 1
  /\ reply' = [reply EXCEPT ![c] = [Noted EXCEPT !.doubt = todo[c]]]
  /\ pc' = [pc EXCEPT ![c] = "retry"]
  /\ UNCHANGED <<points, graph, transit, similar, scanned, goal, batch, sent, events, history>>

Told(c) == IF reply[c].plain = {} THEN "done" ELSE "retry"

\* The query of an edge matches both nodes and makes neither: where one is
\* missing there is no edge, and no error, since nobody reads the count.
EdgesOf(c) == {Canonical(c)} \X reply[c].superseded
Matching(E) == E \cap (nodes \X nodes)

WriteEdges(c) ==
  /\ pc[c] = "edges"
  /\ edges' = edges \cup Matching(EdgesOf(c))
  /\ pc' = [pc EXCEPT ![c] = Told(c)]
  /\ UNCHANGED <<points, nodes, leaving, transit, similar, scanned, goal, batch, sent, reply,
                 bounds, history>>

\* The bridge writes them one after the other and may stop; the caller is not
\* told.  What it did not write may still land.
WriteEdgesFail(c) ==
  /\ pc[c] = "edges" /\ faults > 0
  /\ faults' = faults - 1
  /\ lateEdges' = lateEdges \cup EdgesOf(c)
  /\ edgeLost' = edgeLost \cup {c}
  /\ pc' = [pc EXCEPT ![c] = Told(c)]
  /\ UNCHANGED <<points, graph, net, similar, scanned, goal, batch, sent, reply, events, ever,
                 deleted,
                 bare>>

-----------------------------------------------------------------------------
(* What else happens *)

Merging == {"check", "exist", "read", "write", "back", "settle", "reread", "edges"}

\* The call is cut off, or one of its first reads fails: no reply.  A write or
\* an edge request under way may still land.
CutOff(c) ==
  /\ pc[c] \in Merging /\ faults > 0
  /\ faults' = faults - 1
  /\ pc' = [pc EXCEPT ![c] = "retry"]
  /\ reply' = [reply EXCEPT ![c] = None]
  /\ \/ pc[c] # "write" /\ UNCHANGED <<net, sent>>
     \/ /\ pc[c] = "write"
        /\ \E m \in pending[c] : net' = net \cup {Request(c, m)}
        /\ sent' = [sent EXCEPT ![c] = @ + 1]
  /\ lateEdges' = IF pc[c] = "edges" THEN lateEdges \cup EdgesOf(c) ELSE lateEdges
  /\ UNCHANGED <<points, graph, similar, scanned, goal, batch, events, history>>

\* "Retry the same call": a caller that was told of a failure does.
Retry(c) ==
  /\ pc[c] = "retry"
  /\ pc' = [pc EXCEPT ![c] = "check"]
  /\ UNCHANGED <<points, graph, transit, similar, scanned, goal, batch, sent, reply, bounds,
                 history>>

LandLate(q) ==
  /\ net' = net \ {q}
  /\ Mark(q.mem, q.base, q.tok, q.to)
  /\ UNCHANGED <<graph, lateEdges, similar, pc, scanned, goal, batch, sent, reply, bounds,
                 deleted, bare, edgeLost>>

LandLateEdge(e) ==
  /\ lateEdges' = lateEdges \ {e}
  /\ edges' = edges \cup Matching({e})
  /\ UNCHANGED <<points, nodes, leaving, net, similar, pc, scanned, goal, batch, sent, reply,
                 bounds, history>>

\* delete_memory: the point, and later the node with its edges, even if the
\* memory is stored again in between.
DeletePoint(m) ==
  /\ m \in live /\ events > 0
  /\ events' = events - 1
  /\ live' = live \ {m}
  /\ marker' = [marker EXCEPT ![m] = None]
  /\ rev' = [rev EXCEPT ![m] = NoRev] /\ log' = [log EXCEPT ![m] = {}]
  /\ deleted' = deleted \cup {m}
  /\ leaving' = leaving \cup {m}
  /\ UNCHANGED <<nodes, edges, transit, similar, pc, scanned, goal, batch, sent, reply, faults,
                 ever, bare, edgeLost>>

DeleteNode(m) ==
  /\ m \in leaving
  /\ leaving' = leaving \ {m}
  /\ nodes' = nodes \ {m}
  /\ edges' = {e \in edges : m \notin {e[1], e[2]}}
  /\ UNCHANGED <<points, transit, similar, pc, scanned, goal, batch, sent, reply, bounds, history>>

\* Somebody else's write: an edit of the payload, or a store, also of a memory
\* that was deleted.  A store makes the node as well; if it cannot, it says so
\* in the log only.
Touch(m) ==
  /\ events > 0
  /\ events' = events - 1
  /\ live' = live \cup {m} /\ nodes' \in {nodes, nodes \cup {m}}
  /\ rev' = [rev EXCEPT ![m] = <<None, events>>]
  /\ log' = [log EXCEPT ![m] = @ \cup {<<None, events>>}]
  /\ UNCHANGED <<marker, edges, leaving, transit, similar, pc, scanned, goal, batch, sent, reply,
                 faults,
                 history>>

-----------------------------------------------------------------------------

\* Points written before revisions existed, some superseded (by the newest),
\* some without a node.
Init ==
  /\ live = Memories /\ edges = {} /\ leaving = {}
  /\ rev = [m \in Memories |-> NoRev] /\ log = [m \in Memories |-> {}]
  /\ net = {} /\ lateEdges = {}
  /\ \E w \in Workloads :
       /\ similar = w.pairs /\ events = w.events /\ faults = w.faults
       /\ bare = w.bare /\ nodes = Memories \ bare
       /\ marker = [m \in Memories |-> IF m \in w.hidden THEN 1 ELSE None]
       /\ pc = [c \in Callers |-> IF c \in w.callers THEN "idle" ELSE "done"]
  /\ scanned = [c \in Callers |-> {}]
  /\ goal = [c \in Callers |-> None]
  /\ todo = [c \in Callers |-> {}] /\ pending = [c \in Callers |-> {}]
  /\ base = [c \in Callers |-> [m \in Memories |-> NoRev]] /\ written = [c \in Callers |-> {}]
  /\ outcome = [c \in Callers |-> [m \in Memories |-> "none"]]
  /\ round = [c \in Callers |-> 0] /\ sent = [c \in Callers |-> 1]
  /\ reply = [c \in Callers |-> None]
  /\ ever = {<<m, marker[m]>> : m \in {n \in Memories : marker[n] # None}}
  /\ deleted = {} /\ edgeLost = {}

Look(c) == FirstPage(c) \/ NextPage(c) \/ Choose(c)
MergeStep(c) ==
  \/ CheckCanonical(c) \/ CheckDuplicates(c)
  \/ FindAbsent(c) \/ ReadBatch(c) \/ (\E m \in Memories : Write(c, m)) \/ ReadBack(c)
  \/ Settle(c) \/ Reread(c) \/ WriteEdges(c) \/ Retry(c)
Fault(c) ==
  \/ ScanFails(c) \/ (\E m \in Memories : WriteFails(c, m)) \/ BatchReadFails(c)
  \/ RereadFails(c) \/ WriteEdgesFail(c) \/ CutOff(c)
Others ==
  \/ \E q \in net : LandLate(q)
  \/ \E e \in lateEdges : LandLateEdge(e)
  \/ \E m \in Memories : DeletePoint(m) \/ DeleteNode(m) \/ Touch(m)

Next == Others \/ \E c \in Callers : Look(c) \/ MergeStep(c) \/ Fault(c)

Spec == Init /\ [][Next]_vars

\* Every merge goes on, and its caller retries as it is told to.  Nothing is
\* asked of lost requests, nor of a caller who has yet to choose a group.
FairSpec == Spec /\ \A c \in Callers : WF_vars(MergeStep(c))

-----------------------------------------------------------------------------
(* Properties *)

Places == {"idle", "more", "found", "done", "refused", "retry"} \cup Merging
Outcomes == {"none", "absent", "landed", "deleted", "unconfirmed"}
Stamps == (Callers \cup {None}) \X Nat

\* Types of the state.
TypeOK ==
  /\ live \subseteq Memories /\ marker \in [Memories -> Memories \cup {None}]
  /\ rev \in [Memories -> Stamps] /\ log \in [Memories -> SUBSET Stamps]
  /\ nodes \subseteq Memories /\ edges \subseteq Memories \X Memories
  /\ leaving \subseteq Memories
  /\ net \subseteq [mem : Memories, base : Stamps, tok : Stamps, to : Memories]
  /\ lateEdges \subseteq Memories \X Memories
  /\ similar \in Seq(Memories \X Memories)
  /\ pc \in [Callers -> Places]
  /\ scanned \in [Callers -> SUBSET Memories]
  /\ goal \in [Callers -> Goals \cup {None}]
  /\ todo \in [Callers -> SUBSET Memories] /\ pending \in [Callers -> SUBSET Memories]
  /\ base \in [Callers -> [Memories -> Stamps]]
  /\ written \in [Callers -> SUBSET (Memories \X Stamps)]
  /\ \A c \in Callers : IsFiniteSet(written[c])
  /\ outcome \in [Callers -> [Memories -> Outcomes]]
  /\ round \in [Callers -> Nat] /\ sent \in [Callers -> Nat]
  /\ reply \in [Callers -> Replies \cup {None}]
  /\ events \in Nat /\ faults \in Nat
  /\ ever \subseteq Memories \X Memories /\ deleted \subseteq Memories
  /\ bare \subseteq Memories /\ edgeLost \subseteq Callers

\* "groups them transitively": the sets that union-find builds, in whatever
\* order the pairs come, are the connected groups of what was scanned.
GroupsAreClusters ==
  \A c \in Callers :
    pc[c] = "found" => GroupsOf(c) = Components(scanned[c], similar)

Settled(m, k) == <<m, k>> \in ever \/ m \in deleted

\* A memory that the reply lists as superseded has carried the marker of this
\* canonical memory, or was deleted on the way; in doubt or failed otherwise.
ReplyHolds ==
  \A c \in Callers : reply[c] # None =>
    \A m \in reply[c].superseded : Settled(m, Canonical(c))

\* "an edge on a memory whose marker did not land would claim a supersession
\* search does not apply": an edge, written or still on its way, ends at a
\* memory that has carried its marker, or that was deleted.
EdgesHaveMarkers ==
  \A e \in edges \cup lateEdges : Settled(e[2], e[1])

\* A call has a goal once it has chosen, and a reply only after that.
GoalsSet ==
  \A c \in Callers :
    /\ pc[c] \in {"idle", "more", "found"} => goal[c] = None
    /\ pc[c] \in Merging \cup {"retry"} => goal[c] # None
    /\ reply[c] # None => goal[c] # None
    /\ pc[c] = "edges" => reply[c] # None

\* Who wrote what: markers, logs, requests under way and the batches agree
\* with the history.
MarkersKnown ==
  /\ \A m \in Memories : marker[m] # None => <<m, marker[m]>> \in ever
  /\ Memories \ live \subseteq deleted
LogsKnown ==
  \A m \in Memories : \A tok \in log[m] : tok[1] # None =>
    goal[tok[1]] # None /\ <<m, Canonical(tok[1])>> \in ever
NetKnown ==
  \A q \in net : q.tok[1] # None /\ goal[q.tok[1]] # None /\ q.to = Canonical(q.tok[1])
BatchKnown(c) ==
  /\ \A w \in written[c] : w[2][1] = c
  /\ \A m \in Memories :
       /\ outcome[c][m] = "landed" => goal[c] # None /\ <<m, Canonical(c)>> \in ever
       /\ outcome[c][m] = "deleted" => m \in deleted
Known == MarkersKnown /\ LogsKnown /\ NetKnown /\ \A c \in Callers : BatchKnown(c)

\* Every duplicate that nobody deleted has been marked and has its edge, unless
\* the edge write failed unreported, or one end had no node to begin with.
Merged(c) ==
  \A m \in goal[c].duplicates : {m, Canonical(c)} \cap deleted = {} =>
    /\ <<m, Canonical(c)>> \in ever
    /\ c \in edgeLost \/ {m, Canonical(c)} \cap bare # {} \/ <<Canonical(c), m>> \in edges

\* A merge whose caller need not retry has merged, whichever of its attempts
\* marked what; nothing but a delete takes its edges away again.
DoneIsMerged ==
  \A c \in Callers : goal[c] # None /\ pc[c] \in {"done", "refused"} => Merged(c)

\* What the batch leaves out was deleted, the reply names all of the batch, and
\* a node is missing only after a delete, or where none was made.
WholeBatch(c) ==
  /\ pc[c] \in {"read", "write", "back", "settle", "reread", "edges"} =>
       goal[c].duplicates \ todo[c] \subseteq deleted
  /\ pc[c] = "edges" => reply[c].superseded \cup reply[c].plain = todo[c]
NodesKnown == leaving \subseteq deleted /\ Memories \ nodes \subseteq deleted \cup bare
Whole == NodesKnown /\ \A c \in Callers : WholeBatch(c)

\* The inductive invariant.
DupInv ==
  /\ TypeOK /\ GoalsSet
  /\ Known /\ ReplyHolds /\ EdgesHaveMarkers /\ Whole /\ DoneIsMerged

\* "Retry the same call; it is idempotent and converges": once nothing fails
\* any more every merge ends, and has merged.
Converges ==
  \A c \in Callers : <>[](goal[c] # None => pc[c] \in {"done", "refused"} /\ Merged(c))

=============================================================================
