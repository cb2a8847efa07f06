---------------------------- MODULE Supersession ----------------------------
(***************************************************************************)
(* Superseding one memory and reversing it                                 *)
(* (crates/alaya-core/src/service.rs: memory_supersede, mark_superseded,   *)
(* refute_supersede, memory_unsupersede, resolve_contradiction).           *)
(*                                                                         *)
(* The same fact is kept in two stores with no transaction over them: the  *)
(* marker in the memory's Qdrant payload hides the memory, and a           *)
(* SUPERSEDES edge in the graph keeps its contradiction pairs out of the   *)
(* review queue.  A third record, the keep_both stamp on the CONTRADICTS   *)
(* pair of the memory and its survivor, keeps a reversed supersession from *)
(* coming back.  Calls interleave at every await, in any number of         *)
(* processes, and any call to either store may fail with or without effect.*)
(*                                                                         *)
(* One memory that may be superseded is modelled.  A write of its payload  *)
(* that is answered is one step here: CasStore shows why a conditional     *)
(* write is.  One without an answer may still land later, as long as no    *)
(* other has landed since it was prepared.  A graph query without an       *)
(* answer ran, or never does.  Two unsupersede calls never share the clock *)
(* reading they stamp with.                                                *)
(***************************************************************************)
EXTENDS Naturals, FiniteSets

CONSTANTS Calls,       \* calls of the operations below, from any process
          Kind,        \* Kind[c]: the operation
          Survivor,    \* Survivor[c]: the new memory a supersede, a refute or
                       \* a resolve names
          Reason,      \* Reason[c]: the reason they give
          Survivors,   \* the memories that may supersede this one
          Pairs,       \* those that have a CONTRADICTS pair with it
          Nodings,     \* sets of survivors whose edge may have a node at both ends
          None

Kinds == {"supersede", "refute", "unsupersede", "resolve"}

ASSUME SupersessionAssumption ==
  /\ \A c \in Calls : Kind[c] \in Kinds /\ Survivor[c] \in Survivors /\ Reason[c] # None
  /\ Pairs \subseteq Survivors
  /\ None \notin Survivors \cup Calls

ASSUME NodingsAssumption == Nodings \subseteq SUBSET Survivors

VARIABLES marker,   \* metadata.superseded_by and supersession_reason
          edges,    \* sources of the SUPERSEDES edges into the memory
          noded,    \* survivors whose edge has a node at both ends
          stamp,    \* per pair: the call whose resolution it carries
          flight,   \* calls whose payload write has no answer and may land
          pc,
          seen,     \* the marker an unsupersede read first
          aim,      \* the survivor whose edge the call will write
          stamped,  \* unsupersede calls that stamped the pair themselves
          told,     \* answers to the callers
          \* history variables
          cleared,  \* unsupersede calls that removed the marker
          trouble,  \* whether a graph write, a second write, a re-read or a
                    \* whole call was given up with an error or a warning
          late,     \* whether the marker landed after its call had ended, and
                    \* has had no edge since
          belated   \* edges written when the marker no longer named them

stores == <<marker, edges, stamp, noded, flight>>
locals == <<pc, seen, aim, stamped, told>>
ghosts == <<cleared, trouble, late, belated>>
vars == <<stores, locals, ghosts>>

Live == [by |-> None, why |-> None]
Mark(c) == [by |-> Survivor[c], why |-> Reason[c]]

-----------------------------------------------------------------------------
(* Pieces of steps *)

Goto(c, l) == pc' = [pc EXCEPT ![c] = l] /\ UNCHANGED told
Done(c, r) == pc' = [pc EXCEPT ![c] = "done"] /\ told' = [told EXCEPT ![c] = r]

\* A payload write lands.  It makes a new revision, and every request still
\* under way is conditional on the one before.
\* (Slip: the others can land as before.)
LandsBeside(m) == marker' = m /\ UNCHANGED flight
Lands(m) == marker' = m /\ flight' = {}

\* The conditional write of c (supersede_if_live) is sent only for a live memory.
Landable(c) == Kind[c] = "refute" => marker = Live

-----------------------------------------------------------------------------
(* memory_supersede and refute_supersede *)

\* Both memories exist; the marker and the reason go out in one write.
MarkAnswered(c) ==
  /\ pc[c] = "idle" /\ Kind[c] \in {"supersede", "refute"}
  /\ Landable(c)
  /\ Lands(Mark(c))
  /\ late' = FALSE
  /\ aim' = [aim EXCEPT ![c] = Survivor[c]]
  /\ Goto(c, "edge")
  /\ UNCHANGED <<edges, stamp, noded, seen, stamped, cleared, trouble, belated>>

\* The write fails: it may land now, later (LandLate), or never.
MarkFails(c) ==
  /\ pc[c] = "idle" /\ Kind[c] \in {"supersede", "refute"}
  /\ flight' = IF Landable(c) THEN flight \cup {c} ELSE flight
  /\ Goto(c, "reread")
  /\ UNCHANGED <<marker, edges, stamp, noded, seen, aim, stamped, ghosts>>

\* supersede_if_live found a marker: its own (a retry) is claimed, another
\* survivor's or another reason stays the record.
RefuteFinds(c) ==
  /\ pc[c] = "idle" /\ Kind[c] = "refute"
  /\ marker # Live
  /\ IF marker = Mark(c)
       THEN Goto(c, "edge") /\ aim' = [aim EXCEPT ![c] = Survivor[c]]
       ELSE Done(c, "conflict") /\ UNCHANGED aim
  /\ UNCHANGED <<stores, seen, stamped, ghosts>>

\* The correction was superseded or deleted before the refute's second step.
CorrectionGone(c) ==
  /\ pc[c] = "idle" /\ Kind[c] = "refute"
  /\ Done(c, "correction_gone")
  /\ UNCHANGED <<stores, seen, aim, stamped, ghosts>>

\* After a failed marker write the stored marker decides; a refute claims it
\* only with its own reason.  memory_supersede writes the edge of what landed
\* and is still an error.
Claims(c) == IF Kind[c] = "refute" THEN marker = Mark(c) ELSE marker.by = Survivor[c]
Reread(c) ==
  /\ pc[c] = "reread"
  /\ \/ /\ Claims(c)
        /\ aim' = [aim EXCEPT ![c] = Survivor[c]]
        /\ Goto(c, IF Kind[c] = "refute" THEN "edge" ELSE "repair")
     \/ /\ ~Claims(c)
        /\ Done(c, IF Kind[c] = "refute" /\ marker # Live THEN "conflict" ELSE "error")
        /\ UNCHANGED aim
  /\ UNCHANGED <<stores, seen, stamped, ghosts>>

\* The read fails too: the outcome is in doubt, no edge is written.
RereadFails(c) ==
  /\ pc[c] = "reread"
  /\ Done(c, "in_doubt")
  /\ trouble' = "reported"
  /\ UNCHANGED <<stores, seen, aim, stamped, cleared, late, belated>>

\* write_supersedes_edges; the end of every operation that writes an edge.
AfterEdge(c) ==
  CASE pc[c] = "repair" -> "error"
    [] pc[c] = "edge" /\ Kind[c] # "unsupersede" -> "superseded"
    [] pc[c] = "edge" /\ Kind[c] = "unsupersede" /\ c \in cleared -> "unsuperseded"
    [] OTHER -> "changed"

\* The query matches both nodes: where one is missing it makes no edge, and
\* how many were made is not looked at.
Link(c) ==
  /\ edges' = edges \cup ({aim[c]} \cap noded)
  /\ late' = (late /\ marker.by # aim[c])
  /\ belated' = IF marker.by = aim[c] THEN belated ELSE belated \cup {aim[c]}

WriteEdge(c) ==
  /\ pc[c] \in {"edge", "repair"}
  /\ Link(c)
  /\ Done(c, AfterEdge(c))
  /\ UNCHANGED <<marker, stamp, noded, flight, seen, aim, stamped, cleared, trouble>>

\* Only warned about.
WriteEdgeFails(c) ==
  /\ pc[c] \in {"edge", "repair"}
  /\ Link(c) \/ UNCHANGED <<edges, late, belated>>
  /\ Done(c, AfterEdge(c))
  /\ trouble' = "reported"
  /\ UNCHANGED <<marker, stamp, noded, flight, seen, aim, stamped, cleared>>

-----------------------------------------------------------------------------
(* memory_unsupersede *)

Begin(c) ==
  /\ pc[c] = "idle" /\ Kind[c] = "unsupersede"
  /\ seen' = [seen EXCEPT ![c] = marker]
  /\ IF marker = Live THEN Done(c, "not_superseded") ELSE Goto(c, "settle")
  /\ UNCHANGED <<stores, aim, stamped, ghosts>>

\* Step 1: settle_contradiction stamps the pair only where it has no
\* resolution yet.
SettlePair(c) ==
  LET s == seen[c].by IN
  IF s \in Pairs /\ stamp[s] = None
    THEN stamp' = [stamp EXCEPT ![s] = c]
    ELSE UNCHANGED stamp

Settle(c) ==
  /\ pc[c] = "settle"
  /\ SettlePair(c)
  /\ stamped' = IF stamp' = stamp THEN stamped ELSE stamped \cup {c}
  /\ Goto(c, "sweep")
  /\ UNCHANGED <<marker, edges, noded, flight, seen, aim, ghosts>>

\* Step 2: delete every incoming SUPERSEDES edge.
Sweep(c) ==
  /\ pc[c] = "sweep"
  /\ edges' = {} /\ belated' = {}
  /\ Goto(c, "reverse")
  /\ UNCHANGED <<marker, stamp, noded, flight, seen, aim, stamped, cleared, trouble, late>>

\* A graph failure in step 1 or 2 is an error before the marker is touched.
GraphFails(c) ==
  /\ \/ pc[c] = "settle" /\ UNCHANGED edges /\ (SettlePair(c) \/ UNCHANGED stamp)
     \/ pc[c] = "sweep" /\ edges' \in {edges, {}} /\ UNCHANGED stamp
  /\ Done(c, "graph_error")
  /\ trouble' = "reported"
  /\ UNCHANGED <<marker, noded, flight, seen, aim, stamped, cleared, late, belated>>

\* Step 3: reverse_supersession, only while the marker names the survivor
\* read (the reason is not compared).
Clear(c) ==
  /\ Lands(Live)
  /\ late' = FALSE
  /\ cleared' = cleared \cup {c}

Reverse(c) ==
  /\ pc[c] = "reverse"
  /\ \/ /\ marker.by = seen[c].by
        /\ Clear(c)
        /\ Goto(c, "resweep")
        /\ UNCHANGED aim
     \/ /\ marker = Live
        /\ Done(c, "not_superseded")
        /\ UNCHANGED <<marker, flight, aim, cleared, late>>
     \/ /\ marker.by \notin {None, seen[c].by}
        /\ aim' = [aim EXCEPT ![c] = marker.by]
        /\ Goto(c, "unsettle")
        /\ UNCHANGED <<marker, flight, cleared, late>>
  /\ UNCHANGED <<edges, stamp, noded, seen, stamped, trouble, belated>>

\* What may be under way for c once its reversal has no answer.
Sent(c) == IF marker.by = seen[c].by THEN flight \cup {c} ELSE flight

\* Unconfirmed: the reversal may land now, later (LandLate), or never.
ReverseFails(c) ==
  /\ pc[c] = "reverse"
  /\ flight' = Sent(c)
  /\ Done(c, "error")
  /\ trouble' = "reported"
  /\ UNCHANGED <<marker, edges, stamp, noded, seen, aim, stamped, cleared, late, belated>>

\* Slip: the second sweep is left out.
ResweepNot(c) ==
  /\ pc[c] = "resweep"
  /\ Goto(c, "recheck")
  /\ UNCHANGED <<stores, seen, aim, stamped, ghosts>>

\* Cleared: sweep the edges again, then see whether the sweep took the edge of
\* a newer supersession.  A failure of either is only warned about.
Resweep(c) ==
  /\ pc[c] = "resweep"
  /\ \/ edges' = {} /\ belated' = {} /\ UNCHANGED trouble
     \/ edges' \in {edges, {}} /\ trouble' = "reported" /\ UNCHANGED belated
  /\ Goto(c, "recheck")
  /\ UNCHANGED <<marker, stamp, noded, flight, seen, aim, stamped, cleared, late>>

\* Slip: the edge the second sweep may have taken is not put back.
RecheckNot(c) ==
  /\ pc[c] = "recheck"
  /\ Done(c, "unsuperseded") /\ UNCHANGED aim
  /\ UNCHANGED <<stores, seen, stamped, ghosts>>

Recheck(c) ==
  /\ pc[c] = "recheck"
  /\ IF marker = Live
       THEN Done(c, "unsuperseded") /\ UNCHANGED aim
       ELSE Goto(c, "edge") /\ aim' = [aim EXCEPT ![c] = marker.by]
  /\ UNCHANGED <<stores, seen, stamped, ghosts>>

RecheckFails(c) ==
  /\ pc[c] = "recheck"
  /\ Done(c, "unsuperseded")
  /\ trouble' = "reported"
  /\ UNCHANGED <<stores, seen, aim, stamped, cleared, late, belated>>

\* SupersededByOther: take back this call's own stamp (unsettle_contradiction
\* clears it only while it is still this call's), then put back the edge of
\* the survivor that reverse_supersession found.
\* (Slip: whatever stamp the pair has now.)
UnsettleAny(c) ==
  LET s == seen[c].by IN
  IF c \in stamped THEN stamp' = [stamp EXCEPT ![s] = None] ELSE UNCHANGED stamp
\* (Slip: nothing is taken back.)
UnsettleNot(c) == UNCHANGED stamp
UnsettlePair(c) ==
  LET s == seen[c].by IN
  IF c \in stamped /\ stamp[s] = c
    THEN stamp' = [stamp EXCEPT ![s] = None]
    ELSE UNCHANGED stamp

\* (Slip: the present survivor's edge is not put back.)
UnsettleOnly(c) ==
  /\ pc[c] = "unsettle"
  /\ UnsettlePair(c)
  /\ Done(c, "changed")
  /\ UNCHANGED <<marker, edges, noded, flight, seen, aim, stamped, ghosts>>
Unsettle(c) ==
  /\ pc[c] = "unsettle"
  /\ \/ UnsettlePair(c) /\ UNCHANGED trouble
     \/ (UnsettlePair(c) \/ UNCHANGED stamp) /\ trouble' = "reported"
  /\ Goto(c, "edge")
  /\ UNCHANGED <<marker, edges, noded, flight, seen, aim, stamped, cleared, late, belated>>

-----------------------------------------------------------------------------
(* resolve_contradiction, calls that are dropped, and late writes *)

\* An operator settles the pair, whatever stamp it has.
Resolve(c) ==
  /\ pc[c] = "idle" /\ Kind[c] = "resolve"
  /\ Survivor[c] \in Pairs
  /\ stamp' = [stamp EXCEPT ![Survivor[c]] = c]
  /\ Done(c, "resolved")
  /\ UNCHANGED <<marker, edges, noded, flight, seen, aim, stamped, ghosts>>

\* A crash, or the command's deadline: the call ends between two steps, or
\* with its payload write under way.
CutOff(c) ==
  /\ pc[c] \notin {"idle", "done"}
  /\ flight' = IF pc[c] = "reverse" THEN Sent(c) ELSE flight
  /\ Done(c, "cut")
  /\ trouble' = "reported"
  /\ UNCHANGED <<marker, edges, stamp, noded, seen, aim, stamped, cleared, late, belated>>

\* A payload write that was given up lands after all, whether or not its call
\* has answered; Qdrant checks the revision it was prepared for.
LandLate(c) ==
  /\ c \in flight
  /\ \/ /\ Kind[c] \in {"supersede", "refute"}
        /\ Lands(Mark(c))
        /\ late' = (pc[c] = "done" /\ Survivor[c] \notin edges)
        /\ UNCHANGED cleared
     \/ Kind[c] = "unsupersede" /\ Clear(c)
  /\ UNCHANGED <<edges, stamp, noded, locals, trouble, belated>>

-----------------------------------------------------------------------------
\* Live, or superseded by one survivor with its edge; the store of a memory
\* does not wait for its node, and some have none.
Init ==
  /\ noded \in Nodings /\ flight = {}
  /\ \/ marker = Live /\ edges = {}
     \/ \E s \in Survivors : marker = [by |-> s, why |-> None] /\ edges = {s} \cap noded
  /\ stamp = [s \in Pairs |-> None]
  /\ pc = [c \in Calls |-> "idle"]
  /\ seen = [c \in Calls |-> Live]
  /\ aim = [c \in Calls |-> None]
  /\ told = [c \in Calls |-> "none"]
  /\ stamped = {} /\ cleared = {}
  /\ trouble = "none" /\ late = FALSE /\ belated = {}

Step(c) ==
  \/ MarkAnswered(c) \/ RefuteFinds(c) \/ CorrectionGone(c) \/ Reread(c) \/ WriteEdge(c)
  \/ Begin(c) \/ Settle(c) \/ Sweep(c) \/ Reverse(c)
  \/ Resweep(c) \/ Recheck(c) \/ Unsettle(c) \/ Resolve(c)
Fault(c) ==
  \/ MarkFails(c) \/ RereadFails(c) \/ WriteEdgeFails(c) \/ GraphFails(c)
  \/ ReverseFails(c) \/ RecheckFails(c) \/ CutOff(c)

Next == \E c \in Calls : Step(c) \/ Fault(c) \/ LandLate(c)

Spec == Init /\ [][Next]_vars

-----------------------------------------------------------------------------
(* Properties *)

Markers == [by : Survivors \cup {None}, why : {Reason[c] : c \in Calls} \cup {None}]

\* Types of the state.
TypeOK ==
  /\ marker \in Markers
  /\ edges \in SUBSET Survivors /\ noded \in SUBSET Survivors /\ belated \in SUBSET Survivors
  /\ flight \in SUBSET Calls /\ late \in BOOLEAN
  /\ stamp \in [Pairs -> Calls \cup {None}]
  /\ pc \in [Calls -> {"idle", "reread", "edge", "repair", "settle", "sweep",
                       "reverse", "resweep", "recheck", "unsettle", "done"}]
  /\ seen \in [Calls -> Markers]
  /\ aim \in [Calls -> Survivors \cup {None}]
  /\ told \in [Calls -> {"none", "superseded", "conflict", "correction_gone", "error",
                         "in_doubt", "unsuperseded", "not_superseded", "changed",
                         "graph_error", "resolved", "cut"}]
  /\ stamped \in SUBSET Calls /\ cleared \in SUBSET Calls
  /\ trouble \in {"none", "reported"}

\* No call is running.
Quiet == \A c \in Calls : pc[c] \in {"idle", "done"}

\* "Its marker is written before its edge, so any such edge the sweep could
\* reach has a marker this read sees: put its edge back": whatever the
\* sweeps of concurrent reversals took, once no call is running a superseded
\* memory has the edge of its survivor if both have a node, unless a failure
\* was reported, or the marker landed only after its call had answered with
\* an error.  A marker write that failed but landed before the re-read is no
\* excuse (mark_superseded).
SupersededHasEdge ==
  Quiet /\ trouble = "none" /\ ~late /\ marker.by \in noded => marker.by \in edges

\* The same while calls run: a superseded memory without its edge is one for
\* which some call still has the edge to write, or a sweep to follow up.
Owes(c) ==
  \/ pc[c] \in {"edge", "repair", "unsettle"} /\ aim[c] = marker.by
  \/ pc[c] = "reread" /\ Claims(c)
  \/ pc[c] \in {"reverse", "recheck", "resweep"}
EdgeOwed ==
  trouble = "none" /\ ~late /\ marker.by \in noded \ edges => \E c \in Calls : Owes(c)

InDoubt(c) == pc[c] = "done" /\ told[c] \in {"error", "in_doubt", "cut"}

\* What mark_superseded promises of "a write that landed without being
\* confirmed", as far as it holds: a marker that came too late for the re-read
\* is one whose caller was left in doubt, never told that the memory has its
\* edge, or that another supersession stopped this one ("conflict").
LateIsTold ==
  late => \E c \in Calls :
    /\ Kind[c] \in {"supersede", "refute"} /\ Survivor[c] = marker.by
    /\ InDoubt(c)

\* "A stale edge keeps a live memory's pairs out of the queue and nothing
\* repairs it": an edge of a live memory is one that a reversal still sweeps,
\* or one that its call wrote only after its marker had been reversed, which
\* no sweep follows.
StaleEdgeIsBelated ==
  trouble = "none" /\ marker = Live =>
    \/ edges \subseteq belated
    \/ \E c \in Calls : pc[c] = "resweep"

\* The answers of memory_unsupersede are true: "unsuperseded" removed the
\* marker; "not_superseded", "superseded_by_changed" and a graph failure in
\* step 1 or 2 left it whole; superseded_by_changed left no stamp of its own
\* ("undo this call's graph writes"), unless taking it back failed.
ReversalTold ==
  \A c \in Calls :
    /\ told[c] = "unsuperseded" => c \in cleared
    /\ told[c] \in {"not_superseded", "changed", "graph_error"} => c \notin cleared
    /\ told[c] = "changed" /\ trouble = "none" => \A s \in Pairs : stamp[s] # c

\* A resolution is replaced only by an operator's, and taken away only by the
\* call that wrote it ("a stamp written since by anyone else stays").
StampsKept ==
  [][\A s \in Pairs : stamp[s] # None /\ stamp'[s] # stamp[s] =>
       IF stamp'[s] = None
         THEN Kind[stamp[s]] = "unsupersede" /\ told[stamp[s]] = "none"
         ELSE Kind[stamp'[s]] = "resolve"]_vars

\* Whenever a write of the marker lands, late ones included, it does what its
\* call decided on from the marker it read: a refute's marks a live memory
\* ("never overwritten"), a reversal's removes the survivor it was asked to
\* reverse, and each reversal lands once.
WritesAsRead ==
  [][marker' # marker =>
       \E c \in Calls :
         \/ marker' = Mark(c) /\ Kind[c] = "supersede"
         \/ marker' = Mark(c) /\ Kind[c] = "refute" /\ marker = Live
         \/ marker' = Live /\ c \in cleared' \ cleared /\ seen[c].by = marker.by]_vars

\* The strengthening under which the invariants above and the action properties
\* are proved.  A marker names a survivor.
Superseded(m) == m.by \in Survivors
MarkerShape == marker = Live \/ Superseded(marker)

\* Where a call is agrees with what it is, what it has read and done, and
\* whether it has answered.
Phase(c) ==
  /\ pc[c] # "done" => told[c] = "none"
  /\ pc[c] \in {"settle", "sweep", "reverse", "resweep", "recheck", "unsettle"} =>
       Kind[c] = "unsupersede" /\ Superseded(seen[c])
  /\ pc[c] \in {"reread", "repair"} => Kind[c] \in {"supersede", "refute"}
  /\ pc[c] \in {"resweep", "recheck"} => c \in cleared
  /\ pc[c] \in {"idle", "reread", "repair", "settle", "sweep", "reverse", "unsettle"} =>
       c \notin cleared
  /\ pc[c] \in {"edge", "repair", "unsettle"} => aim[c] \in Survivors
  /\ pc[c] = "repair" => aim[c] = Survivor[c]
  /\ c \in cleared => Kind[c] = "unsupersede"
Phases == \A c \in Calls : Phase(c)

\* What a request still under way would find: the memory as its call read it.
InFlight(c) ==
  \/ Kind[c] = "supersede" /\ (pc[c] \in {"reread", "repair"} \/ InDoubt(c))
  \/ Kind[c] = "refute" /\ marker = Live /\ (pc[c] = "reread" \/ InDoubt(c))
  \/ /\ Kind[c] = "unsupersede" /\ InDoubt(c) /\ trouble # "none"
     /\ Superseded(seen[c]) /\ marker.by = seen[c].by /\ c \notin cleared
Flights == \A c \in flight : InFlight(c)

\* A call's resolution is on the pair it read or names, and an unsupersede
\* that found the marker changed still has to take its own away.
OwnStamp(s, c) ==
  \/ Kind[c] = "resolve" /\ told[c] = "resolved"
  \/ /\ Kind[c] = "unsupersede"
     /\ pc[c] \notin {"idle", "settle"}
     /\ \/ trouble # "none"
        \/ /\ s = seen[c].by /\ c \in stamped
           /\ told[c] # "changed"
           /\ pc[c] = "edge" => c \in cleared
OwnStamps == \A s \in Pairs, c \in Calls : stamp[s] = c => OwnStamp(s, c)

\* c, a reversal, has settled its pair and goes on to remove the marker, or did.
Relies(c) ==
  \/ pc[c] \in {"sweep", "reverse", "resweep", "recheck"}
  \/ pc[c] = "edge" /\ c \in cleared
  \/ told[c] = "unsuperseded"

\* d, a reversal of s, stamped the pair and found another survivor's marker.
TakesBack(d, s) ==
  /\ Kind[d] = "unsupersede" /\ d \in stamped \ cleared /\ seen[d].by = s
  /\ pc[d] = "edge" \/ told[d] = "changed"

\* The pair of a reversed supersession is settled, as long as nothing failed,
\* unless another reversal took back the stamp that this one found there.
OpenedByOther ==
  trouble = "none" =>
    \A c \in Calls : Relies(c) /\ seen[c].by \in Pairs /\ stamp[seen[c].by] = None =>
      \E d \in Calls \ {c} : TakesBack(d, seen[c].by)

\* The parts above, inductive together.
SupInv ==
  /\ TypeOK /\ MarkerShape /\ Phases /\ Flights /\ OwnStamps /\ EdgeOwed /\ LateIsTold
  /\ StaleEdgeIsBelated /\ ReversalTold /\ OpenedByOther

\* memory_unsupersede, step 1: the pair of a reversed supersession is stamped
\* "so a later judge run cannot re-apply the reversed supersession".
ReversedPairIsSettled ==
  Quiet /\ trouble = "none" /\ marker = Live =>
    \A c \in Calls : told[c] = "unsuperseded" /\ seen[c].by \in Pairs =>
      stamp[seen[c].by] # None

=============================================================================
