------------------------- MODULE SupersessionProofs -------------------------
(***************************************************************************)
(* Theorems about Supersession, for any number of calls and survivors.     *)
(* SupInv is inductive; the action properties follow from it step by step. *)
(***************************************************************************)
EXTENDS Supersession, TLAPS

\* A call's own marker, and the marker of a live memory, are markers.
LEMMA MarkType ==
  /\ Live \in Markers /\ Live.by = None
  /\ \A c \in Calls : Mark(c) \in Markers /\ Superseded(Mark(c)) /\ Mark(c).by = Survivor[c]
  BY SupersessionAssumption DEF Live, Mark, Markers, Superseded

\* No survivor is None: a memory is live exactly when its marker names none.
LEMMA Shape ==
  ASSUME NEW m, m = Live \/ Superseded(m)
  PROVE  m = Live <=> m.by = None
  BY SupersessionAssumption DEF Live, Superseded

\* The invariant holds at the start.
LEMMA InitInv == Init => SupInv
  <1> SUFFICES ASSUME Init PROVE SupInv
    OBVIOUS
  <1> USE SupersessionAssumption
  <1>1. TypeOK
    <2>1. marker \in Markers /\ edges \in SUBSET Survivors /\ noded \in SUBSET Survivors
      BY NodingsAssumption DEF Init, Markers, Live
    <2>2. seen \in [Calls -> Markers]
      BY MarkType DEF Init
    <2>3. QED
      BY <2>1, <2>2 DEF Init, TypeOK
  <1>2. MarkerShape
    BY DEF Init, MarkerShape, Superseded, Live
  <1>3. Phases /\ Flights /\ OwnStamps /\ ReversalTold
    BY DEF Init, Phases, Phase, Flights, OwnStamps, ReversalTold
  <1>4. EdgeOwed /\ LateIsTold /\ StaleEdgeIsBelated
    <2>1. late = FALSE /\ (marker = Live => edges = {})
      BY DEF Init, Live
    <2>2. marker.by \in noded => marker.by \in edges
      <3>1. CASE marker = Live
        BY <3>1, NodingsAssumption DEF Init, Live
      <3>2. CASE marker # Live
        BY <3>2 DEF Init
      <3>3. QED
        BY <3>1, <3>2
    <2>3. QED
      BY <2>1, <2>2 DEF EdgeOwed, LateIsTold, StaleEdgeIsBelated
  <1>5. OpenedByOther
    BY DEF Init, OpenedByOther, Relies
  <1>6. QED
    BY <1>1, <1>2, <1>3, <1>4, <1>5 DEF SupInv

\* Every step keeps the types.
LEMMA NextType == SupInv /\ [Next]_vars => TypeOK'
  <1> SUFFICES ASSUME SupInv, [Next]_vars PROVE TypeOK'
    OBVIOUS
  <1> USE SupersessionAssumption, MarkType DEF SupInv, TypeOK, stores, locals, ghosts
  <1>1. CASE UNCHANGED vars
    BY <1>1 DEF vars
  <1>2. ASSUME NEW c \in Calls, MarkAnswered(c) \/ MarkFails(c) PROVE TypeOK'
    BY <1>2 DEF MarkAnswered, MarkFails, Lands, Goto
  <1>3. ASSUME NEW c \in Calls, RefuteFinds(c) \/ CorrectionGone(c) PROVE TypeOK'
    BY <1>3 DEF RefuteFinds, CorrectionGone, Goto, Done
  <1>4. ASSUME NEW c \in Calls, Reread(c) \/ RereadFails(c) PROVE TypeOK'
    BY <1>4 DEF Reread, RereadFails, Goto, Done
  <1>5. ASSUME NEW c \in Calls, WriteEdge(c) \/ WriteEdgeFails(c) PROVE TypeOK'
    <2>1. AfterEdge(c) \in {"error", "superseded", "unsuperseded", "changed"}
      BY DEF AfterEdge
    <2>2. pc' = [pc EXCEPT ![c] = "done"] /\ told' = [told EXCEPT ![c] = AfterEdge(c)]
      BY <1>5 DEF WriteEdge, WriteEdgeFails, Done
    <2>3. edges' \in SUBSET Survivors /\ belated' \in SUBSET Survivors /\ late' \in BOOLEAN
      BY <1>5 DEF WriteEdge, WriteEdgeFails, Link, Phases, Phase
    <2>4. QED
      BY <1>5, <2>1, <2>2, <2>3 DEF WriteEdge, WriteEdgeFails
  <1>6. ASSUME NEW c \in Calls, Begin(c) PROVE TypeOK'
    BY <1>6 DEF Begin, Goto, Done
  <1>7. ASSUME NEW c \in Calls, Settle(c) PROVE TypeOK'
    BY <1>7 DEF Settle, SettlePair, Goto
  <1>8. ASSUME NEW c \in Calls, Sweep(c) \/ GraphFails(c) PROVE TypeOK'
    BY <1>8 DEF Sweep, GraphFails, SettlePair, Goto, Done
  <1>9. ASSUME NEW c \in Calls, Reverse(c) \/ ReverseFails(c) PROVE TypeOK'
    <2>1. CASE Reverse(c)
      BY <2>1 DEF Reverse, Clear, Lands, Goto, Done, MarkerShape, Superseded
    <2>2. CASE ReverseFails(c)
      BY <2>2 DEF ReverseFails, Sent, Done
    <2>3. QED
      BY <1>9, <2>1, <2>2
  <1>10. ASSUME NEW c \in Calls, Resweep(c) PROVE TypeOK'
    BY <1>10 DEF Resweep, Goto
  <1>11. ASSUME NEW c \in Calls, Recheck(c) \/ RecheckFails(c) PROVE TypeOK'
    <2>1. CASE Recheck(c)
      <3>1. CASE marker = Live
        BY <2>1, <3>1 DEF Recheck, Done
      <3>2. CASE marker # Live
        <4>1. aim' = [aim EXCEPT ![c] = marker.by] /\ marker.by \in Survivors
          BY <2>1, <3>2 DEF Recheck, MarkerShape, Superseded
        <4>2. pc' = [pc EXCEPT ![c] = "edge"] /\ UNCHANGED <<told, stores, seen, stamped, ghosts>>
          BY <2>1, <3>2 DEF Recheck, Goto
        <4>3. QED
          BY <4>1, <4>2
      <3>3. QED
        BY <3>1, <3>2
    <2>2. CASE RecheckFails(c)
      BY <2>2 DEF RecheckFails, Done
    <2>3. QED
      BY <1>11, <2>1, <2>2
  <1>12. ASSUME NEW c \in Calls, Unsettle(c) PROVE TypeOK'
    BY <1>12 DEF Unsettle, UnsettlePair, Goto
  <1>13. ASSUME NEW c \in Calls, Resolve(c) \/ CutOff(c) PROVE TypeOK'
    <2>1. CASE Resolve(c)
      BY <2>1 DEF Resolve, Done
    <2>2. CASE CutOff(c)
      BY <2>2 DEF CutOff, Sent, Done
    <2>3. QED
      BY <1>13, <2>1, <2>2
  <1>14. ASSUME NEW c \in Calls, LandLate(c) PROVE TypeOK'
    BY <1>14 DEF LandLate, Clear, Lands
  <1>15. QED
    BY <1>1, <1>2, <1>3, <1>4, <1>5, <1>6, <1>7, <1>8, <1>9, <1>10, <1>11, <1>12, <1>13, <1>14
       DEF Next, Step, Fault

\* Every step keeps the marker's shape.
LEMMA NextShape == SupInv /\ [Next]_vars => MarkerShape'
  <1> SUFFICES ASSUME SupInv, [Next]_vars PROVE MarkerShape'
    OBVIOUS
  <1>1. CASE marker' = marker
    BY <1>1 DEF SupInv, MarkerShape
  <1>2. ASSUME NEW c \in Calls, marker' = Mark(c) PROVE MarkerShape'
    BY <1>2, MarkType DEF MarkerShape
  <1>3. CASE marker' = Live
    BY <1>3 DEF MarkerShape
  <1>4. QED
    BY <1>1, <1>2, <1>3
       DEF Next, Step, Fault, vars, stores, MarkAnswered, MarkFails, Lands, RefuteFinds,
           CorrectionGone, Reread, RereadFails, WriteEdge, WriteEdgeFails, Begin, Settle,
           Sweep, GraphFails, Reverse, ReverseFails, Clear, Resweep, Recheck, RecheckFails,
           Unsettle, Resolve, CutOff, LandLate

\* A step is one call's: the others stay where they are.
LEMMA OthersStay ==
  ASSUME SupInv, NEW c \in Calls, Step(c) \/ Fault(c), NEW d \in Calls, d # c
  PROVE  /\ pc'[d] = pc[d] /\ told'[d] = told[d] /\ seen'[d] = seen[d] /\ aim'[d] = aim[d]
         /\ d \in cleared' <=> d \in cleared
         /\ d \in stamped' <=> d \in stamped
  <1> USE DEF SupInv, TypeOK, stores, locals, ghosts, Goto, Done
  <1>1. CASE MarkAnswered(c) \/ MarkFails(c) \/ RefuteFinds(c) \/ CorrectionGone(c)
    BY <1>1 DEF MarkAnswered, MarkFails, RefuteFinds, CorrectionGone
  <1>2. CASE Reread(c) \/ RereadFails(c) \/ WriteEdge(c) \/ WriteEdgeFails(c)
    BY <1>2 DEF Reread, RereadFails, WriteEdge, WriteEdgeFails
  <1>3. CASE Begin(c) \/ Settle(c) \/ Sweep(c) \/ GraphFails(c)
    BY <1>3 DEF Begin, Settle, Sweep, GraphFails
  <1>4. CASE Reverse(c) \/ ReverseFails(c)
    BY <1>4 DEF Reverse, ReverseFails, Clear
  <1>5. CASE Resweep(c) \/ Recheck(c) \/ RecheckFails(c) \/ Unsettle(c)
    BY <1>5 DEF Resweep, Recheck, RecheckFails, Unsettle
  <1>6. CASE Resolve(c) \/ CutOff(c)
    BY <1>6 DEF Resolve, CutOff
  <1>7. QED
    BY <1>1, <1>2, <1>3, <1>4, <1>5, <1>6 DEF Step, Fault

\* Every step keeps the agreement of a call's place with what it did.
LEMMA NextPhases == SupInv /\ [Next]_vars => Phases'
  <1> SUFFICES ASSUME SupInv, [Next]_vars, NEW d \in Calls PROVE Phase(d)'
    BY DEF Phases
  <1>1. CASE UNCHANGED vars
    BY <1>1 DEF vars, SupInv, Phases, Phase, stores, locals, ghosts
  <1>2. ASSUME NEW c \in Calls, Step(c) \/ Fault(c), c # d PROVE Phase(d)'
    BY <1>2, OthersStay DEF SupInv, Phases, Phase
  <1>5. ASSUME NEW c \in Calls, LandLate(c) PROVE Phase(d)'
    <2>1. UNCHANGED <<pc, told, seen, aim>>
      BY <1>5 DEF LandLate, locals
    <2>2. CASE d = c /\ Kind[c] = "unsupersede"
      <3>1. pc[d] = "done"
        BY <1>5, <2>2 DEF LandLate, SupInv, Flights, InFlight, InDoubt
      <3>2. QED
        BY <2>1, <2>2, <3>1 DEF Phase
    <2>3. CASE ~(d = c /\ Kind[c] = "unsupersede")
      <3>1. d \in cleared' <=> d \in cleared
        BY <1>5, <2>3, SupersessionAssumption DEF LandLate, Clear
      <3>2. QED
        BY <2>1, <3>1 DEF SupInv, Phases, Phase
    <2>4. QED
      BY <2>2, <2>3
  <1>3. ASSUME Step(d) \/ Fault(d) PROVE Phase(d)'
    <2> USE SupersessionAssumption, MarkType DEF SupInv, TypeOK, Phases, Phase, stores, locals,
            ghosts, Goto, Done
    <2>1. CASE MarkAnswered(d) \/ MarkFails(d)
      BY <2>1 DEF MarkAnswered, MarkFails
    <2>2. CASE RefuteFinds(d) \/ CorrectionGone(d)
      BY <2>2 DEF RefuteFinds, CorrectionGone
    <2>3. CASE Reread(d) \/ RereadFails(d)
      BY <2>3 DEF Reread, RereadFails
    <2>4. CASE WriteEdge(d) \/ WriteEdgeFails(d)
      BY <2>4 DEF WriteEdge, WriteEdgeFails
    <2>5. CASE Begin(d)
      BY <2>5 DEF Begin, MarkerShape
    <2>6. CASE Settle(d) \/ Sweep(d) \/ GraphFails(d)
      BY <2>6 DEF Settle, Sweep, GraphFails
    <2>7. CASE Reverse(d) \/ ReverseFails(d)
      BY <2>7 DEF Reverse, ReverseFails, Clear, MarkerShape, Superseded
    <2>8. CASE Resweep(d) \/ RecheckFails(d)
      BY <2>8 DEF Resweep, RecheckFails
    <2>9. CASE Recheck(d)
      BY <2>9 DEF Recheck, MarkerShape, Superseded
    <2>10. CASE Unsettle(d)
      BY <2>10 DEF Unsettle
    <2>11. CASE Resolve(d) \/ CutOff(d)
      BY <2>11 DEF Resolve, CutOff
    <2>12. QED
      BY <1>3, <2>1, <2>2, <2>3, <2>4, <2>5, <2>6, <2>7, <2>8, <2>9, <2>10, <2>11 DEF Step, Fault
  <1>4. QED
    BY <1>1, <1>2, <1>3, <1>5 DEF Next

\* A late write changes nothing but the marker, its history and what is under
\* way; only a reversal's is noted as removed.
LEMMA LateLeaves ==
  ASSUME SupInv, NEW c \in Calls, LandLate(c)
  PROVE  /\ UNCHANGED <<edges, stamp, noded, pc, seen, aim, stamped, told, trouble, belated>>
         /\ flight' = {}
         /\ \/ /\ Kind[c] \in {"supersede", "refute"}
               /\ marker' = Mark(c) /\ cleared' = cleared
               /\ late' = (pc[c] = "done" /\ Survivor[c] \notin edges)
               /\ pc[c] \in {"reread", "repair"} \/ InDoubt(c)
               /\ Kind[c] = "refute" => marker = Live /\ pc[c] # "repair"
            \/ /\ Kind[c] = "unsupersede" /\ marker' = Live /\ late' = FALSE
               /\ cleared' = cleared \cup {c} /\ c \notin cleared
               /\ InDoubt(c) /\ trouble # "none"
               /\ Superseded(seen[c]) /\ marker.by = seen[c].by
  <1>1. InFlight(c)
    BY DEF LandLate, SupInv, Flights
  <1>2. UNCHANGED <<edges, stamp, noded, pc, seen, aim, stamped, told, trouble, belated>>
    BY DEF LandLate, locals
  <1>3. CASE Kind[c] = "unsupersede"
    BY <1>1, <1>2, <1>3 DEF LandLate, Clear, Lands, InFlight
  <1>4. CASE Kind[c] # "unsupersede"
    BY <1>1, <1>2, <1>4 DEF LandLate, Lands, InFlight, InDoubt
  <1>5. QED
    BY <1>3, <1>4

\* Every step keeps what is known of the requests under way: whatever lands
\* ends them all.
LEMMA NextFlights == SupInv /\ [Next]_vars => Flights'
  <1> SUFFICES ASSUME SupInv, [Next]_vars, NEW d \in flight' PROVE InFlight(d)'
    BY DEF Flights
  <1> USE SupersessionAssumption DEF SupInv, TypeOK
  <1>1. CASE UNCHANGED vars
    BY <1>1 DEF vars, stores, locals, ghosts, Flights, InFlight, InDoubt
  <1>2. ASSUME NEW c \in Calls, LandLate(c) PROVE FALSE
    BY <1>2 DEF LandLate, Lands, Clear
  <1>3. ASSUME NEW c \in Calls, Step(c) \/ Fault(c) PROVE InFlight(d)'
    <2>1. marker' = marker
      BY <1>3 DEF Step, Fault, stores, MarkAnswered, MarkFails, Lands, RefuteFinds, CorrectionGone,
             Reread, RereadFails, WriteEdge, WriteEdgeFails, Begin, Settle, Sweep, GraphFails,
             Reverse, ReverseFails, Clear, Resweep, Recheck, RecheckFails, Unsettle, Resolve, CutOff
    <2>2. CASE d # c
      <3>1. d \in flight /\ (trouble # "none" => trouble' # "none")
        BY <1>3, <2>2 DEF Step, Fault, stores, ghosts, MarkAnswered, MarkFails, Lands, RefuteFinds,
             CorrectionGone, Reread, RereadFails, WriteEdge, WriteEdgeFails, Begin, Settle, Sweep,
             GraphFails, Reverse, ReverseFails, Clear, Resweep, Recheck, RecheckFails, Unsettle,
             Resolve, CutOff, Sent
      <3>2. d \in Calls /\ InFlight(d)
        BY <3>1 DEF Flights
      <3>3. QED
        BY <1>3, <2>1, <2>2, <3>1, <3>2, OthersStay DEF InFlight, InDoubt, Superseded
    <2>3. CASE d = c
      <3> USE <2>3 DEF Goto, Done, stores, locals, ghosts, InFlight, InDoubt, Flights, Phases, Phase
      <3>1. CASE MarkAnswered(c)
        BY <3>1 DEF MarkAnswered, Lands
      <3>2. CASE MarkFails(c)
        BY <2>1, <3>2 DEF MarkFails, Landable
      <3>3. CASE RefuteFinds(c) \/ CorrectionGone(c) \/ Begin(c) \/ Settle(c) \/ Sweep(c)
        BY <3>3 DEF RefuteFinds, CorrectionGone, Begin, Settle, Sweep
      <3>4. CASE Reread(c) \/ RereadFails(c)
        <4>1. Kind[c] = "refute" => ~Claims(c)
          BY <3>4, MarkType DEF Reread, RereadFails, Claims
        <4>2. QED
          BY <2>1, <3>4, <4>1 DEF Reread, RereadFails
      <3>5. CASE WriteEdge(c) \/ WriteEdgeFails(c)
        <4>1. c \in flight /\ pc[c] = "repair" /\ Kind[c] = "supersede"
          BY <3>5 DEF WriteEdge, WriteEdgeFails
        <4>2. AfterEdge(c) = "error"
          BY <4>1 DEF AfterEdge
        <4>3. QED
          BY <3>5, <4>1, <4>2 DEF WriteEdge, WriteEdgeFails
      <3>6. CASE GraphFails(c) \/ Resweep(c) \/ Recheck(c) \/ RecheckFails(c) \/ Unsettle(c)
        BY <3>6 DEF GraphFails, Resweep, Recheck, RecheckFails, Unsettle
      <3>7. CASE Reverse(c)
        BY <3>7 DEF Reverse, Clear, Lands
      <3>8. CASE ReverseFails(c)
        BY <2>1, <3>8 DEF ReverseFails, Sent, Superseded
      <3>9. CASE Resolve(c)
        BY <3>9 DEF Resolve
      <3>10. CASE CutOff(c)
        BY <2>1, <3>10 DEF CutOff, Sent, Superseded
      <3>11. QED
        BY <1>3, <3>1, <3>2, <3>3, <3>4, <3>5, <3>6, <3>7, <3>8, <3>9, <3>10 DEF Step, Fault
    <2>4. QED
      BY <2>2, <2>3
  <1>4. QED
    BY <1>1, <1>2, <1>3 DEF Next

\* How one step of c may change the resolution of a pair, and that a reported
\* failure stays reported.
LEMMA StampMoves ==
  ASSUME SupInv, NEW c \in Calls, Step(c) \/ Fault(c), NEW s \in Pairs
  PROVE  /\ trouble # "none" => trouble' # "none"
         /\ pc[c] # "done"
         /\ \/ stamp'[s] = stamp[s]
            \/ /\ stamp[s] = None /\ stamp'[s] = c
               /\ Kind[c] = "unsupersede" /\ s = seen'[c].by
               /\ \/ pc'[c] = "sweep" /\ c \in stamped' /\ told'[c] = "none"
                  \/ pc'[c] = "done" /\ trouble' # "none"
            \/ stamp[s] = c /\ stamp'[s] = None /\ pc[c] = "unsettle"
            \/ stamp'[s] = c /\ Kind[c] = "resolve" /\ told'[c] = "resolved"
  <1> USE DEF SupInv, TypeOK, stores, locals, ghosts, Goto, Done
  <1>1. CASE MarkAnswered(c) \/ MarkFails(c) \/ RefuteFinds(c) \/ CorrectionGone(c)
    BY <1>1 DEF MarkAnswered, MarkFails, RefuteFinds, CorrectionGone
  <1>2. CASE Reread(c) \/ RereadFails(c) \/ WriteEdge(c) \/ WriteEdgeFails(c)
    BY <1>2 DEF Reread, RereadFails, WriteEdge, WriteEdgeFails
  <1>3. CASE Begin(c) \/ Sweep(c)
    BY <1>3 DEF Begin, Sweep
  <1>4. CASE Settle(c)
    <2>1. CASE seen[c].by \in Pairs /\ stamp[seen[c].by] = None
      <3>1. stamp' = [stamp EXCEPT ![seen[c].by] = c]
        BY <1>4, <2>1 DEF Settle, SettlePair
      <3>2. stamp' # stamp
        BY <2>1, <3>1, SupersessionAssumption
      <3>3. QED
        BY <1>4, <2>1, <3>1, <3>2 DEF Settle, Phases, Phase
    <2>2. CASE ~(seen[c].by \in Pairs /\ stamp[seen[c].by] = None)
      BY <1>4, <2>2 DEF Settle, SettlePair
    <2>3. QED
      BY <2>1, <2>2
  <1>5. CASE GraphFails(c)
    BY <1>5 DEF GraphFails, SettlePair, Phases, Phase
  <1>6. CASE Reverse(c) \/ ReverseFails(c)
    BY <1>6 DEF Reverse, ReverseFails
  <1>7. CASE Resweep(c) \/ Recheck(c) \/ RecheckFails(c)
    BY <1>7 DEF Resweep, Recheck, RecheckFails
  <1>8. CASE Unsettle(c)
    BY <1>8 DEF Unsettle, UnsettlePair
  <1>9. CASE Resolve(c) \/ CutOff(c)
    BY <1>9 DEF Resolve, CutOff
  <1>10. QED
    BY <1>1, <1>2, <1>3, <1>4, <1>5, <1>6, <1>7, <1>8, <1>9 DEF Step, Fault

\* A resolution a call wrote earlier stays its own through its next steps.
LEMMA StampStays ==
  ASSUME SupInv, NEW c \in Calls, Step(c) \/ Fault(c), NEW s \in Pairs,
         stamp[s] = c, stamp'[s] = c
  PROVE  OwnStamp(s, c)'
  <1> USE DEF stores, locals, ghosts, Goto, Done
  <1>1. /\ Kind[c] = "unsupersede" /\ pc[c] \notin {"idle", "settle", "reread", "done"}
        /\ trouble # "none" => trouble' # "none"
        /\ told[c] = "none"
        /\ \/ trouble # "none"
           \/ s = seen[c].by /\ c \in stamped /\ (pc[c] = "edge" => c \in cleared)
    BY StampMoves DEF SupInv, OwnStamps, OwnStamp, Phases, Phase
  <1> SUFFICES /\ pc'[c] \notin {"idle", "settle"}
               /\ \/ trouble' # "none"
                  \/ /\ s = seen'[c].by /\ c \in stamped'
                     /\ told'[c] # "changed"
                     /\ pc'[c] = "edge" => c \in cleared'
    BY <1>1 DEF OwnStamp
  <1> USE <1>1 DEF SupInv, TypeOK
  <1>2. CASE WriteEdge(c) \/ WriteEdgeFails(c)
    BY <1>2 DEF WriteEdge, WriteEdgeFails, AfterEdge
  <1>3. CASE Sweep(c) \/ GraphFails(c)
    BY <1>3 DEF Sweep, GraphFails
  <1>4. CASE Reverse(c) \/ ReverseFails(c)
    BY <1>4 DEF Reverse, ReverseFails, Clear
  <1>5. CASE Resweep(c) \/ RecheckFails(c) \/ CutOff(c)
    BY <1>5 DEF Resweep, RecheckFails, CutOff
  <1>6. CASE Recheck(c)
    BY <1>6 DEF Recheck, Phases, Phase
  <1>7. CASE Unsettle(c)
    BY <1>7, SupersessionAssumption DEF Unsettle, UnsettlePair
  <1>8. QED
    BY <1>2, <1>3, <1>4, <1>5, <1>6, <1>7
       DEF Step, Fault, MarkAnswered, RefuteFinds, CorrectionGone, Reread, Begin, Settle,
           Resolve, MarkFails, RereadFails

\* Every step keeps the agreement of the stamps with their writers.
LEMMA NextStamps == SupInv /\ [Next]_vars => OwnStamps'
  <1> SUFFICES ASSUME SupInv, [Next]_vars, NEW s \in Pairs, NEW d \in Calls, stamp'[s] = d
               PROVE  OwnStamp(s, d)'
    BY DEF OwnStamps
  <1> USE SupersessionAssumption
  <1>1. CASE UNCHANGED vars
    <2>1. stamp[s] = d /\ UNCHANGED <<pc, told, seen, stamped, cleared, trouble>>
      BY <1>1 DEF vars, stores, locals, ghosts
    <2>2. QED
      BY <2>1 DEF SupInv, OwnStamps, OwnStamp
  <1>2. ASSUME NEW c \in Calls, Step(c) \/ Fault(c), c # d PROVE OwnStamp(s, d)'
    <2>1. stamp[s] = d /\ (trouble # "none" => trouble' # "none")
      BY <1>2, StampMoves
    <2>2. OwnStamp(s, d)
      BY <2>1 DEF SupInv, OwnStamps
    <2>3. QED
      BY <1>2, <2>1, <2>2, OthersStay DEF OwnStamp
  <1>3. ASSUME Step(d) \/ Fault(d) PROVE OwnStamp(s, d)'
    <2>1. CASE stamp[s] = d
      BY <1>3, <2>1, StampStays
    <2>2. CASE stamp[s] # d
      <3>1. \/ Kind[d] = "resolve" /\ told'[d] = "resolved"
            \/ /\ Kind[d] = "unsupersede" /\ s = seen'[d].by
               /\ \/ pc'[d] = "sweep" /\ d \in stamped' /\ told'[d] = "none"
                  \/ pc'[d] = "done" /\ trouble' # "none"
        BY <1>3, <2>2, StampMoves
      <3>2. QED
        BY <1>3, <3>1 DEF OwnStamp
    <2>3. QED
      BY <2>1, <2>2
  <1>4. ASSUME NEW c \in Calls, LandLate(c) PROVE OwnStamp(s, d)'
    <2>1. UNCHANGED <<stamp, pc, told, seen, stamped, trouble>> /\ cleared \subseteq cleared'
      BY <1>4, LateLeaves
    <2>2. OwnStamp(s, d)
      BY <2>1 DEF SupInv, OwnStamps
    <2>3. QED
      BY <2>1, <2>2 DEF OwnStamp
  <1>9. QED
    BY <1>1, <1>2, <1>3, <1>4 DEF Next

\* Every step keeps the promise of a missing edge: a call that owes it still
\* does, has passed the debt on, or has paid it.
LEMMA NextOwed == SupInv /\ [Next]_vars => EdgeOwed'
  <1> SUFFICES ASSUME SupInv, [Next]_vars, trouble' = "none", ~late',
                      marker'.by \in noded' \ edges'
               PROVE  \E c \in Calls : Owes(c)'
    BY DEF EdgeOwed
  <1> USE SupersessionAssumption, MarkType DEF Goto, Done
  <1>1. CASE UNCHANGED vars
    <2>1. UNCHANGED <<marker, edges, noded, pc, aim, trouble, late>>
      BY <1>1 DEF vars, stores, locals, ghosts
    <2>2. QED
      BY <2>1 DEF SupInv, EdgeOwed, Owes, Claims
  <1>2. ASSUME NEW c \in Calls, Step(c) \/ Fault(c), ~Owes(c)' PROVE \E d \in Calls : Owes(d)'
    <2>1. trouble = "none" /\ pc[c] # "done"
      BY <1>2 DEF SupInv, TypeOK, Step, Fault, stores, locals, ghosts, MarkAnswered, RefuteFinds,
         CorrectionGone, Reread, WriteEdge, Begin, Settle, Sweep, Reverse, Resweep, Recheck,
         Unsettle, Resolve, MarkFails, RereadFails, WriteEdgeFails, GraphFails, ReverseFails,
         RecheckFails, CutOff
    <2>2. /\ marker' = marker /\ noded' = noded /\ marker.by \notin edges /\ ~Owes(c)
          /\ ~late
      <3> USE <1>2 DEF SupInv, TypeOK, stores, locals, ghosts, Claims, Owes
      <3>1. CASE MarkAnswered(c)
        BY <3>1 DEF MarkAnswered, Lands
      <3>2. CASE MarkFails(c) \/ RefuteFinds(c) \/ CorrectionGone(c)
        BY <3>2 DEF MarkFails, RefuteFinds, CorrectionGone
      <3>3. CASE Reread(c)
        BY <3>3 DEF Reread, Phases, Phase
      <3>4. CASE WriteEdge(c)
        BY <3>4 DEF WriteEdge, Link
      <3>5. CASE Begin(c) \/ Settle(c) \/ Sweep(c)
        BY <3>5 DEF Begin, Settle, Sweep
      <3>6. CASE Reverse(c)
        BY <3>6 DEF Reverse, Clear, Lands, Live
      <3>7. CASE Resweep(c) \/ Recheck(c)
        BY <3>7 DEF Resweep, Recheck, Live
      <3>8. CASE Unsettle(c)
        BY <3>8 DEF Unsettle
      <3>9. CASE Resolve(c)
        BY <3>9 DEF Resolve
      <3>10. QED
        BY <3>1, <3>2, <3>3, <3>4, <3>5, <3>6, <3>7, <3>8, <3>9
           DEF Step, Fault, RereadFails, WriteEdgeFails, GraphFails, ReverseFails,
               RecheckFails, CutOff
    <2>3. PICK d \in Calls : Owes(d)
      BY <2>1, <2>2 DEF SupInv, EdgeOwed
    <2>4. Owes(d)'
      BY <1>2, <2>2, <2>3, OthersStay DEF Claims, Owes
    <2>5. QED
      BY <2>4
  <1>3. ASSUME NEW c \in Calls, LandLate(c) PROVE Owes(c)'
    <2>1. marker' # Live
      BY <1>3, LateLeaves DEF Live, SupInv, TypeOK
    <2>2. /\ Kind[c] \in {"supersede", "refute"} /\ marker' = Mark(c)
          /\ pc'[c] \in {"reread", "repair"} /\ pc' = pc /\ aim' = aim
      BY <1>3, <2>1, LateLeaves DEF InDoubt
    <2>3. aim'[c] = Survivor[c] \/ pc'[c] = "reread"
      BY <2>2 DEF SupInv, Phases, Phase
    <2>4. QED
      BY <2>2, <2>3 DEF Owes, Claims
  <1>4. QED
    BY <1>1, <1>2, <1>3 DEF Next

\* Every step keeps it true that the caller of a late write was left in doubt.
LEMMA NextLate == SupInv /\ [Next]_vars => LateIsTold'
  <1> DEFINE Doubts(c) == /\ Kind[c] \in {"supersede", "refute"} /\ Survivor[c] = marker.by
                          /\ InDoubt(c)
  <1> SUFFICES ASSUME SupInv, [Next]_vars, late' PROVE \E c \in Calls : Doubts(c)'
    BY DEF LateIsTold
  <1>1. CASE UNCHANGED vars
    BY <1>1 DEF vars, stores, locals, ghosts, SupInv, LateIsTold, InDoubt
  <1>2. ASSUME NEW c \in Calls, Step(c) \/ Fault(c) PROVE \E d \in Calls : Doubts(d)'
    <2>1. late /\ marker' = marker /\ pc[c] # "done"
      BY <1>2 DEF Step, Fault, stores, ghosts, MarkAnswered, MarkFails, Lands, RefuteFinds,
             CorrectionGone, Reread, RereadFails, WriteEdge, WriteEdgeFails, Link, Begin, Settle,
             Sweep, GraphFails, Reverse, ReverseFails, Clear, Resweep, Recheck, RecheckFails,
             Unsettle, Resolve, CutOff
    <2>2. PICK d \in Calls : Doubts(d)
      BY <2>1 DEF SupInv, LateIsTold
    <2>3. d # c
      BY <2>1, <2>2 DEF InDoubt
    <2>4. QED
      BY <1>2, <2>1, <2>2, <2>3, OthersStay DEF InDoubt
  <1>3. ASSUME NEW c \in Calls, LandLate(c) PROVE Doubts(c)'
    BY <1>3, LateLeaves, MarkType DEF InDoubt
  <1>4. QED
    BY <1>1, <1>2, <1>3 DEF Next

\* Every step keeps it true that the edges of a live memory are belated or
\* still to be swept.
LEMMA NextStale == SupInv /\ [Next]_vars => StaleEdgeIsBelated'
  <1> SUFFICES ASSUME SupInv, [Next]_vars, trouble' = "none", marker' = Live,
                      \A c \in Calls : pc'[c] # "resweep"
               PROVE  edges' \subseteq belated'
    BY DEF StaleEdgeIsBelated
  <1> USE SupersessionAssumption, MarkType DEF Goto, Done
  <1>1. CASE UNCHANGED vars
    BY <1>1 DEF vars, stores, locals, ghosts, SupInv, StaleEdgeIsBelated
  <1>2. ASSUME NEW c \in Calls, Step(c) \/ Fault(c) PROVE edges' \subseteq belated'
    <2> USE DEF SupInv, TypeOK, stores, locals, ghosts
    <2>1. CASE Resweep(c)
      BY <1>2, <2>1 DEF Resweep
    <2>2. CASE ~Resweep(c)
      <3>1. trouble = "none" /\ marker = Live /\ pc[c] # "resweep"
        BY <1>2, <2>2 DEF Step, Fault, MarkAnswered, MarkFails, Lands, RefuteFinds, CorrectionGone,
               Reread, RereadFails, WriteEdge, WriteEdgeFails, Begin, Settle, Sweep, GraphFails,
               Reverse, ReverseFails, Clear, Recheck, RecheckFails, Unsettle, Resolve, CutOff
      <3>2. edges \subseteq belated
        BY <1>2, <3>1, OthersStay DEF StaleEdgeIsBelated
      <3>3. CASE WriteEdge(c)
        <4>1. aim[c] # marker.by
          BY <3>1, <3>3 DEF WriteEdge, Phases, Phase, Live
        <4>2. QED
          BY <3>2, <3>3, <4>1 DEF WriteEdge, Link
      <3>4. CASE ~WriteEdge(c)
        BY <1>2, <2>2, <3>2, <3>4
           DEF Step, Fault, MarkAnswered, MarkFails, RefuteFinds, CorrectionGone,
               Reread, RereadFails, WriteEdgeFails, Begin, Settle, Sweep, GraphFails,
               Reverse, ReverseFails, Recheck, RecheckFails, Unsettle, Resolve, CutOff
      <3>5. QED
        BY <3>3, <3>4
    <2>3. QED
      BY <2>1, <2>2
  <1>3. ASSUME NEW c \in Calls, LandLate(c) PROVE FALSE
    BY <1>3, LateLeaves DEF Superseded, Live
  <1>4. QED
    BY <1>1, <1>2, <1>3 DEF Next

\* Every step keeps the answers true.
LEMMA NextTold == SupInv /\ [Next]_vars => ReversalTold'
  <1> SUFFICES ASSUME SupInv, [Next]_vars, NEW d \in Calls
               PROVE  /\ told'[d] = "unsuperseded" => d \in cleared'
                      /\ told'[d] \in {"not_superseded", "changed", "graph_error"} =>
                           d \notin cleared'
                      /\ told'[d] = "changed" /\ trouble' = "none" =>
                           \A s \in Pairs : stamp'[s] # d
    BY DEF ReversalTold
  <1>0. OwnStamps'
    BY NextStamps
  <1>1. CASE UNCHANGED vars
    BY <1>1 DEF SupInv, ReversalTold, vars, stores, locals, ghosts
  <1>2. told'[d] = "changed" /\ trouble' = "none" => \A s \in Pairs : stamp'[s] # d
    BY <1>0 DEF OwnStamps, OwnStamp
  <1>3. ASSUME NEW c \in Calls, Step(c) \/ Fault(c), c # d
        PROVE  /\ told'[d] = "unsuperseded" => d \in cleared'
               /\ told'[d] \in {"not_superseded", "changed", "graph_error"} => d \notin cleared'
    BY <1>3, OthersStay DEF SupInv, ReversalTold
  <1>4. ASSUME Step(d) \/ Fault(d)
        PROVE  /\ told'[d] = "unsuperseded" => d \in cleared'
               /\ told'[d] \in {"not_superseded", "changed", "graph_error"} => d \notin cleared'
    <2> USE DEF SupInv, TypeOK, Phases, Phase, stores, locals, ghosts, Goto, Done
    <2>1. CASE MarkAnswered(d) \/ MarkFails(d) \/ RefuteFinds(d) \/ CorrectionGone(d)
      BY <2>1 DEF MarkAnswered, MarkFails, RefuteFinds, CorrectionGone
    <2>2. CASE Reread(d) \/ RereadFails(d)
      BY <2>2 DEF Reread, RereadFails
    <2>3. CASE WriteEdge(d) \/ WriteEdgeFails(d)
      BY <2>3 DEF WriteEdge, WriteEdgeFails, AfterEdge
    <2>4. CASE Begin(d) \/ Settle(d) \/ Sweep(d) \/ GraphFails(d)
      BY <2>4 DEF Begin, Settle, Sweep, GraphFails
    <2>5. CASE Reverse(d) \/ ReverseFails(d)
      BY <2>5 DEF Reverse, ReverseFails, Clear
    <2>6. CASE Resweep(d) \/ Recheck(d) \/ RecheckFails(d) \/ Unsettle(d)
      BY <2>6 DEF Resweep, Recheck, RecheckFails, Unsettle
    <2>7. CASE Resolve(d) \/ CutOff(d)
      BY <2>7 DEF Resolve, CutOff
    <2>8. QED
      BY <1>4, <2>1, <2>2, <2>3, <2>4, <2>5, <2>6, <2>7 DEF Step, Fault
  <1>6. ASSUME NEW c \in Calls, LandLate(c)
        PROVE  /\ told'[d] = "unsuperseded" => d \in cleared'
               /\ told'[d] \in {"not_superseded", "changed", "graph_error"} => d \notin cleared'
    <2>1. told' = told /\ (d \in cleared' => d \in cleared \/ (d = c /\ InDoubt(c)))
          /\ cleared \subseteq cleared'
      BY <1>6, LateLeaves
    <2>2. QED
      BY <2>1 DEF SupInv, ReversalTold, InDoubt
  <1>5. QED
    BY <1>1, <1>2, <1>3, <1>4, <1>6 DEF Next

\* A reversal comes to rely on its pair only by settling it.
LEMMA ReliesBefore ==
  ASSUME SupInv, NEW c \in Calls, Step(c) \/ Fault(c), Relies(c)'
  PROVE  Settle(c) \/ (Relies(c) /\ seen'[c] = seen[c])
  <1> USE DEF SupInv, TypeOK, Phases, Phase, Relies, stores, locals, ghosts, Goto, Done
  <1>1. CASE MarkAnswered(c) \/ MarkFails(c) \/ RefuteFinds(c) \/ CorrectionGone(c)
    BY <1>1 DEF MarkAnswered, MarkFails, RefuteFinds, CorrectionGone
  <1>2. CASE Reread(c) \/ RereadFails(c)
    BY <1>2 DEF Reread, RereadFails
  <1>3. CASE WriteEdge(c) \/ WriteEdgeFails(c)
    BY <1>3 DEF WriteEdge, WriteEdgeFails, AfterEdge
  <1>4. CASE Begin(c) \/ Sweep(c) \/ GraphFails(c)
    BY <1>4 DEF Begin, Sweep, GraphFails
  <1>5. CASE Reverse(c) \/ ReverseFails(c)
    BY <1>5 DEF Reverse, ReverseFails, Clear
  <1>6. CASE Resweep(c) \/ Recheck(c) \/ RecheckFails(c)
    BY <1>6 DEF Resweep, Recheck, RecheckFails
  <1>7. CASE Unsettle(c)
    BY <1>7 DEF Unsettle
  <1>8. CASE Resolve(c) \/ CutOff(c)
    BY <1>8 DEF Resolve, CutOff
  <1>9. QED
    BY <1>1, <1>2, <1>3, <1>4, <1>5, <1>6, <1>7, <1>8 DEF Step, Fault

\* What a reversal took back is taken back, as long as nothing fails.
LEMMA TakenStays ==
  ASSUME SupInv, NEW c \in Calls, Step(c) \/ Fault(c), trouble' = "none", NEW d \in Calls, NEW s,
         TakesBack(d, s)
  PROVE  TakesBack(d, s)'
  <1>1. CASE d # c
    BY <1>1, OthersStay DEF TakesBack
  <1>2. CASE d = c
    <2>1. pc[c] # "done" /\ told[c] = "none" /\ pc[c] = "edge"
      <3>1. pc[c] # "done" => told[c] = "none"
        BY DEF SupInv, Phases, Phase
      <3>2. pc[c] # "done"
        BY DEF Step, Fault, MarkAnswered, RefuteFinds, CorrectionGone, Reread, WriteEdge, Begin,
               Settle, Sweep, Reverse, Resweep, Recheck, Unsettle, Resolve, MarkFails, RereadFails,
               WriteEdgeFails, GraphFails, ReverseFails, RecheckFails, CutOff
      <3>3. QED
        BY <1>2, <3>1, <3>2 DEF TakesBack
    <2>2. WriteEdge(c)
      BY <2>1 DEF Step, Fault, MarkAnswered, RefuteFinds, CorrectionGone, Reread, Begin,
               Settle, Sweep, Reverse, Resweep, Recheck, Unsettle, Resolve, MarkFails, RereadFails,
               WriteEdgeFails, GraphFails, ReverseFails, RecheckFails, CutOff
    <2>3. Kind[c] = "unsupersede"
      BY <1>2 DEF TakesBack
    <2>4. told'[c] = "changed"
      BY <1>2, <2>1, <2>2, <2>3 DEF AfterEdge, WriteEdge, Done, TakesBack, SupInv, TypeOK
    <2>5. UNCHANGED <<seen, stamped, cleared>>
      BY <2>2 DEF WriteEdge, ghosts
    <2>6. QED
      BY <1>2, <2>4, <2>5 DEF TakesBack
  <1>3. QED
    BY <1>1, <1>2

\* Every step keeps the pairs settled that a reversal relies on, but for the
\* one that takes back its own stamp.
LEMMA NextOpened == SupInv /\ [Next]_vars => OpenedByOther'
  <1> SUFFICES ASSUME SupInv, [Next]_vars, trouble' = "none", NEW c \in Calls, NEW s \in Pairs,
                      Relies(c)', seen'[c].by = s, stamp'[s] = None
               PROVE  \E d \in Calls \ {c} : TakesBack(d, s)'
    BY DEF OpenedByOther, TakesBack
  <1>1. CASE UNCHANGED vars
    <2>1. UNCHANGED <<stamp, pc, seen, stamped, told, cleared, trouble>>
      BY <1>1 DEF vars, stores, locals, ghosts
    <2>2. trouble = "none" /\ Relies(c) /\ seen[c].by = s /\ stamp[s] = None
      BY <2>1 DEF Relies
    <2>3. PICK d \in Calls \ {c} : TakesBack(d, s)
      BY <2>2 DEF SupInv, OpenedByOther
    <2>4. TakesBack(d, s)'
      BY <2>1, <2>3 DEF TakesBack
    <2>5. QED
      BY <2>4
  <1>2. ASSUME NEW e \in Calls, Step(e) \/ Fault(e)
        PROVE  \E d \in Calls \ {c} : TakesBack(d, s)'
    <2>1. trouble = "none"
      BY <1>2 DEF Step, Fault, ghosts, MarkAnswered, MarkFails, RefuteFinds, CorrectionGone, Reread,
             RereadFails, WriteEdge, WriteEdgeFails, Begin, Settle, Sweep, GraphFails, Reverse,
             ReverseFails, Resweep, Recheck, RecheckFails, Unsettle, Resolve, CutOff, SupInv, TypeOK
    <2>2. \/ stamp[s] = None
          \/ stamp[s] = e /\ pc[e] = "unsettle"
      BY <1>2, StampMoves, SupersessionAssumption DEF SupInv, TypeOK
    <2>3. CASE stamp[s] = None
      <3>1. Relies(c) /\ seen[c] = seen'[c]
        <4>1. CASE e # c
          BY <1>2, <4>1, OthersStay DEF Relies
        <4>2. CASE e = c
          <5>1. CASE Settle(c)
            <6>1. seen' = seen /\ SettlePair(c)
              BY <5>1 DEF Settle
            <6>2. stamp'[s] = c
              BY <2>3, <6>1 DEF SettlePair, SupInv, TypeOK
            <6>3. QED
              BY <6>2, SupersessionAssumption
          <5>2. QED
            BY <1>2, <4>2, <5>1, ReliesBefore
        <4>3. QED
          BY <4>1, <4>2
      <3>2. seen[c].by = s
        BY <3>1
      <3>3. PICK d \in Calls \ {c} : TakesBack(d, s)
        BY <2>1, <2>3, <3>1, <3>2 DEF SupInv, OpenedByOther
      <3>4. d \in Calls /\ d # c
        OBVIOUS
      <3>5. TakesBack(d, s)'
        BY <1>2, <3>3, <3>4, TakenStays
      <3>6. QED
        BY <3>4, <3>5
    <2>4. CASE stamp[s] = e /\ pc[e] = "unsettle"
      <3>1. OwnStamp(s, e)
        BY <2>4 DEF SupInv, OwnStamps
      <3>2. told[e] = "none" /\ e \notin cleared /\ Kind[e] = "unsupersede"
        BY <2>4 DEF SupInv, Phases, Phase
      <3>3. e \in stamped /\ seen[e].by = s
        BY <2>1, <3>1, <3>2 DEF OwnStamp
      <3>4. Unsettle(e)
        BY <1>2, <2>4, <2>1 DEF Step, Fault, MarkAnswered, RefuteFinds, CorrectionGone, Reread,
               WriteEdge, Begin, Settle, Sweep, Reverse, Resweep, Recheck, Resolve, MarkFails,
               RereadFails, WriteEdgeFails, GraphFails, ReverseFails, RecheckFails, CutOff
      <3>5. pc'[e] = "edge" /\ told' = told /\ UNCHANGED <<seen, stamped, cleared>>
        BY <3>4 DEF Unsettle, Goto, SupInv, TypeOK
      <3>6. TakesBack(e, s)'
        BY <3>2, <3>3, <3>5 DEF TakesBack
      <3>7. ~Relies(e)'
        BY <3>2, <3>5 DEF Relies
      <3>8. e # c
        BY <3>7
      <3>9. QED
        BY <3>6, <3>8
    <2>5. QED
      BY <2>2, <2>3, <2>4
  <1>3. ASSUME NEW e \in Calls, LandLate(e)
        PROVE  \E d \in Calls \ {c} : TakesBack(d, s)'
    <2>1. /\ UNCHANGED <<stamp, pc, seen, stamped, told, trouble>>
          /\ cleared' = cleared \/ (cleared' = cleared \cup {e} /\ InDoubt(e))
      BY <1>3, LateLeaves
    <2>2. Relies(c)
      BY <2>1 DEF Relies, InDoubt
    <2>3. PICK d \in Calls \ {c} : TakesBack(d, s)
      BY <2>1, <2>2 DEF SupInv, OpenedByOther
    <2>4. TakesBack(d, s)'
      BY <2>1, <2>3 DEF TakesBack, InDoubt
    <2>5. QED
      BY <2>4
  <1>4. QED
    BY <1>1, <1>2, <1>3 DEF Next

\* The invariant is inductive.
LEMMA NextInv == SupInv /\ [Next]_vars => SupInv'
  BY NextType, NextShape, NextPhases, NextFlights, NextStamps, NextOwed, NextLate, NextStale,
     NextTold, NextOpened DEF SupInv

\* The inductive invariant holds in every reachable state.
THEOREM InvariantHolds == Spec => []SupInv
  <1>1. QED
    BY InitInv, NextInv, PTL DEF Spec

\* Well-typedness, for any calls and survivors.
THEOREM TypeCorrect == Spec => []TypeOK
  <1>1. SupInv => TypeOK
    BY DEF SupInv
  <1>2. QED
    BY <1>1, InvariantHolds, PTL

\* A superseded memory without its edge is owed it by a call in progress (the
\* second sweep and its re-read), as long as no failure was reported, both have
\* a node, and the marker did not land after its call had ended.
THEOREM EdgesAreOwed == Spec => []EdgeOwed
  <1>1. SupInv => EdgeOwed
    BY DEF SupInv
  <1>2. QED
    BY <1>1, InvariantHolds, PTL

\* So, when no call is running, it has its edge.
THEOREM SupersededKeepsEdge == Spec => []SupersededHasEdge
  <1>1. SupInv => SupersededHasEdge
    BY DEF SupInv, EdgeOwed, Owes, SupersededHasEdge, Quiet
  <1>2. QED
    BY <1>1, InvariantHolds, PTL

\* The caller of a marker write that landed too late was left in doubt.
THEOREM LateAreTold == Spec => []LateIsTold
  <1>1. SupInv => LateIsTold
    BY DEF SupInv
  <1>2. QED
    BY <1>1, InvariantHolds, PTL

\* A live memory keeps a SUPERSEDES edge only where a call wrote it after the
\* marker was reversed, or until the second sweep.
THEOREM StaleEdges == Spec => []StaleEdgeIsBelated
  <1>1. SupInv => StaleEdgeIsBelated
    BY DEF SupInv
  <1>2. QED
    BY <1>1, InvariantHolds, PTL

\* memory_unsupersede answers what it did.
THEOREM AnswersAreTrue == Spec => []ReversalTold
  <1>1. SupInv => ReversalTold
    BY DEF SupInv
  <1>2. QED
    BY <1>1, InvariantHolds, PTL

\* memory_unsupersede, step 1, as far as it goes: the pair of a supersession
\* that was reversed, or is being reversed, is settled, unless another reversal
\* stamped it first, found another survivor's marker and took its stamp back
\* (the run SupSettled shows that case).
THEOREM OnlyOthersOpen == Spec => []OpenedByOther
  <1>1. SupInv => OpenedByOther
    BY DEF SupInv
  <1>2. QED
    BY <1>1, InvariantHolds, PTL

\* A resolution is replaced only by an operator's and removed only by the call
\* that wrote it.
THEOREM StampsAreKept == Spec => StampsKept
  <1>1. ASSUME SupInv, [Next]_vars, NEW s \in Pairs, stamp[s] # None, stamp'[s] # stamp[s]
        PROVE  IF stamp'[s] = None
                 THEN Kind[stamp[s]] = "unsupersede" /\ told[stamp[s]] = "none"
                 ELSE Kind[stamp'[s]] = "resolve"
    <2>1. ~UNCHANGED vars
      BY <1>1 DEF vars, stores
    <2>2. PICK c \in Calls : Step(c) \/ Fault(c)
      BY <1>1, <2>1, LateLeaves DEF Next
    <2>3. \/ stamp[s] = c /\ stamp'[s] = None /\ pc[c] = "unsettle"
          \/ stamp'[s] = c /\ Kind[c] = "resolve"
      BY <1>1, <2>2, StampMoves
    <2>4. QED
      BY <1>1, <2>3, SupersessionAssumption DEF SupInv, Phases, Phase
  <1>2. SupInv /\ [Next]_vars =>
          [\A s \in Pairs : stamp[s] # None /\ stamp'[s] # stamp[s] =>
             IF stamp'[s] = None
               THEN Kind[stamp[s]] = "unsupersede" /\ told[stamp[s]] = "none"
               ELSE Kind[stamp'[s]] = "resolve"]_vars
    BY <1>1
  <1>3. QED
    BY <1>2, InvariantHolds, PTL DEF Spec, StampsKept

\* Every write of the marker that lands, however late, does what its call
\* decided on from the marker it read.
THEOREM WritesAreAsRead == Spec => WritesAsRead
  <1> DEFINE AsRead(c) ==
        \/ marker' = Mark(c) /\ Kind[c] = "supersede"
        \/ marker' = Mark(c) /\ Kind[c] = "refute" /\ marker = Live
        \/ marker' = Live /\ c \in cleared' \ cleared /\ seen[c].by = marker.by
  <1>1. ASSUME SupInv, [Next]_vars, marker' # marker PROVE \E c \in Calls : AsRead(c)
    <2>1. ASSUME NEW c \in Calls, Step(c) \/ Fault(c) PROVE AsRead(c)
      <3>1. (MarkAnswered(c) /\ Lands(Mark(c))) \/ (Reverse(c) /\ Clear(c))
        BY <1>1, <2>1
           DEF Step, Fault, stores, MarkAnswered, MarkFails, RefuteFinds, CorrectionGone,
               Reread, RereadFails, WriteEdge, WriteEdgeFails, Begin, Settle, Sweep, GraphFails,
               Reverse, ReverseFails, Resweep, Recheck, RecheckFails, Unsettle, Resolve, CutOff
      <3>2. CASE MarkAnswered(c) /\ Lands(Mark(c))
        BY <3>2 DEF MarkAnswered, Landable, Lands
      <3>3. CASE Reverse(c) /\ Clear(c)
        <4>1. c \notin cleared /\ Kind[c] = "unsupersede" /\ pc[c] = "reverse"
          BY <1>1, <3>3 DEF Reverse, SupInv, Phases, Phase
        <4>2. marker.by = seen[c].by
          BY <1>1, <3>3 DEF Reverse, Clear, Lands
        <4>3. QED
          BY <3>3, <4>1, <4>2 DEF Clear, Lands
      <3>4. QED
        BY <3>1, <3>2, <3>3
    <2>2. ASSUME NEW c \in Calls, LandLate(c) PROVE AsRead(c)
      BY <1>1, <2>2, LateLeaves
    <2>3. QED
      BY <1>1, <2>1, <2>2 DEF Next, vars, stores
  <1>2. SupInv /\ [Next]_vars => [marker' # marker => \E c \in Calls : AsRead(c)]_vars
    BY <1>1
  <1>3. QED
    BY <1>2, InvariantHolds, PTL DEF Spec, WritesAsRead

=============================================================================
