---------------------------- MODULE RefuteProofs ----------------------------
(***************************************************************************)
(* Theorems about Refute, for any requests and workloads: RefuteInv is     *)
(* inductive.                                                              *)
(***************************************************************************)
EXTENDS Refute, TLAPS

\* What the workload says of a request.
LEMMA Requests ==
  ASSUME req \in Workloads, NEW c \in Calls
  PROVE  Kind(c) \in Kinds /\ Target(c) \in Memories /\ Reason(c) # None /\ Reason(c) \in Reasons
  BY RefuteAssumption DEF Kind, Target, Reason, Reasons

\* No step changes the workload.
LEMMA SameWorkload ==
  ASSUME UNCHANGED req
  PROVE  /\ Reasons' = Reasons /\ Refutes' = Refutes
         /\ Points' = Points /\ Links' = Links
  BY DEF Reasons, Refutes, Kind, Reason, Points, Links

\* The constants apart.
LEMMA Apart ==
  /\ Wrong # Correction /\ Wrong \in Memories /\ Correction \in Memories
  /\ None # Correction /\ None # Other /\ Other # Correction /\ None \notin Calls
  /\ None \in Reasons /\ MaxFaults \in Nat
  BY RefuteAssumption DEF Memories, Reasons

\* What the graph writes leave are links, and nodes of the two memories.
LEMMA LinkShapes ==
  ASSUME StoreTypes, NEW c \in Calls, Reason(c) \in Reasons, Reason(c) # None
  PROVE  /\ Linked(link, Reason(c)) \in Links
         /\ Linked(link, Reason(c)).there /\ Linked(link, Reason(c)).reason \in Reasons
         /\ Merged(link) \in Links /\ (Merged(link).reason # None => Merged(link).there)
         /\ NoLink \in Links /\ NoLink.reason = None
  BY Apart DEF StoreTypes, Linked, Merged, NoLink, Links

LEMMA StoredType == ASSUME req \in Workloads, NEW c \in Calls PROVE Stored(c) \in Memories
  BY Requests, Apart DEF Stored

\* The invariant holds at the start.
LEMMA InitInv == Init => RefuteInv
  <1> SUFFICES ASSUME Init PROVE RefuteInv
    OBVIOUS
  <1>1. TypeOK
    BY Apart DEF Init, TypeOK, StoreTypes, CallTypes, Points, Links, Fresh, Gone, NoLink,
                   Memories, Answers, Places
  <1>2. RefutePhases
    BY DEF Init, RefutePhases, RefutePhase, KindPhase, LinkPhase, MarkPhase
  <1>3. AnswersStand /\ RefusalsWriteNothing
    BY DEF Init, AnswersStand, RefusalsWriteNothing, Refutes
  <1>4. StrayHasCause
    BY Apart, RefuteAssumption DEF Init, StrayHasCause, Stray, There, Gone, Fresh, Calm
  <1>5. QED
    BY <1>1, <1>2, <1>3, <1>4 DEF RefuteInv


\* Going on and answering keep the types of pc and told.
LEMMA Moves ==
  ASSUME CallTypes, NEW c \in Calls,
         \/ \E l \in Places : Goto(c, l)
         \/ \E a \in Answers : Done(c, a)
  PROVE  pc' \in [Calls -> Places] /\ told' \in [Calls -> Answers]
  BY DEF CallTypes, Goto, Done, Places

\* Every step keeps the types of the calls.
LEMMA NextCalls == RefuteInv /\ [Next]_vars => CallTypes'
  <1> SUFFICES ASSUME RefuteInv, [Next]_vars PROVE CallTypes'
    OBVIOUS
  <1> USE Apart, Requests, SameWorkload DEF RefuteInv, TypeOK
  <1>1. CASE UNCHANGED vars
    BY <1>1 DEF CallTypes, vars, stores, calls, ghosts
  <1>2. ASSUME NEW c \in Calls, ReadBoth(c), UNCHANGED req PROVE CallTypes'
    <2>1. (\E l \in Places : Goto(c, l)) \/ (\E a \in Answers : Done(c, a))
      BY <1>2 DEF ReadBoth, UseExisting, WrongRefusal, Places, Answers
    <2>2. QED
      BY <1>2, <2>1, Moves DEF ReadBoth, UseExisting, WrongRefusal, CallTypes, ghosts
  <1>3. ASSUME NEW c \in Calls, Insert(c), UNCHANGED req PROVE CallTypes'
    <2>1. (\E l \in Places : Goto(c, l)) \/ (\E a \in Answers : Done(c, a))
      BY <1>3 DEF Insert, Fresh, Gone, Places, Answers
    <2>2. QED
      BY <1>3, <2>1, Moves DEF Insert, Fresh, Gone, CallTypes, ghosts
  <1>4. ASSUME NEW c \in Calls, Confirm(c), UNCHANGED req PROVE CallTypes'
    <2>1. (\E l \in Places : Goto(c, l)) \/ (\E a \in Answers : Done(c, a))
      BY <1>4 DEF Confirm, Places, Answers
    <2>2. QED
      BY <1>4, <2>1, Moves DEF Confirm, CallTypes, ghosts
  <1>5. ASSUME NEW c \in Calls, Reread(c), UNCHANGED req PROVE CallTypes'
    <2>1. (\E l \in Places : Goto(c, l)) \/ (\E a \in Answers : Done(c, a))
      BY <1>5 DEF Reread, UseExisting, Places, Answers
    <2>2. QED
      BY <1>5, <2>1, Moves DEF Reread, UseExisting, CallTypes, ghosts
  <1>6. ASSUME NEW c \in Calls, Store(c), UNCHANGED req PROVE CallTypes'
    <2>1. (\E l \in Places : Goto(c, l)) \/ (\E a \in Answers : Done(c, a))
      BY <1>6 DEF Store, Places, Answers
    <2>2. QED
      BY <1>6, <2>1, Moves DEF Store, CallTypes, ghosts
  <1>7. ASSUME NEW c \in Calls, StoreNode(c), UNCHANGED req PROVE CallTypes'
    <2>1. (\E l \in Places : Goto(c, l)) \/ (\E a \in Answers : Done(c, a))
      BY <1>7 DEF StoreNode, Stored, Places, Answers
    <2>2. QED
      BY <1>7, <2>1, Moves DEF StoreNode, Stored, CallTypes, ghosts
  <1>8. ASSUME NEW c \in Calls, Detect(c), UNCHANGED req PROVE CallTypes'
    <2>1. (\E l \in Places : Goto(c, l)) \/ (\E a \in Answers : Done(c, a))
      BY <1>8 DEF Detect, Stored, Merged, Places, Answers
    <2>2. QED
      BY <1>8, <2>1, Moves DEF Detect, Stored, Merged, CallTypes, ghosts
  <1>9. ASSUME NEW c \in Calls, Check(c), UNCHANGED req PROVE CallTypes'
    <2>1. (\E l \in Places : Goto(c, l)) \/ (\E a \in Answers : Done(c, a))
      BY <1>9 DEF Check, Places, Answers
    <2>2. QED
      BY <1>9, <2>1, Moves DEF Check, CallTypes, ghosts
  <1>10. ASSUME NEW c \in Calls, CheckWrong(c), UNCHANGED req PROVE CallTypes'
    <2>1. (\E l \in Places : Goto(c, l)) \/ (\E a \in Answers : Done(c, a))
      BY <1>10 DEF CheckWrong, Places, Answers
    <2>2. QED
      BY <1>10, <2>1, Moves DEF CheckWrong, CallTypes, ghosts
  <1>11. ASSUME NEW c \in Calls, EnsureWrong(c), UNCHANGED req PROVE CallTypes'
    <2>1. (\E l \in Places : Goto(c, l)) \/ (\E a \in Answers : Done(c, a))
      BY <1>11 DEF EnsureWrong, Places, Answers
    <2>2. QED
      BY <1>11, <2>1, Moves DEF EnsureWrong, CallTypes, ghosts
  <1>12. ASSUME NEW c \in Calls, EnsureCorrection(c), UNCHANGED req PROVE CallTypes'
    <2>1. (\E l \in Places : Goto(c, l)) \/ (\E a \in Answers : Done(c, a))
      BY <1>12 DEF EnsureCorrection, Places, Answers
    <2>2. QED
      BY <1>12, <2>1, Moves DEF EnsureCorrection, CallTypes, ghosts
  <1>13. ASSUME NEW c \in Calls, Link(c), UNCHANGED req PROVE CallTypes'
    <2>1. (\E l \in Places : Goto(c, l)) \/ (\E a \in Answers : Done(c, a))
      BY <1>13 DEF Link, Places, Answers
    <2>2. got' \in [Calls -> Reasons] /\ wrote' \subseteq Calls
      BY <1>13, LinkShapes DEF Link, PutLink, CallTypes
    <2>3. QED
      BY <1>13, <2>1, <2>2, Moves DEF Link, CallTypes
  <1>14. ASSUME NEW c \in Calls, Recheck(c), UNCHANGED req PROVE CallTypes'
    <2>1. (\E l \in Places : Goto(c, l)) \/ (\E a \in Answers : Done(c, a))
      BY <1>14 DEF Recheck, LinkAnswer, Places, Answers
    <2>2. QED
      BY <1>14, <2>1, Moves DEF Recheck, LinkAnswer, CallTypes, ghosts
  <1>15. ASSUME NEW c \in Calls, Mark(c), UNCHANGED req PROVE CallTypes'
    <2>1. (\E l \in Places : Goto(c, l)) \/ (\E a \in Answers : Done(c, a))
      BY <1>15 DEF Mark, PutMarker, MarkerAnswer, Places, Answers
    <2>2. QED
      BY <1>15, <2>1, Moves DEF Mark, PutMarker, MarkerAnswer, CallTypes, ghosts
  <1>16. ASSUME NEW c \in Calls, Remark(c), UNCHANGED req PROVE CallTypes'
    <2>1. (\E l \in Places : Goto(c, l)) \/ (\E a \in Answers : Done(c, a))
      BY <1>16 DEF Remark, MarkerAnswer, Places, Answers
    <2>2. QED
      BY <1>16, <2>1, Moves DEF Remark, MarkerAnswer, CallTypes, ghosts
  <1>17. ASSUME NEW c \in Calls, DropNode(c), UNCHANGED req PROVE CallTypes'
    <2>1. (\E l \in Places : Goto(c, l)) \/ (\E a \in Answers : Done(c, a))
      BY <1>17 DEF DropNode, Take, Places, Answers
    <2>2. QED
      BY <1>17, <2>1, Moves DEF DropNode, Take, CallTypes, ghosts
  <1>18. ASSUME NEW c \in Calls, Unlink(c), UNCHANGED req PROVE CallTypes'
    <2>1. (\E l \in Places : Goto(c, l)) \/ (\E a \in Answers : Done(c, a))
      BY <1>18 DEF Unlink, Take, Places, Answers
    <2>2. QED
      BY <1>18, <2>1, Moves DEF Unlink, Take, CallTypes, ghosts
  <1>19. ASSUME NEW c \in Calls, DropPoint(c), UNCHANGED req PROVE CallTypes'
    <2>1. (\E l \in Places : Goto(c, l)) \/ (\E a \in Answers : Done(c, a))
      BY <1>19 DEF DropPoint, Gone, Places, Answers
    <2>2. QED
      BY <1>19, <2>1, Moves DEF DropPoint, Gone, CallTypes, ghosts
  <1>20. ASSUME NEW c \in Calls, Supersede(c), UNCHANGED req PROVE CallTypes'
    <2>1. (\E l \in Places : Goto(c, l)) \/ (\E a \in Answers : Done(c, a))
      BY <1>20 DEF Supersede, Places, Answers
    <2>2. QED
      BY <1>20, <2>1, Moves DEF Supersede, CallTypes, ghosts
  <1>21. ASSUME NEW c \in Calls, Guard(c), UNCHANGED req PROVE CallTypes'
    <2>1. (\E l \in Places : Goto(c, l)) \/ (\E a \in Answers : Done(c, a))
      BY <1>21 DEF Guard, Places, Answers
    <2>2. QED
      BY <1>21, <2>1, Moves DEF Guard, CallTypes, ghosts
  <1>22. ASSUME NEW c \in Calls, ReadFails(c), UNCHANGED req PROVE CallTypes'
    <2>1. (\E l \in Places : Goto(c, l)) \/ (\E a \in Answers : Done(c, a))
      BY <1>22 DEF ReadFails, LinkAnswer, Trouble, Places, Answers
    <2>2. QED
      BY <1>22, <2>1, Moves DEF ReadFails, LinkAnswer, Trouble, CallTypes, ghosts
  <1>23. ASSUME NEW c \in Calls, InsertFails(c), UNCHANGED req PROVE CallTypes'
    <2>1. (\E l \in Places : Goto(c, l)) \/ (\E a \in Answers : Done(c, a))
      BY <1>23 DEF InsertFails, Fresh, Gone, Trouble, Places, Answers
    <2>2. QED
      BY <1>23, <2>1, Moves DEF InsertFails, Fresh, Gone, Trouble, CallTypes, ghosts
  <1>24. ASSUME NEW c \in Calls, NodeFails(c), UNCHANGED req PROVE CallTypes'
    <2>1. (\E l \in Places : Goto(c, l)) \/ (\E a \in Answers : Done(c, a))
      BY <1>24 DEF NodeFails, Stored, Trouble, Places, Answers
    <2>2. QED
      BY <1>24, <2>1, Moves DEF NodeFails, Stored, Trouble, CallTypes, ghosts
  <1>25. ASSUME NEW c \in Calls, LinkFails(c), UNCHANGED req PROVE CallTypes'
    <2>1. (\E l \in Places : Goto(c, l)) \/ (\E a \in Answers : Done(c, a))
      BY <1>25 DEF LinkFails, PutLink, Linked, Trouble, Places, Answers
    <2>2. QED
      BY <1>25, <2>1, Moves DEF LinkFails, PutLink, Linked, Trouble, CallTypes, ghosts
  <1>26. ASSUME NEW c \in Calls, MarkFails(c), UNCHANGED req PROVE CallTypes'
    <2>1. (\E l \in Places : Goto(c, l)) \/ (\E a \in Answers : Done(c, a))
      BY <1>26 DEF MarkFails, PutMarker, Trouble, Places, Answers
    <2>2. QED
      BY <1>26, <2>1, Moves DEF MarkFails, PutMarker, Trouble, CallTypes, ghosts
  <1>27. ASSUME NEW c \in Calls, CutOff(c), UNCHANGED req PROVE CallTypes'
    <2>1. (\E l \in Places : Goto(c, l)) \/ (\E a \in Answers : Done(c, a))
      BY <1>27 DEF CutOff, Trouble, Places, Answers
    <2>2. QED
      BY <1>27, <2>1, Moves DEF CutOff, Trouble, CallTypes, ghosts
  <1>28. ASSUME NEW c \in Calls, Retry(c), UNCHANGED req PROVE CallTypes'
    BY <1>28 DEF Retry, CallTypes, Places, Answers
  <1>29. QED
    BY <1>1, <1>2, <1>3, <1>4, <1>5, <1>6, <1>7, <1>8, <1>9, <1>10, <1>11, <1>12, <1>13, <1>14,
           <1>15, <1>16, <1>17, <1>18, <1>19, <1>20, <1>21, <1>22, <1>23, <1>24, <1>25, <1>26,
           <1>27, <1>28 DEF Next, Along, Step, Request, Fault

\* Every step keeps the types of the stores.
LEMMA NextStores == RefuteInv /\ [Next]_vars => StoreTypes'
  <1> SUFFICES ASSUME RefuteInv, [Next]_vars PROVE StoreTypes'
    OBVIOUS
  <1> USE Apart, Requests, SameWorkload DEF RefuteInv, TypeOK
  <1>1. CASE UNCHANGED vars
    BY <1>1 DEF StoreTypes, Points, Links, vars, stores, calls, ghosts
  <1>2. ASSUME NEW c \in Calls, ReadBoth(c), UNCHANGED req PROVE StoreTypes'
    BY <1>2 DEF ReadBoth, UseExisting, WrongRefusal, Goto, Done, StoreTypes, Points, Links, stores,
           ghosts
  <1>3. ASSUME NEW c \in Calls, Insert(c), UNCHANGED req PROVE StoreTypes'
    BY <1>3 DEF Insert, Goto, Fresh, Gone, StoreTypes, Points, Links, stores, ghosts
  <1>4. ASSUME NEW c \in Calls, Confirm(c), UNCHANGED req PROVE StoreTypes'
    BY <1>4 DEF Confirm, Goto, Done, StoreTypes, Points, Links, stores, ghosts
  <1>5. ASSUME NEW c \in Calls, Reread(c), UNCHANGED req PROVE StoreTypes'
    BY <1>5 DEF Reread, UseExisting, Goto, Done, StoreTypes, Points, Links, stores, ghosts
  <1>6. ASSUME NEW c \in Calls, Store(c), UNCHANGED req PROVE StoreTypes'
    BY <1>6 DEF Store, Goto, StoreTypes, Points, Links, stores, ghosts
  <1>7. ASSUME NEW c \in Calls, StoreNode(c), UNCHANGED req PROVE StoreTypes'
    BY <1>7, StoredType DEF StoreNode, StoreTypes, CallTypes
  <1>8. ASSUME NEW c \in Calls, Detect(c), UNCHANGED req PROVE StoreTypes'
    BY <1>8 DEF Detect, Stored, Merged, Goto, Done, StoreTypes, Points, Links, stores, ghosts
  <1>9. ASSUME NEW c \in Calls, Check(c), UNCHANGED req PROVE StoreTypes'
    BY <1>9 DEF Check, Goto, Done, StoreTypes, Points, Links, stores, ghosts
  <1>10. ASSUME NEW c \in Calls, CheckWrong(c), UNCHANGED req PROVE StoreTypes'
    BY <1>10 DEF CheckWrong, Goto, Done, StoreTypes, Points, Links, stores, ghosts
  <1>11. ASSUME NEW c \in Calls, EnsureWrong(c), UNCHANGED req PROVE StoreTypes'
    BY <1>11 DEF EnsureWrong, Goto, StoreTypes, Points, Links, stores, ghosts
  <1>12. ASSUME NEW c \in Calls, EnsureCorrection(c), UNCHANGED req PROVE StoreTypes'
    BY <1>12 DEF EnsureCorrection, Goto, StoreTypes, Points, Links, stores, ghosts
  <1>13. ASSUME NEW c \in Calls, Link(c), UNCHANGED req PROVE StoreTypes'
    BY <1>13, LinkShapes DEF Link, PutLink, StoreTypes, CallTypes
  <1>14. ASSUME NEW c \in Calls, Recheck(c), UNCHANGED req PROVE StoreTypes'
    BY <1>14 DEF Recheck, LinkAnswer, Done, StoreTypes, Points, Links, stores, ghosts
  <1>15. ASSUME NEW c \in Calls, Mark(c), UNCHANGED req PROVE StoreTypes'
    BY <1>15 DEF Mark, PutMarker, MarkerAnswer, Done, StoreTypes, Points, Links, stores, ghosts
  <1>16. ASSUME NEW c \in Calls, Remark(c), UNCHANGED req PROVE StoreTypes'
    BY <1>16 DEF Remark, MarkerAnswer, Done, StoreTypes, Points, Links, stores, ghosts
  <1>17. ASSUME NEW c \in Calls, DropNode(c), UNCHANGED req PROVE StoreTypes'
    BY <1>17, LinkShapes DEF DropNode, Take, StoreTypes, CallTypes
  <1>18. ASSUME NEW c \in Calls, Unlink(c), UNCHANGED req PROVE StoreTypes'
    BY <1>18, LinkShapes DEF Unlink, Take, stores, StoreTypes, CallTypes
  <1>19. ASSUME NEW c \in Calls, DropPoint(c), UNCHANGED req PROVE StoreTypes'
    BY <1>19 DEF DropPoint, Goto, Gone, StoreTypes, Points, Links, stores, ghosts
  <1>20. ASSUME NEW c \in Calls, Supersede(c), UNCHANGED req PROVE StoreTypes'
    BY <1>20 DEF Supersede, Done, StoreTypes, Points, Links, stores, ghosts
  <1>21. ASSUME NEW c \in Calls, Guard(c), UNCHANGED req PROVE StoreTypes'
    BY <1>21 DEF Guard, Goto, Done, StoreTypes, Points, Links, stores, ghosts
  <1>22. ASSUME NEW c \in Calls, ReadFails(c), UNCHANGED req PROVE StoreTypes'
    BY <1>22 DEF ReadFails, LinkAnswer, Goto, Done, Trouble, StoreTypes, Points, Links, stores,
           ghosts
  <1>23. ASSUME NEW c \in Calls, InsertFails(c), UNCHANGED req PROVE StoreTypes'
    BY <1>23 DEF InsertFails, Fresh, Gone, Done, Trouble, StoreTypes, Points, Links, stores, ghosts
  <1>24. ASSUME NEW c \in Calls, NodeFails(c), UNCHANGED req PROVE StoreTypes'
    BY <1>24, StoredType DEF NodeFails, StoreTypes, CallTypes
  <1>25. ASSUME NEW c \in Calls, LinkFails(c), UNCHANGED req PROVE StoreTypes'
    BY <1>25, LinkShapes DEF LinkFails, PutLink, StoreTypes, CallTypes
  <1>26. ASSUME NEW c \in Calls, MarkFails(c), UNCHANGED req PROVE StoreTypes'
    BY <1>26 DEF MarkFails, PutMarker, Goto, Trouble, StoreTypes, Points, Links, stores, ghosts
  <1>27. ASSUME NEW c \in Calls, CutOff(c), UNCHANGED req PROVE StoreTypes'
    BY <1>27 DEF CutOff, Done, Trouble, StoreTypes, Points, Links, stores, ghosts
  <1>28. ASSUME NEW c \in Calls, Retry(c), UNCHANGED req PROVE StoreTypes'
    BY <1>28 DEF Retry, Unfinished, StoreTypes, Points, Links, stores, ghosts
  <1>29. QED
    BY <1>1, <1>2, <1>3, <1>4, <1>5, <1>6, <1>7, <1>8, <1>9, <1>10, <1>11, <1>12, <1>13, <1>14,
           <1>15, <1>16, <1>17, <1>18, <1>19, <1>20, <1>21, <1>22, <1>23, <1>24, <1>25, <1>26,
           <1>27, <1>28 DEF Next, Along, Step, Request, Fault

\* Every step keeps a request in a phase of its kind.
LEMMA NextKindPhase ==
  ASSUME RefuteInv, [Next]_vars, NEW d \in Calls PROVE KindPhase(d)'
  <1> USE Apart, Requests, SameWorkload DEF RefuteInv, TypeOK, CallTypes, RefutePhases, RefutePhase
  <1>1. CASE UNCHANGED vars
    BY <1>1 DEF KindPhase, Refutes, RefuteKinds, Kind, vars, stores, calls, ghosts
  <1>2. ASSUME NEW c \in Calls, ReadBoth(c), UNCHANGED req PROVE KindPhase(d)'
    BY <1>2 DEF ReadBoth, UseExisting, WrongRefusal, Goto, Done, KindPhase, Refutes, RefuteKinds,
           Kind, stores, ghosts
  <1>3. ASSUME NEW c \in Calls, Insert(c), UNCHANGED req PROVE KindPhase(d)'
    BY <1>3 DEF Insert, Goto, Fresh, Gone, KindPhase, Refutes, RefuteKinds, Kind, stores, ghosts
  <1>4. ASSUME NEW c \in Calls, Confirm(c), UNCHANGED req PROVE KindPhase(d)'
    BY <1>4 DEF Confirm, Goto, Done, KindPhase, Refutes, RefuteKinds, Kind, stores, ghosts
  <1>5. ASSUME NEW c \in Calls, Reread(c), UNCHANGED req PROVE KindPhase(d)'
    BY <1>5 DEF Reread, UseExisting, Goto, Done, KindPhase, Refutes, RefuteKinds, Kind, stores,
           ghosts
  <1>6. ASSUME NEW c \in Calls, Store(c), UNCHANGED req PROVE KindPhase(d)'
    BY <1>6 DEF Store, Goto, KindPhase, Refutes, RefuteKinds, Kind, stores, ghosts
  <1>7. ASSUME NEW c \in Calls, StoreNode(c), UNCHANGED req PROVE KindPhase(d)'
    BY <1>7 DEF StoreNode, Stored, Goto, KindPhase, Refutes, RefuteKinds, Kind, stores, ghosts
  <1>8. ASSUME NEW c \in Calls, Detect(c), UNCHANGED req PROVE KindPhase(d)'
    BY <1>8 DEF Detect, Stored, Merged, Goto, Done, KindPhase, Refutes, RefuteKinds, Kind, stores,
           ghosts
  <1>9. ASSUME NEW c \in Calls, Check(c), UNCHANGED req PROVE KindPhase(d)'
    BY <1>9 DEF Check, Goto, Done, KindPhase, Refutes, RefuteKinds, Kind, stores, ghosts
  <1>10. ASSUME NEW c \in Calls, CheckWrong(c), UNCHANGED req PROVE KindPhase(d)'
    BY <1>10 DEF CheckWrong, Goto, Done, KindPhase, Refutes, RefuteKinds, Kind, stores, ghosts
  <1>11. ASSUME NEW c \in Calls, EnsureWrong(c), UNCHANGED req PROVE KindPhase(d)'
    BY <1>11 DEF EnsureWrong, Goto, KindPhase, Refutes, RefuteKinds, Kind, stores, ghosts
  <1>12. ASSUME NEW c \in Calls, EnsureCorrection(c), UNCHANGED req PROVE KindPhase(d)'
    BY <1>12 DEF EnsureCorrection, Goto, KindPhase, Refutes, RefuteKinds, Kind, stores, ghosts
  <1>13. ASSUME NEW c \in Calls, Link(c), UNCHANGED req PROVE KindPhase(d)'
    BY <1>13 DEF Link, PutLink, Linked, Goto, Done, KindPhase, Refutes, RefuteKinds, Kind, stores,
           ghosts
  <1>14. ASSUME NEW c \in Calls, Recheck(c), UNCHANGED req PROVE KindPhase(d)'
    BY <1>14 DEF Recheck, LinkAnswer, Done, KindPhase, Refutes, RefuteKinds, Kind, stores, ghosts
  <1>15. ASSUME NEW c \in Calls, Mark(c), UNCHANGED req PROVE KindPhase(d)'
    BY <1>15 DEF Mark, PutMarker, MarkerAnswer, Done, KindPhase, Refutes, RefuteKinds, Kind,
           stores, ghosts
  <1>16. ASSUME NEW c \in Calls, Remark(c), UNCHANGED req PROVE KindPhase(d)'
    BY <1>16 DEF Remark, MarkerAnswer, Done, KindPhase, Refutes, RefuteKinds, Kind, stores, ghosts
  <1>17. ASSUME NEW c \in Calls, DropNode(c), UNCHANGED req PROVE KindPhase(d)'
    BY <1>17 DEF DropNode, Take, Done, KindPhase, Refutes, RefuteKinds, Kind, stores, ghosts
  <1>18. ASSUME NEW c \in Calls, Unlink(c), UNCHANGED req PROVE KindPhase(d)'
    BY <1>18 DEF Unlink, Take, Done, KindPhase, Refutes, RefuteKinds, Kind, stores, ghosts
  <1>19. ASSUME NEW c \in Calls, DropPoint(c), UNCHANGED req PROVE KindPhase(d)'
    BY <1>19 DEF DropPoint, Goto, Gone, KindPhase, Refutes, RefuteKinds, Kind, stores, ghosts
  <1>20. ASSUME NEW c \in Calls, Supersede(c), UNCHANGED req PROVE KindPhase(d)'
    BY <1>20 DEF Supersede, Done, KindPhase, Refutes, RefuteKinds, Kind, stores, ghosts
  <1>21. ASSUME NEW c \in Calls, Guard(c), UNCHANGED req PROVE KindPhase(d)'
    BY <1>21 DEF Guard, Goto, Done, KindPhase, Refutes, RefuteKinds, Kind, stores, ghosts
  <1>22. ASSUME NEW c \in Calls, ReadFails(c), UNCHANGED req PROVE KindPhase(d)'
    BY <1>22 DEF ReadFails, LinkAnswer, Goto, Done, Trouble, KindPhase, Refutes, RefuteKinds, Kind,
           stores, ghosts
  <1>23. ASSUME NEW c \in Calls, InsertFails(c), UNCHANGED req PROVE KindPhase(d)'
    BY <1>23 DEF InsertFails, Fresh, Gone, Done, Trouble, KindPhase, Refutes, RefuteKinds, Kind,
           stores, ghosts
  <1>24. ASSUME NEW c \in Calls, NodeFails(c), UNCHANGED req PROVE KindPhase(d)'
    BY <1>24 DEF NodeFails, Stored, Goto, Trouble, KindPhase, Refutes, RefuteKinds, Kind, stores,
           ghosts
  <1>25. ASSUME NEW c \in Calls, LinkFails(c), UNCHANGED req PROVE KindPhase(d)'
    BY <1>25 DEF LinkFails, PutLink, Linked, Done, Trouble, KindPhase, Refutes, RefuteKinds, Kind,
           stores, ghosts
  <1>26. ASSUME NEW c \in Calls, MarkFails(c), UNCHANGED req PROVE KindPhase(d)'
    BY <1>26 DEF MarkFails, PutMarker, Goto, Trouble, KindPhase, Refutes, RefuteKinds, Kind,
           stores, ghosts
  <1>27. ASSUME NEW c \in Calls, CutOff(c), UNCHANGED req PROVE KindPhase(d)'
    BY <1>27 DEF CutOff, Done, Trouble, KindPhase, Refutes, RefuteKinds, Kind, stores, ghosts
  <1>28. ASSUME NEW c \in Calls, Retry(c), UNCHANGED req PROVE KindPhase(d)'
    BY <1>28 DEF Retry, Unfinished, KindPhase, Refutes, RefuteKinds, Kind, stores, ghosts
  <1>29. QED
    BY <1>1, <1>2, <1>3, <1>4, <1>5, <1>6, <1>7, <1>8, <1>9, <1>10, <1>11, <1>12, <1>13, <1>14,
           <1>15, <1>16, <1>17, <1>18, <1>19, <1>20, <1>21, <1>22, <1>23, <1>24, <1>25, <1>26,
           <1>27, <1>28 DEF Next, Along, Step, Request, Fault


\* What the graph writes do to a link.
LEMMA LinkWrites ==
  ASSUME link \in Links, NEW w
  PROVE  /\ Linked(link, w).there
         /\ Linked(link, w).reason = IF link.reason = None THEN w ELSE link.reason
         /\ Merged(link).reason = link.reason /\ (link.there => Merged(link).there)
  BY DEF Links, Linked, Merged

\* Every step keeps what a refute knows of its link.
LEMMA NextLinkPhase ==
  ASSUME RefuteInv, [Next]_vars, NEW d \in Calls PROVE LinkPhase(d)'
  <1> USE Apart, Requests, SameWorkload DEF RefuteInv, TypeOK, CallTypes, RefutePhases, RefutePhase
  <1>1. CASE UNCHANGED vars
    BY <1>1 DEF KindPhase, LinkPhase, Reason, vars, stores, calls, ghosts
  <1>2. ASSUME NEW c \in Calls, ReadBoth(c), UNCHANGED req PROVE LinkPhase(d)'
    BY <1>2 DEF ReadBoth, UseExisting, WrongRefusal, Goto, Done, KindPhase, LinkPhase, Reason,
           stores, ghosts
  <1>3. ASSUME NEW c \in Calls, Insert(c), UNCHANGED req PROVE LinkPhase(d)'
    BY <1>3 DEF Insert, Goto, Fresh, Gone, KindPhase, LinkPhase, Reason, stores, ghosts
  <1>4. ASSUME NEW c \in Calls, Confirm(c), UNCHANGED req PROVE LinkPhase(d)'
    BY <1>4 DEF Confirm, Goto, Done, KindPhase, LinkPhase, Reason, stores, ghosts
  <1>5. ASSUME NEW c \in Calls, Reread(c), UNCHANGED req PROVE LinkPhase(d)'
    BY <1>5 DEF Reread, UseExisting, Goto, Done, KindPhase, LinkPhase, Reason, stores, ghosts
  <1>6. ASSUME NEW c \in Calls, Store(c), UNCHANGED req PROVE LinkPhase(d)'
    BY <1>6 DEF Store, Goto, KindPhase, LinkPhase, Reason, stores, ghosts
  <1>7. ASSUME NEW c \in Calls, StoreNode(c), UNCHANGED req PROVE LinkPhase(d)'
    BY <1>7 DEF StoreNode, Stored, Goto, KindPhase, LinkPhase, Reason, stores, ghosts
  <1>8. ASSUME NEW c \in Calls, Detect(c), UNCHANGED req PROVE LinkPhase(d)'
    <2>1. link'.reason = link.reason /\ (link.there => link'.there)
      BY <1>8, LinkWrites DEF Detect, StoreTypes
    <2>2. QED
      BY <1>8, <2>1 DEF Detect, Goto, Done, ghosts, KindPhase, LinkPhase, Reason
  <1>9. ASSUME NEW c \in Calls, Check(c), UNCHANGED req PROVE LinkPhase(d)'
    BY <1>9 DEF Check, Goto, Done, KindPhase, LinkPhase, Reason, stores, ghosts
  <1>10. ASSUME NEW c \in Calls, CheckWrong(c), UNCHANGED req PROVE LinkPhase(d)'
    BY <1>10 DEF CheckWrong, Goto, Done, KindPhase, LinkPhase, Reason, stores, ghosts
  <1>11. ASSUME NEW c \in Calls, EnsureWrong(c), UNCHANGED req PROVE LinkPhase(d)'
    BY <1>11 DEF EnsureWrong, Goto, KindPhase, LinkPhase, Reason, stores, ghosts
  <1>12. ASSUME NEW c \in Calls, EnsureCorrection(c), UNCHANGED req PROVE LinkPhase(d)'
    BY <1>12 DEF EnsureCorrection, Goto, KindPhase, LinkPhase, Reason, stores, ghosts
  <1>13. ASSUME NEW c \in Calls, Link(c), UNCHANGED req PROVE LinkPhase(d)'
    <2>1. CASE d = c
      BY <1>13, <2>1, LinkWrites DEF Link, PutLink, Goto, Done, StoreTypes, KindPhase, LinkPhase,
             Reason
    <2>2. CASE d # c
      BY <1>13, <2>2, LinkWrites DEF Link, PutLink, Goto, Done, StoreTypes, KindPhase, LinkPhase,
             Reason
    <2>3. QED
      BY <2>1, <2>2
  <1>14. ASSUME NEW c \in Calls, Recheck(c), UNCHANGED req PROVE LinkPhase(d)'
    BY <1>14 DEF Recheck, LinkAnswer, Done, KindPhase, LinkPhase, Reason, stores, ghosts
  <1>15. ASSUME NEW c \in Calls, Mark(c), UNCHANGED req PROVE LinkPhase(d)'
    BY <1>15 DEF Mark, PutMarker, MarkerAnswer, Done, KindPhase, LinkPhase, Reason, stores, ghosts
  <1>16. ASSUME NEW c \in Calls, Remark(c), UNCHANGED req PROVE LinkPhase(d)'
    BY <1>16 DEF Remark, MarkerAnswer, Done, KindPhase, LinkPhase, Reason, stores, ghosts
  <1>17. ASSUME NEW c \in Calls, DropNode(c), UNCHANGED req PROVE LinkPhase(d)'
    BY <1>17 DEF DropNode, Take, Done, KindPhase, LinkPhase, Reason, stores, ghosts
  <1>18. ASSUME NEW c \in Calls, Unlink(c), UNCHANGED req PROVE LinkPhase(d)'
    BY <1>18 DEF Unlink, Take, Done, KindPhase, LinkPhase, Reason, stores, ghosts
  <1>19. ASSUME NEW c \in Calls, DropPoint(c), UNCHANGED req PROVE LinkPhase(d)'
    BY <1>19 DEF DropPoint, Goto, Gone, KindPhase, LinkPhase, Reason, stores, ghosts
  <1>20. ASSUME NEW c \in Calls, Supersede(c), UNCHANGED req PROVE LinkPhase(d)'
    BY <1>20 DEF Supersede, Done, KindPhase, LinkPhase, Reason, stores, ghosts
  <1>21. ASSUME NEW c \in Calls, Guard(c), UNCHANGED req PROVE LinkPhase(d)'
    BY <1>21 DEF Guard, Goto, Done, KindPhase, LinkPhase, Reason, stores, ghosts
  <1>22. ASSUME NEW c \in Calls, ReadFails(c), UNCHANGED req PROVE LinkPhase(d)'
    BY <1>22 DEF ReadFails, LinkAnswer, Goto, Done, Trouble, KindPhase, LinkPhase, Reason, stores,
           ghosts
  <1>23. ASSUME NEW c \in Calls, InsertFails(c), UNCHANGED req PROVE LinkPhase(d)'
    BY <1>23 DEF InsertFails, Fresh, Gone, Done, Trouble, KindPhase, LinkPhase, Reason, stores,
           ghosts
  <1>24. ASSUME NEW c \in Calls, NodeFails(c), UNCHANGED req PROVE LinkPhase(d)'
    BY <1>24 DEF NodeFails, Stored, Goto, Trouble, KindPhase, LinkPhase, Reason, stores, ghosts
  <1>25. ASSUME NEW c \in Calls, LinkFails(c), UNCHANGED req PROVE LinkPhase(d)'
    BY <1>25, LinkWrites DEF LinkFails, PutLink, Done, StoreTypes, KindPhase, LinkPhase, Reason
  <1>26. ASSUME NEW c \in Calls, MarkFails(c), UNCHANGED req PROVE LinkPhase(d)'
    BY <1>26 DEF MarkFails, PutMarker, Goto, Trouble, KindPhase, LinkPhase, Reason, stores, ghosts
  <1>27. ASSUME NEW c \in Calls, CutOff(c), UNCHANGED req PROVE LinkPhase(d)'
    BY <1>27 DEF CutOff, Done, Trouble, KindPhase, LinkPhase, Reason, stores, ghosts
  <1>28. ASSUME NEW c \in Calls, Retry(c), UNCHANGED req PROVE LinkPhase(d)'
    BY <1>28 DEF Retry, Unfinished, KindPhase, LinkPhase, Reason, stores, ghosts
  <1>29. QED
    BY <1>1, <1>2, <1>3, <1>4, <1>5, <1>6, <1>7, <1>8, <1>9, <1>10, <1>11, <1>12, <1>13, <1>14,
           <1>15, <1>16, <1>17, <1>18, <1>19, <1>20, <1>21, <1>22, <1>23, <1>24, <1>25, <1>26,
           <1>27, <1>28 DEF Next, Along, Step, Request, Fault

\* Every step keeps a refute's marker, or a third memory's.
LEMMA NextMarkPhase ==
  ASSUME RefuteInv, [Next]_vars, NEW d \in Calls PROVE MarkPhase(d)'
  <1> USE Apart, Requests, SameWorkload DEF RefuteInv, TypeOK, CallTypes, RefutePhases, RefutePhase
  <1>1. CASE UNCHANGED vars
    BY <1>1 DEF KindPhase, MarkPhase, Reason, Refutes, RefuteKinds, Kind, vars, stores, calls,
           ghosts
  <1>2. ASSUME NEW c \in Calls, ReadBoth(c), UNCHANGED req PROVE MarkPhase(d)'
    BY <1>2 DEF ReadBoth, UseExisting, WrongRefusal, Goto, Done, KindPhase, MarkPhase, Reason,
           Refutes, RefuteKinds, Kind, stores, ghosts
  <1>3. ASSUME NEW c \in Calls, Insert(c), UNCHANGED req PROVE MarkPhase(d)'
    <2>1. point'[Wrong] = point[Wrong]
      BY <1>3 DEF Insert, StoreTypes
    <2>2. QED
      BY <1>3, <2>1 DEF Insert, Goto, ghosts, KindPhase, MarkPhase, Reason, Refutes, RefuteKinds,
             Kind
  <1>4. ASSUME NEW c \in Calls, Confirm(c), UNCHANGED req PROVE MarkPhase(d)'
    BY <1>4 DEF Confirm, Goto, Done, KindPhase, MarkPhase, Reason, Refutes, RefuteKinds, Kind,
           stores, ghosts
  <1>5. ASSUME NEW c \in Calls, Reread(c), UNCHANGED req PROVE MarkPhase(d)'
    BY <1>5 DEF Reread, UseExisting, Goto, Done, KindPhase, MarkPhase, Reason, Refutes,
           RefuteKinds, Kind, stores, ghosts
  <1>6. ASSUME NEW c \in Calls, Store(c), UNCHANGED req PROVE MarkPhase(d)'
    BY <1>6 DEF Store, Goto, KindPhase, MarkPhase, Reason, Refutes, RefuteKinds, Kind, stores,
           ghosts
  <1>7. ASSUME NEW c \in Calls, StoreNode(c), UNCHANGED req PROVE MarkPhase(d)'
    BY <1>7 DEF StoreNode, Stored, Goto, KindPhase, MarkPhase, Reason, Refutes, RefuteKinds, Kind,
           stores, ghosts
  <1>8. ASSUME NEW c \in Calls, Detect(c), UNCHANGED req PROVE MarkPhase(d)'
    BY <1>8 DEF Detect, Stored, Merged, Goto, Done, KindPhase, MarkPhase, Reason, Refutes,
           RefuteKinds, Kind, stores, ghosts
  <1>9. ASSUME NEW c \in Calls, Check(c), UNCHANGED req PROVE MarkPhase(d)'
    BY <1>9 DEF Check, Goto, Done, KindPhase, MarkPhase, Reason, Refutes, RefuteKinds, Kind,
           stores, ghosts
  <1>10. ASSUME NEW c \in Calls, CheckWrong(c), UNCHANGED req PROVE MarkPhase(d)'
    BY <1>10 DEF CheckWrong, Goto, Done, KindPhase, MarkPhase, Reason, Refutes, RefuteKinds, Kind,
           stores, ghosts
  <1>11. ASSUME NEW c \in Calls, EnsureWrong(c), UNCHANGED req PROVE MarkPhase(d)'
    BY <1>11 DEF EnsureWrong, Goto, KindPhase, MarkPhase, Reason, Refutes, RefuteKinds, Kind,
           stores, ghosts
  <1>12. ASSUME NEW c \in Calls, EnsureCorrection(c), UNCHANGED req PROVE MarkPhase(d)'
    BY <1>12 DEF EnsureCorrection, Goto, KindPhase, MarkPhase, Reason, Refutes, RefuteKinds, Kind,
           stores, ghosts
  <1>13. ASSUME NEW c \in Calls, Link(c), UNCHANGED req PROVE MarkPhase(d)'
    BY <1>13 DEF Link, PutLink, Linked, Goto, Done, KindPhase, MarkPhase, Reason, Refutes,
           RefuteKinds, Kind, stores, ghosts
  <1>14. ASSUME NEW c \in Calls, Recheck(c), UNCHANGED req PROVE MarkPhase(d)'
    BY <1>14 DEF Recheck, LinkAnswer, Done, KindPhase, MarkPhase, Reason, Refutes, RefuteKinds,
           Kind, stores, ghosts
  <1>15. ASSUME NEW c \in Calls, Mark(c), UNCHANGED req PROVE MarkPhase(d)'
    BY <1>15 DEF Mark, PutMarker, Done, Live, There, StoreTypes, Points, KindPhase, MarkPhase,
           Reason, Refutes, RefuteKinds, Kind
  <1>16. ASSUME NEW c \in Calls, Remark(c), UNCHANGED req PROVE MarkPhase(d)'
    BY <1>16 DEF Remark, MarkerAnswer, Done, KindPhase, MarkPhase, Reason, Refutes, RefuteKinds,
           Kind, stores, ghosts
  <1>17. ASSUME NEW c \in Calls, DropNode(c), UNCHANGED req PROVE MarkPhase(d)'
    BY <1>17 DEF DropNode, Take, Done, KindPhase, MarkPhase, Reason, Refutes, RefuteKinds, Kind,
           stores, ghosts
  <1>18. ASSUME NEW c \in Calls, Unlink(c), UNCHANGED req PROVE MarkPhase(d)'
    BY <1>18 DEF Unlink, Take, Done, KindPhase, MarkPhase, Reason, Refutes, RefuteKinds, Kind,
           stores, ghosts
  <1>19. ASSUME NEW c \in Calls, DropPoint(c), UNCHANGED req PROVE MarkPhase(d)'
    BY <1>19 DEF DropPoint, Goto, Gone, KindPhase, MarkPhase, Reason, Refutes, RefuteKinds, Kind,
           stores, ghosts
  <1>20. ASSUME NEW c \in Calls, Supersede(c), UNCHANGED req PROVE MarkPhase(d)'
    <2>1. point'[Wrong] = point[Wrong] \/ point'[Wrong].by = Other
      BY <1>20 DEF Supersede, StoreTypes, Points
    <2>2. QED
      BY <1>20, <2>1 DEF Supersede, Done, ghosts, KindPhase, MarkPhase, Reason, Refutes,
             RefuteKinds, Kind
  <1>21. ASSUME NEW c \in Calls, Guard(c), UNCHANGED req PROVE MarkPhase(d)'
    BY <1>21 DEF Guard, Goto, Done, KindPhase, MarkPhase, Reason, Refutes, RefuteKinds, Kind,
           stores, ghosts
  <1>22. ASSUME NEW c \in Calls, ReadFails(c), UNCHANGED req PROVE MarkPhase(d)'
    BY <1>22 DEF ReadFails, LinkAnswer, Goto, Done, Trouble, KindPhase, MarkPhase, Reason, Refutes,
           RefuteKinds, Kind, stores, ghosts
  <1>23. ASSUME NEW c \in Calls, InsertFails(c), UNCHANGED req PROVE MarkPhase(d)'
    BY <1>23 DEF InsertFails, Done, Trouble, StoreTypes, KindPhase, MarkPhase, Reason, Refutes,
           RefuteKinds, Kind
  <1>24. ASSUME NEW c \in Calls, NodeFails(c), UNCHANGED req PROVE MarkPhase(d)'
    BY <1>24 DEF NodeFails, Stored, Goto, Trouble, KindPhase, MarkPhase, Reason, Refutes,
           RefuteKinds, Kind, stores, ghosts
  <1>25. ASSUME NEW c \in Calls, LinkFails(c), UNCHANGED req PROVE MarkPhase(d)'
    BY <1>25 DEF LinkFails, PutLink, Linked, Done, Trouble, KindPhase, MarkPhase, Reason, Refutes,
           RefuteKinds, Kind, stores, ghosts
  <1>26. ASSUME NEW c \in Calls, MarkFails(c), UNCHANGED req PROVE MarkPhase(d)'
    BY <1>26 DEF MarkFails, PutMarker, Goto, Trouble, Live, There, StoreTypes, Points, KindPhase,
           MarkPhase, Reason, Refutes, RefuteKinds, Kind
  <1>27. ASSUME NEW c \in Calls, CutOff(c), UNCHANGED req PROVE MarkPhase(d)'
    BY <1>27 DEF CutOff, Done, Trouble, KindPhase, MarkPhase, Reason, Refutes, RefuteKinds, Kind,
           stores, ghosts
  <1>28. ASSUME NEW c \in Calls, Retry(c), UNCHANGED req PROVE MarkPhase(d)'
    BY <1>28 DEF Retry, Unfinished, KindPhase, MarkPhase, Reason, Refutes, RefuteKinds, Kind,
           stores, ghosts
  <1>29. QED
    BY <1>1, <1>2, <1>3, <1>4, <1>5, <1>6, <1>7, <1>8, <1>9, <1>10, <1>11, <1>12, <1>13, <1>14,
           <1>15, <1>16, <1>17, <1>18, <1>19, <1>20, <1>21, <1>22, <1>23, <1>24, <1>25, <1>26,
           <1>27, <1>28 DEF Next, Along, Step, Request, Fault

\* Only a refute starts again.
LEMMA Onward ==
  ASSUME RefuteInv, [Next]_vars, NEW d \in Calls,
         d \notin Refutes, pc[d] # "idle" PROVE pc'[d] # "idle"
  <1> USE Apart, Requests, SameWorkload DEF RefuteInv, TypeOK, CallTypes
  <1>1. CASE UNCHANGED vars
    BY <1>1 DEF Refutes, RefuteKinds, Kind, vars, stores, calls, ghosts
  <1>2. ASSUME NEW c \in Calls, ReadBoth(c), UNCHANGED req PROVE pc'[d] # "idle"
    BY <1>2 DEF ReadBoth, UseExisting, WrongRefusal, Goto, Done, Refutes, RefuteKinds, Kind
  <1>3. ASSUME NEW c \in Calls, Insert(c), UNCHANGED req PROVE pc'[d] # "idle"
    BY <1>3 DEF Insert, Goto, Fresh, Gone, Refutes, RefuteKinds, Kind
  <1>4. ASSUME NEW c \in Calls, Confirm(c), UNCHANGED req PROVE pc'[d] # "idle"
    BY <1>4 DEF Confirm, Goto, Done, Refutes, RefuteKinds, Kind
  <1>5. ASSUME NEW c \in Calls, Reread(c), UNCHANGED req PROVE pc'[d] # "idle"
    BY <1>5 DEF Reread, UseExisting, Goto, Done, Refutes, RefuteKinds, Kind
  <1>6. ASSUME NEW c \in Calls, Store(c), UNCHANGED req PROVE pc'[d] # "idle"
    BY <1>6 DEF Store, Goto, Refutes, RefuteKinds, Kind
  <1>7. ASSUME NEW c \in Calls, StoreNode(c), UNCHANGED req PROVE pc'[d] # "idle"
    BY <1>7 DEF StoreNode, Goto, Done, Refutes, RefuteKinds, Kind
  <1>8. ASSUME NEW c \in Calls, Detect(c), UNCHANGED req PROVE pc'[d] # "idle"
    BY <1>8 DEF Detect, Goto, Done
  <1>9. ASSUME NEW c \in Calls, Check(c), UNCHANGED req PROVE pc'[d] # "idle"
    BY <1>9 DEF Check, Goto, Done, Refutes, RefuteKinds, Kind
  <1>10. ASSUME NEW c \in Calls, CheckWrong(c), UNCHANGED req PROVE pc'[d] # "idle"
    BY <1>10 DEF CheckWrong, Goto, Done, Refutes, RefuteKinds, Kind
  <1>11. ASSUME NEW c \in Calls, EnsureWrong(c), UNCHANGED req PROVE pc'[d] # "idle"
    BY <1>11 DEF EnsureWrong, Goto, Refutes, RefuteKinds, Kind
  <1>12. ASSUME NEW c \in Calls, EnsureCorrection(c), UNCHANGED req PROVE pc'[d] # "idle"
    BY <1>12 DEF EnsureCorrection, Goto, Refutes, RefuteKinds, Kind
  <1>13. ASSUME NEW c \in Calls, Link(c), UNCHANGED req PROVE pc'[d] # "idle"
    BY <1>13 DEF Link, PutLink, Linked, Goto, Done, Refutes, RefuteKinds, Kind
  <1>14. ASSUME NEW c \in Calls, Recheck(c), UNCHANGED req PROVE pc'[d] # "idle"
    BY <1>14 DEF Recheck, LinkAnswer, Done, Refutes, RefuteKinds, Kind
  <1>15. ASSUME NEW c \in Calls, Mark(c), UNCHANGED req PROVE pc'[d] # "idle"
    BY <1>15 DEF Mark, PutMarker, MarkerAnswer, Done, Refutes, RefuteKinds, Kind
  <1>16. ASSUME NEW c \in Calls, Remark(c), UNCHANGED req PROVE pc'[d] # "idle"
    BY <1>16 DEF Remark, MarkerAnswer, Done, Refutes, RefuteKinds, Kind
  <1>17. ASSUME NEW c \in Calls, DropNode(c), UNCHANGED req PROVE pc'[d] # "idle"
    BY <1>17 DEF DropNode, Take, Done, Refutes, RefuteKinds, Kind
  <1>18. ASSUME NEW c \in Calls, Unlink(c), UNCHANGED req PROVE pc'[d] # "idle"
    BY <1>18 DEF Unlink, Take, Done, Refutes, RefuteKinds, Kind
  <1>19. ASSUME NEW c \in Calls, DropPoint(c), UNCHANGED req PROVE pc'[d] # "idle"
    BY <1>19 DEF DropPoint, Goto, Gone, Refutes, RefuteKinds, Kind
  <1>20. ASSUME NEW c \in Calls, Supersede(c), UNCHANGED req PROVE pc'[d] # "idle"
    BY <1>20 DEF Supersede, Done, Refutes, RefuteKinds, Kind
  <1>21. ASSUME NEW c \in Calls, Guard(c), UNCHANGED req PROVE pc'[d] # "idle"
    BY <1>21 DEF Guard, Goto, Done, Refutes, RefuteKinds, Kind
  <1>22. ASSUME NEW c \in Calls, ReadFails(c), UNCHANGED req PROVE pc'[d] # "idle"
    BY <1>22 DEF ReadFails, LinkAnswer, Goto, Done, Trouble, Refutes, RefuteKinds, Kind
  <1>23. ASSUME NEW c \in Calls, InsertFails(c), UNCHANGED req PROVE pc'[d] # "idle"
    BY <1>23 DEF InsertFails, Fresh, Gone, Done, Trouble, Refutes, RefuteKinds, Kind
  <1>24. ASSUME NEW c \in Calls, NodeFails(c), UNCHANGED req PROVE pc'[d] # "idle"
    BY <1>24 DEF NodeFails, Goto, Done, Refutes, RefuteKinds, Kind
  <1>25. ASSUME NEW c \in Calls, LinkFails(c), UNCHANGED req PROVE pc'[d] # "idle"
    BY <1>25 DEF LinkFails, PutLink, Linked, Done, Trouble, Refutes, RefuteKinds, Kind
  <1>26. ASSUME NEW c \in Calls, MarkFails(c), UNCHANGED req PROVE pc'[d] # "idle"
    BY <1>26 DEF MarkFails, PutMarker, Goto, Trouble, Refutes, RefuteKinds, Kind
  <1>27. ASSUME NEW c \in Calls, CutOff(c), UNCHANGED req PROVE pc'[d] # "idle"
    BY <1>27 DEF CutOff, Done, Trouble, Refutes, RefuteKinds, Kind
  <1>28. ASSUME NEW c \in Calls, Retry(c), UNCHANGED req PROVE pc'[d] # "idle"
    BY <1>28 DEF Retry, Unfinished, Refutes, RefuteKinds, Kind
  <1>29. QED
    BY <1>1, <1>2, <1>3, <1>4, <1>5, <1>6, <1>7, <1>8, <1>9, <1>10, <1>11, <1>12, <1>13, <1>14,
           <1>15, <1>16, <1>17, <1>18, <1>19, <1>20, <1>21, <1>22, <1>23, <1>24, <1>25, <1>26,
           <1>27, <1>28 DEF Next, Along, Step, Request, Fault


\* What has overtaken a supersession stays.
LEMMA StaysOvertaken ==
  ASSUME RefuteInv, [Next]_vars, Overtaken PROVE Overtaken'
  <1>1. UNCHANGED req
    BY DEF Next, Along, vars
  <1>2. PICK d \in Calls : Kind(d) \in {"delete", "supersede"} /\ Target(d) = Wrong /\ pc[d] # "idle"
    BY DEF Overtaken
  <1>3. pc'[d] # "idle"
    BY <1>2, Onward DEF Refutes, RefuteKinds
  <1>4. QED
    BY <1>1, <1>2, <1>3 DEF Overtaken, Kind, Target

\* An answered link stays as it was answered.
LEMMA NextContradicts ==
  ASSUME RefuteInv, [Next]_vars, NEW d \in Refutes
  PROVE  (told[d] = "contradicts" /\ taken = {} => link.there /\ link.reason = Reason(d))'
  <1> DEFINE Kept == told[d] = "contradicts" /\ taken = {} => link.there /\ link.reason = Reason(d)
  <1> USE Apart, Requests, SameWorkload DEF RefuteInv, TypeOK, CallTypes, RefutePhases, RefutePhase
  <1>1. CASE UNCHANGED vars
    BY <1>1 DEF AnswersStand, Reason, vars, stores, calls, ghosts
  <1>2. ASSUME NEW c \in Calls, ReadBoth(c), UNCHANGED req PROVE Kept'
    BY <1>2 DEF ReadBoth, UseExisting, WrongRefusal, Goto, Done, AnswersStand, KindPhase, Refutes,
           RefuteKinds, Kind, Reason, stores, ghosts
  <1>3. ASSUME NEW c \in Calls, Insert(c), UNCHANGED req PROVE Kept'
    BY <1>3 DEF Insert, Goto, Fresh, Gone, AnswersStand, KindPhase, Refutes, RefuteKinds, Kind,
           Reason, stores, ghosts
  <1>4. ASSUME NEW c \in Calls, Confirm(c), UNCHANGED req PROVE Kept'
    BY <1>4 DEF Confirm, Goto, Done, AnswersStand, KindPhase, Refutes, RefuteKinds, Kind, Reason,
           stores, ghosts
  <1>5. ASSUME NEW c \in Calls, Reread(c), UNCHANGED req PROVE Kept'
    BY <1>5 DEF Reread, UseExisting, Goto, Done, AnswersStand, KindPhase, Refutes, RefuteKinds,
           Kind, Reason, stores, ghosts
  <1>6. ASSUME NEW c \in Calls, Store(c), UNCHANGED req PROVE Kept'
    BY <1>6 DEF Store, Goto, AnswersStand, KindPhase, Refutes, RefuteKinds, Kind, Reason, stores,
           ghosts
  <1>7. ASSUME NEW c \in Calls, StoreNode(c), UNCHANGED req PROVE Kept'
    BY <1>7 DEF StoreNode, Stored, Goto, AnswersStand, KindPhase, Refutes, RefuteKinds, Kind,
           Reason, stores, ghosts
  <1>8. ASSUME NEW c \in Calls, Detect(c), UNCHANGED req PROVE Kept'
    <2>1. link'.reason = link.reason /\ (link.there => link'.there)
      BY <1>8, LinkWrites DEF Detect, StoreTypes
    <2>2. QED
      BY <1>8, <2>1 DEF Detect, Goto, Done, ghosts, AnswersStand, KindPhase, Reason, Refutes,
             RefuteKinds, Kind
  <1>9. ASSUME NEW c \in Calls, Check(c), UNCHANGED req PROVE Kept'
    BY <1>9 DEF Check, Goto, Done, AnswersStand, KindPhase, Refutes, RefuteKinds, Kind, Reason,
           stores, ghosts
  <1>10. ASSUME NEW c \in Calls, CheckWrong(c), UNCHANGED req PROVE Kept'
    BY <1>10 DEF CheckWrong, Goto, Done, AnswersStand, KindPhase, Refutes, RefuteKinds, Kind,
           Reason, stores, ghosts
  <1>11. ASSUME NEW c \in Calls, EnsureWrong(c), UNCHANGED req PROVE Kept'
    BY <1>11 DEF EnsureWrong, Goto, AnswersStand, KindPhase, Refutes, RefuteKinds, Kind, Reason,
           stores, ghosts
  <1>12. ASSUME NEW c \in Calls, EnsureCorrection(c), UNCHANGED req PROVE Kept'
    BY <1>12 DEF EnsureCorrection, Goto, AnswersStand, KindPhase, Refutes, RefuteKinds, Kind,
           Reason, stores, ghosts
  <1>13. ASSUME NEW c \in Calls, Link(c), UNCHANGED req PROVE Kept'
    BY <1>13, LinkWrites DEF Link, PutLink, Goto, Done, StoreTypes, AnswersStand, KindPhase,
           Reason, Refutes, RefuteKinds, Kind
  <1>14. ASSUME NEW c \in Calls, Recheck(c), UNCHANGED req PROVE Kept'
    BY <1>14 DEF Recheck, LinkAnswer, Done, AnswersStand, KindPhase, LinkPhase, Reason, Refutes,
           RefuteKinds, Kind, stores, ghosts
  <1>15. ASSUME NEW c \in Calls, Mark(c), UNCHANGED req PROVE Kept'
    BY <1>15 DEF Mark, PutMarker, MarkerAnswer, Done, AnswersStand, KindPhase, Refutes,
           RefuteKinds, Kind, Reason, stores, ghosts
  <1>16. ASSUME NEW c \in Calls, Remark(c), UNCHANGED req PROVE Kept'
    BY <1>16 DEF Remark, MarkerAnswer, Done, AnswersStand, KindPhase, Refutes, RefuteKinds, Kind,
           Reason, stores, ghosts
  <1>17. ASSUME NEW c \in Calls, DropNode(c), UNCHANGED req PROVE Kept'
    <2>1. CASE link.reason = None \/ UNCHANGED <<link, taken>>
      BY <1>17, <2>1 DEF DropNode, Done, Take, AnswersStand, KindPhase, Reason, Refutes,
             RefuteKinds, Kind
    <2>2. CASE link.reason # None /\ taken' = taken \cup {c}
      BY <2>2
    <2>3. QED
      BY <1>17, <2>1, <2>2 DEF DropNode, Take
  <1>18. ASSUME NEW c \in Calls, Unlink(c), UNCHANGED req PROVE Kept'
    <2>1. CASE link.reason = None \/ UNCHANGED <<link, taken>>
      BY <1>18, <2>1 DEF Unlink, Done, Take, AnswersStand, KindPhase, Reason, Refutes, RefuteKinds,
             Kind
    <2>2. CASE link.reason # None /\ taken' = taken \cup {c}
      BY <2>2
    <2>3. QED
      BY <1>18, <2>1, <2>2 DEF Unlink, Take
  <1>19. ASSUME NEW c \in Calls, DropPoint(c), UNCHANGED req PROVE Kept'
    BY <1>19 DEF DropPoint, Goto, Gone, AnswersStand, KindPhase, Refutes, RefuteKinds, Kind,
           Reason, stores, ghosts
  <1>20. ASSUME NEW c \in Calls, Supersede(c), UNCHANGED req PROVE Kept'
    BY <1>20 DEF Supersede, Done, AnswersStand, KindPhase, Refutes, RefuteKinds, Kind, Reason,
           stores, ghosts
  <1>21. ASSUME NEW c \in Calls, Guard(c), UNCHANGED req PROVE Kept'
    BY <1>21 DEF Guard, Goto, Done, AnswersStand, KindPhase, Refutes, RefuteKinds, Kind, Reason,
           stores, ghosts
  <1>22. ASSUME NEW c \in Calls, ReadFails(c), UNCHANGED req PROVE Kept'
    BY <1>22 DEF ReadFails, LinkAnswer, Goto, Done, Trouble, AnswersStand, KindPhase, LinkPhase,
           Reason, Refutes, RefuteKinds, Kind, stores, ghosts
  <1>23. ASSUME NEW c \in Calls, InsertFails(c), UNCHANGED req PROVE Kept'
    BY <1>23 DEF InsertFails, Fresh, Gone, Done, Trouble, AnswersStand, KindPhase, Refutes,
           RefuteKinds, Kind, Reason, stores, ghosts
  <1>24. ASSUME NEW c \in Calls, NodeFails(c), UNCHANGED req PROVE Kept'
    BY <1>24 DEF NodeFails, Stored, Goto, Trouble, AnswersStand, KindPhase, Refutes, RefuteKinds,
           Kind, Reason, stores, ghosts
  <1>25. ASSUME NEW c \in Calls, LinkFails(c), UNCHANGED req PROVE Kept'
    BY <1>25, LinkWrites DEF LinkFails, PutLink, Done, StoreTypes, AnswersStand, KindPhase, Reason,
           Refutes, RefuteKinds, Kind
  <1>26. ASSUME NEW c \in Calls, MarkFails(c), UNCHANGED req PROVE Kept'
    BY <1>26 DEF MarkFails, PutMarker, Goto, Trouble, AnswersStand, KindPhase, Refutes,
           RefuteKinds, Kind, Reason, stores, ghosts
  <1>27. ASSUME NEW c \in Calls, CutOff(c), UNCHANGED req PROVE Kept'
    BY <1>27 DEF CutOff, Done, Trouble, AnswersStand, KindPhase, Refutes, RefuteKinds, Kind,
           Reason, stores, ghosts
  <1>28. ASSUME NEW c \in Calls, Retry(c), UNCHANGED req PROVE Kept'
    BY <1>28 DEF Retry, Unfinished, AnswersStand, KindPhase, Refutes, RefuteKinds, Kind, Reason,
           stores, ghosts
  <1>29. QED
    BY <1>1, <1>2, <1>3, <1>4, <1>5, <1>6, <1>7, <1>8, <1>9, <1>10, <1>11, <1>12, <1>13, <1>14,
           <1>15, <1>16, <1>17, <1>18, <1>19, <1>20, <1>21, <1>22, <1>23, <1>24, <1>25, <1>26,
           <1>27, <1>28 DEF Next, Along, Step, Request, Fault

\* An answered supersession stays as it was answered.
LEMMA NextSuperseded ==
  ASSUME RefuteInv, [Next]_vars, NEW d \in Refutes
  PROVE  (told[d] = "superseded" /\ ~Overtaken =>
           point[Wrong].by = Correction /\ point[Wrong].why = Reason(d))'
  <1> DEFINE Kept == told[d] = "superseded" /\ ~Overtaken =>
                       point[Wrong].by = Correction /\ point[Wrong].why = Reason(d)
  <1> USE Apart, Requests, SameWorkload DEF RefuteInv, TypeOK, CallTypes, RefutePhases, RefutePhase
  <1>1. CASE UNCHANGED vars
    BY <1>1 DEF AnswersStand, Reason, Overtaken, Kind, Target, vars, stores, calls, ghosts
  <1>2. ASSUME NEW c \in Calls, ReadBoth(c), UNCHANGED req PROVE Kept'
    BY <1>2, StaysOvertaken DEF ReadBoth, UseExisting, WrongRefusal, Goto, Done, AnswersStand,
           KindPhase, Refutes, RefuteKinds, Kind, Reason, stores, ghosts
  <1>3. ASSUME NEW c \in Calls, Insert(c), UNCHANGED req PROVE Kept'
    <2>1. point'[Wrong].by = point[Wrong].by /\ point'[Wrong].why = point[Wrong].why
      BY <1>3 DEF Insert, StoreTypes, Points
    <2>2. QED
      BY <1>3, <2>1, StaysOvertaken DEF Insert, Goto, Done, AnswersStand, KindPhase, Refutes,
             RefuteKinds, Kind, Reason, ghosts
  <1>4. ASSUME NEW c \in Calls, Confirm(c), UNCHANGED req PROVE Kept'
    BY <1>4, StaysOvertaken DEF Confirm, Goto, Done, AnswersStand, KindPhase, Refutes, RefuteKinds,
           Kind, Reason, stores, ghosts
  <1>5. ASSUME NEW c \in Calls, Reread(c), UNCHANGED req PROVE Kept'
    BY <1>5, StaysOvertaken DEF Reread, UseExisting, Goto, Done, AnswersStand, KindPhase, Refutes,
           RefuteKinds, Kind, Reason, stores, ghosts
  <1>6. ASSUME NEW c \in Calls, Store(c), UNCHANGED req PROVE Kept'
    <2>1. point'[Wrong].by = point[Wrong].by /\ point'[Wrong].why = point[Wrong].why
      BY <1>6 DEF Store, StoreTypes, Points
    <2>2. QED
      BY <1>6, <2>1, StaysOvertaken DEF Store, Goto, AnswersStand, KindPhase, Refutes, RefuteKinds,
             Kind, Reason, ghosts
  <1>7. ASSUME NEW c \in Calls, StoreNode(c), UNCHANGED req PROVE Kept'
    BY <1>7, StaysOvertaken DEF StoreNode, Goto, Done, Trouble, AnswersStand, KindPhase, Refutes,
           RefuteKinds, Kind, Reason, stores, ghosts
  <1>8. ASSUME NEW c \in Calls, Detect(c), UNCHANGED req PROVE Kept'
    BY <1>8, StaysOvertaken DEF Detect, Goto, Done, Trouble, AnswersStand, KindPhase, Refutes,
           RefuteKinds, Kind, Reason, stores, ghosts
  <1>9. ASSUME NEW c \in Calls, Check(c), UNCHANGED req PROVE Kept'
    BY <1>9, StaysOvertaken DEF Check, Goto, Done, AnswersStand, KindPhase, Refutes, RefuteKinds,
           Kind, Reason, stores, ghosts
  <1>10. ASSUME NEW c \in Calls, CheckWrong(c), UNCHANGED req PROVE Kept'
    BY <1>10, StaysOvertaken DEF CheckWrong, Goto, Done, AnswersStand, KindPhase, Refutes,
           RefuteKinds, Kind, Reason, stores, ghosts
  <1>11. ASSUME NEW c \in Calls, EnsureWrong(c), UNCHANGED req PROVE Kept'
    BY <1>11, StaysOvertaken DEF EnsureWrong, Goto, AnswersStand, KindPhase, Refutes, RefuteKinds,
           Kind, Reason, stores, ghosts
  <1>12. ASSUME NEW c \in Calls, EnsureCorrection(c), UNCHANGED req PROVE Kept'
    BY <1>12, StaysOvertaken DEF EnsureCorrection, Goto, AnswersStand, KindPhase, Refutes,
           RefuteKinds, Kind, Reason, stores, ghosts
  <1>13. ASSUME NEW c \in Calls, Link(c), UNCHANGED req PROVE Kept'
    BY <1>13, StaysOvertaken DEF Link, Goto, Done, Trouble, AnswersStand, KindPhase, Refutes,
           RefuteKinds, Kind, Reason, stores, ghosts
  <1>14. ASSUME NEW c \in Calls, Recheck(c), UNCHANGED req PROVE Kept'
    BY <1>14, StaysOvertaken DEF Recheck, LinkAnswer, Done, AnswersStand, KindPhase, Refutes,
           RefuteKinds, Kind, Reason, stores, ghosts
  <1>15. ASSUME NEW c \in Calls, Mark(c), UNCHANGED req PROVE Kept'
    BY <1>15, StaysOvertaken DEF Mark, PutMarker, MarkerAnswer, Live, There, Superseded, Done,
           StoreTypes, Points, AnswersStand, KindPhase, Refutes, RefuteKinds, Kind, Reason
  <1>16. ASSUME NEW c \in Calls, Remark(c), UNCHANGED req PROVE Kept'
    BY <1>16, StaysOvertaken DEF Remark, MarkerAnswer, Done, AnswersStand, KindPhase, Refutes,
           RefuteKinds, Kind, Reason, stores, ghosts
  <1>17. ASSUME NEW c \in Calls, DropNode(c), UNCHANGED req PROVE Kept'
    BY <1>17, StaysOvertaken DEF DropNode, Take, Done, AnswersStand, KindPhase, Refutes,
           RefuteKinds, Kind, Reason, stores, ghosts
  <1>18. ASSUME NEW c \in Calls, Unlink(c), UNCHANGED req PROVE Kept'
    BY <1>18, StaysOvertaken DEF Unlink, Take, Done, AnswersStand, KindPhase, Refutes, RefuteKinds,
           Kind, Reason, stores, ghosts
  <1>19. ASSUME NEW c \in Calls, DropPoint(c), UNCHANGED req PROVE Kept'
    <2>1. CASE Target(c) = Wrong
      <3>1. Overtaken'
        BY <1>19, <2>1 DEF DropPoint, Goto, Done, Overtaken, Kind, Target
      <3>2. QED
        BY <3>1
    <2>2. CASE Target(c) # Wrong
      <3>1. point'[Wrong] = point[Wrong]
        BY <1>19, <2>2 DEF DropPoint, StoreTypes
      <3>2. QED
        BY <1>19, <3>1, StaysOvertaken DEF DropPoint, Goto, Done, AnswersStand, KindPhase, Refutes,
               RefuteKinds, Kind, Reason, ghosts
    <2>3. QED
      BY <2>1, <2>2
  <1>20. ASSUME NEW c \in Calls, Supersede(c), UNCHANGED req PROVE Kept'
    <2>1. CASE Target(c) = Wrong
      <3>1. Overtaken'
        BY <1>20, <2>1 DEF Supersede, Goto, Done, Overtaken, Kind, Target
      <3>2. QED
        BY <3>1
    <2>2. CASE Target(c) # Wrong
      <3>1. point'[Wrong] = point[Wrong]
        BY <1>20, <2>2 DEF Supersede, StoreTypes
      <3>2. QED
        BY <1>20, <3>1, StaysOvertaken DEF Supersede, Goto, Done, AnswersStand, KindPhase, Refutes,
               RefuteKinds, Kind, Reason, ghosts
    <2>3. QED
      BY <2>1, <2>2
  <1>21. ASSUME NEW c \in Calls, Guard(c), UNCHANGED req PROVE Kept'
    BY <1>21, StaysOvertaken DEF Guard, Goto, Done, AnswersStand, KindPhase, Refutes, RefuteKinds,
           Kind, Reason, stores, ghosts
  <1>22. ASSUME NEW c \in Calls, ReadFails(c), UNCHANGED req PROVE Kept'
    BY <1>22, StaysOvertaken DEF ReadFails, LinkAnswer, Goto, Done, Trouble, AnswersStand,
           KindPhase, Refutes, RefuteKinds, Kind, Reason, stores, ghosts
  <1>23. ASSUME NEW c \in Calls, InsertFails(c), UNCHANGED req PROVE Kept'
    <2>1. point'[Wrong].by = point[Wrong].by /\ point'[Wrong].why = point[Wrong].why
      BY <1>23 DEF InsertFails, StoreTypes, Points
    <2>2. QED
      BY <1>23, <2>1, StaysOvertaken DEF InsertFails, Done, Trouble, AnswersStand, KindPhase,
             Refutes, RefuteKinds, Kind, Reason, ghosts
  <1>24. ASSUME NEW c \in Calls, NodeFails(c), UNCHANGED req PROVE Kept'
    BY <1>24, StaysOvertaken DEF NodeFails, Goto, Done, Trouble, AnswersStand, KindPhase, Refutes,
           RefuteKinds, Kind, Reason, stores, ghosts
  <1>25. ASSUME NEW c \in Calls, LinkFails(c), UNCHANGED req PROVE Kept'
    BY <1>25, StaysOvertaken DEF LinkFails, Goto, Done, Trouble, AnswersStand, KindPhase, Refutes,
           RefuteKinds, Kind, Reason, stores, ghosts
  <1>26. ASSUME NEW c \in Calls, MarkFails(c), UNCHANGED req PROVE Kept'
    BY <1>26, StaysOvertaken DEF MarkFails, PutMarker, Live, There, Superseded, Goto, StoreTypes,
           Points, AnswersStand, KindPhase, Refutes, RefuteKinds, Kind, Reason
  <1>27. ASSUME NEW c \in Calls, CutOff(c), UNCHANGED req PROVE Kept'
    BY <1>27, StaysOvertaken DEF CutOff, Done, Trouble, AnswersStand, KindPhase, Refutes,
           RefuteKinds, Kind, Reason, stores, ghosts
  <1>28. ASSUME NEW c \in Calls, Retry(c), UNCHANGED req PROVE Kept'
    BY <1>28, StaysOvertaken DEF Retry, Unfinished, AnswersStand, KindPhase, Refutes, RefuteKinds,
           Kind, Reason, stores, ghosts
  <1>29. QED
    BY <1>1, <1>2, <1>3, <1>4, <1>5, <1>6, <1>7, <1>8, <1>9, <1>10, <1>11, <1>12, <1>13, <1>14,
           <1>15, <1>16, <1>17, <1>18, <1>19, <1>20, <1>21, <1>22, <1>23, <1>24, <1>25, <1>26,
           <1>27, <1>28 DEF Next, Along, Step, Request, Fault

\* A refusal stays one of an attempt that wrote nothing.
LEMMA NextRefusals ==
  ASSUME RefuteInv, [Next]_vars, NEW d \in Refutes
  PROVE  (told[d] \in {"not_found", "already", "correction_superseded", "correction_exists",
                   "correction_deleted", "reason_conflict"} => d \notin wrote)'
  <1> DEFINE Kept == told[d] \in {"not_found", "already", "correction_superseded",
                                  "correction_exists", "correction_deleted", "reason_conflict"} => d \notin wrote
  <1> USE Apart, Requests, SameWorkload DEF RefuteInv, TypeOK, CallTypes, RefutePhases, RefutePhase
  <1>1. CASE UNCHANGED vars
    BY <1>1 DEF RefusalsWriteNothing, vars, stores, calls, ghosts
  <1>2. ASSUME NEW c \in Calls, ReadBoth(c), UNCHANGED req PROVE Kept'
    BY <1>2 DEF ReadBoth, UseExisting, WrongRefusal, Goto, Done, RefusalsWriteNothing, KindPhase,
           LinkPhase, MarkPhase, Refutes, RefuteKinds, Kind, Reason, stores, ghosts
  <1>3. ASSUME NEW c \in Calls, Insert(c), UNCHANGED req PROVE Kept'
    BY <1>3 DEF Insert, Goto, Fresh, Gone, RefusalsWriteNothing, KindPhase, LinkPhase, MarkPhase,
           Refutes, RefuteKinds, Kind, Reason, stores, ghosts
  <1>4. ASSUME NEW c \in Calls, Confirm(c), UNCHANGED req PROVE Kept'
    BY <1>4 DEF Confirm, Goto, Done, RefusalsWriteNothing, KindPhase, LinkPhase, MarkPhase,
           Refutes, RefuteKinds, Kind, Reason, stores, ghosts
  <1>5. ASSUME NEW c \in Calls, Reread(c), UNCHANGED req PROVE Kept'
    BY <1>5 DEF Reread, UseExisting, Goto, Done, RefusalsWriteNothing, KindPhase, LinkPhase,
           MarkPhase, Refutes, RefuteKinds, Kind, Reason, stores, ghosts
  <1>6. ASSUME NEW c \in Calls, Store(c), UNCHANGED req PROVE Kept'
    BY <1>6 DEF Store, Goto, RefusalsWriteNothing, KindPhase, LinkPhase, MarkPhase, Refutes,
           RefuteKinds, Kind, Reason, stores, ghosts
  <1>7. ASSUME NEW c \in Calls, StoreNode(c), UNCHANGED req PROVE Kept'
    BY <1>7 DEF StoreNode, Goto, Done, Trouble, RefusalsWriteNothing, KindPhase, Refutes,
           RefuteKinds, Kind, stores, ghosts
  <1>8. ASSUME NEW c \in Calls, Detect(c), UNCHANGED req PROVE Kept'
    BY <1>8 DEF Detect, Goto, Done, Trouble, RefusalsWriteNothing, KindPhase, Refutes, RefuteKinds,
           Kind, stores, ghosts
  <1>9. ASSUME NEW c \in Calls, Check(c), UNCHANGED req PROVE Kept'
    BY <1>9 DEF Check, Goto, Done, RefusalsWriteNothing, KindPhase, LinkPhase, MarkPhase, Refutes,
           RefuteKinds, Kind, Reason, stores, ghosts
  <1>10. ASSUME NEW c \in Calls, CheckWrong(c), UNCHANGED req PROVE Kept'
    BY <1>10 DEF CheckWrong, Goto, Done, RefusalsWriteNothing, KindPhase, LinkPhase, MarkPhase,
           Refutes, RefuteKinds, Kind, Reason, stores, ghosts
  <1>11. ASSUME NEW c \in Calls, EnsureWrong(c), UNCHANGED req PROVE Kept'
    BY <1>11 DEF EnsureWrong, Goto, RefusalsWriteNothing, KindPhase, LinkPhase, MarkPhase, Refutes,
           RefuteKinds, Kind, Reason, stores, ghosts
  <1>12. ASSUME NEW c \in Calls, EnsureCorrection(c), UNCHANGED req PROVE Kept'
    BY <1>12 DEF EnsureCorrection, Goto, RefusalsWriteNothing, KindPhase, LinkPhase, MarkPhase,
           Refutes, RefuteKinds, Kind, Reason, stores, ghosts
  <1>13. ASSUME NEW c \in Calls, Link(c), UNCHANGED req PROVE Kept'
    BY <1>13 DEF Link, PutLink, Goto, Done, Trouble, RefusalsWriteNothing, KindPhase, Refutes,
           RefuteKinds, Kind
  <1>14. ASSUME NEW c \in Calls, Recheck(c), UNCHANGED req PROVE Kept'
    BY <1>14 DEF Recheck, LinkAnswer, Done, RefusalsWriteNothing, KindPhase, LinkPhase, MarkPhase,
           Refutes, RefuteKinds, Kind, Reason, stores, ghosts
  <1>15. ASSUME NEW c \in Calls, Mark(c), UNCHANGED req PROVE Kept'
    BY <1>15 DEF Mark, PutMarker, MarkerAnswer, Done, RefusalsWriteNothing, KindPhase, LinkPhase,
           MarkPhase, Refutes, RefuteKinds, Kind, Reason, stores, ghosts
  <1>16. ASSUME NEW c \in Calls, Remark(c), UNCHANGED req PROVE Kept'
    <2>1. c \in wrote => point[Wrong].by = Other \/ point[Wrong].why = Reason(c)
      BY <1>16 DEF Remark, MarkPhase
    <2>2. MarkerAnswer(c) = "reason_conflict" => point[Wrong].by = Correction /\ point[Wrong].why # Reason(c)
      <3>1. CASE point[Wrong].by # Correction
        BY <3>1 DEF MarkerAnswer
      <3>2. CASE point[Wrong].by = Correction /\ point[Wrong].why = Reason(c)
        BY <3>2 DEF MarkerAnswer
      <3>3. QED
        BY <3>1, <3>2
    <2>3. MarkerAnswer(c) \in {"conflict", "reason_conflict", "superseded"}
      BY DEF MarkerAnswer
    <2>4. told'[d] = told[d] \/ (d = c /\ told'[d] \in {"partial", MarkerAnswer(c)})
      BY <1>16 DEF Remark, Done, Refutes, RefuteKinds, Kind
    <2>5. QED
      BY <1>16, <2>1, <2>2, <2>3, <2>4 DEF Remark, RefusalsWriteNothing, ghosts
  <1>17. ASSUME NEW c \in Calls, DropNode(c), UNCHANGED req PROVE Kept'
    BY <1>17 DEF DropNode, Take, Done, RefusalsWriteNothing, KindPhase, LinkPhase, MarkPhase,
           Refutes, RefuteKinds, Kind, Reason, stores, ghosts
  <1>18. ASSUME NEW c \in Calls, Unlink(c), UNCHANGED req PROVE Kept'
    BY <1>18 DEF Unlink, Take, Done, RefusalsWriteNothing, KindPhase, LinkPhase, MarkPhase,
           Refutes, RefuteKinds, Kind, Reason, stores, ghosts
  <1>19. ASSUME NEW c \in Calls, DropPoint(c), UNCHANGED req PROVE Kept'
    BY <1>19 DEF DropPoint, Goto, Gone, RefusalsWriteNothing, KindPhase, LinkPhase, MarkPhase,
           Refutes, RefuteKinds, Kind, Reason, stores, ghosts
  <1>20. ASSUME NEW c \in Calls, Supersede(c), UNCHANGED req PROVE Kept'
    BY <1>20 DEF Supersede, Done, RefusalsWriteNothing, KindPhase, LinkPhase, MarkPhase, Refutes,
           RefuteKinds, Kind, Reason, stores, ghosts
  <1>21. ASSUME NEW c \in Calls, Guard(c), UNCHANGED req PROVE Kept'
    BY <1>21 DEF Guard, Goto, Done, RefusalsWriteNothing, KindPhase, LinkPhase, MarkPhase, Refutes,
           RefuteKinds, Kind, Reason, stores, ghosts
  <1>22. ASSUME NEW c \in Calls, ReadFails(c), UNCHANGED req PROVE Kept'
    BY <1>22 DEF ReadFails, LinkAnswer, Goto, Done, Trouble, RefusalsWriteNothing, KindPhase,
           LinkPhase, MarkPhase, Refutes, RefuteKinds, Kind, Reason, stores, ghosts
  <1>23. ASSUME NEW c \in Calls, InsertFails(c), UNCHANGED req PROVE Kept'
    BY <1>23 DEF InsertFails, Fresh, Gone, Done, Trouble, RefusalsWriteNothing, KindPhase,
           LinkPhase, MarkPhase, Refutes, RefuteKinds, Kind, Reason, stores, ghosts
  <1>24. ASSUME NEW c \in Calls, NodeFails(c), UNCHANGED req PROVE Kept'
    BY <1>24 DEF NodeFails, Goto, Done, Trouble, RefusalsWriteNothing, KindPhase, Refutes,
           RefuteKinds, Kind, stores, ghosts
  <1>25. ASSUME NEW c \in Calls, LinkFails(c), UNCHANGED req PROVE Kept'
    BY <1>25 DEF LinkFails, PutLink, Goto, Done, Trouble, RefusalsWriteNothing, KindPhase, Refutes,
           RefuteKinds, Kind
  <1>26. ASSUME NEW c \in Calls, MarkFails(c), UNCHANGED req PROVE Kept'
    BY <1>26 DEF MarkFails, PutMarker, Goto, Trouble, RefusalsWriteNothing, KindPhase, LinkPhase,
           MarkPhase, Refutes, RefuteKinds, Kind, Reason, stores, ghosts
  <1>27. ASSUME NEW c \in Calls, CutOff(c), UNCHANGED req PROVE Kept'
    BY <1>27 DEF CutOff, Done, Trouble, RefusalsWriteNothing, KindPhase, LinkPhase, MarkPhase,
           Refutes, RefuteKinds, Kind, Reason, stores, ghosts
  <1>28. ASSUME NEW c \in Calls, Retry(c), UNCHANGED req PROVE Kept'
    BY <1>28 DEF Retry, Unfinished, RefusalsWriteNothing, KindPhase, LinkPhase, MarkPhase, Refutes,
           RefuteKinds, Kind, Reason, stores, ghosts
  <1>29. QED
    BY <1>1, <1>2, <1>3, <1>4, <1>5, <1>6, <1>7, <1>8, <1>9, <1>10, <1>11, <1>12, <1>13, <1>14,
           <1>15, <1>16, <1>17, <1>18, <1>19, <1>20, <1>21, <1>22, <1>23, <1>24, <1>25, <1>26,
           <1>27, <1>28 DEF Next, Along, Step, Request, Fault


\* A memory that is gone has no marker.
LEMMA GoneUnmarked == ASSUME NEW m, ~There(m) PROVE ~Superseded(m) /\ ~Live(m)
  BY DEF There, Superseded, Live, Gone

NoStore == \A c \in Calls : Kind(c) = "store" => Target(c) # Wrong

\* Only a store makes the wrong memory again, and only a delete unmakes it.
LEMMA ThereOrGone ==
  ASSUME RefuteInv, [Next]_vars, NoStore
  PROVE  /\ ~There(Wrong) => ~There(Wrong)'
         /\ There(Wrong) /\ ~There(Wrong)' =>
              \E c \in Calls : DropPoint(c) /\ Target(c) = Wrong
  <1> USE Apart, Requests DEF RefuteInv, TypeOK, StoreTypes, There
  <1>1. CASE UNCHANGED point
    BY <1>1
  <1>2. ASSUME NEW c \in Calls, Insert(c) \/ InsertFails(c)
        PROVE  point'[Wrong] = point[Wrong]
    BY <1>2 DEF Insert, InsertFails
  <1>3. ASSUME NEW c \in Calls, Store(c) PROVE point'[Wrong] = point[Wrong]
    <2>1. Target(c) # Wrong
      BY <1>3 DEF Store, NoStore
    <2>2. QED
      BY <1>3, <2>1 DEF Store
  <1>4. ASSUME NEW c \in Calls, Mark(c) \/ MarkFails(c) \/ Supersede(c)
        PROVE  There(Wrong)' <=> There(Wrong)
    <2>1. CASE UNCHANGED point
      BY <2>1
    <2>2. CASE PutMarker(c)
      <3>1. There(Wrong) /\ point'[Wrong].by = Correction
        BY <2>2 DEF PutMarker, Live, Points
      <3>2. QED
        BY <3>1 DEF Gone
    <2>3. CASE There(Target(c)) /\ point' = [point EXCEPT ![Target(c)].by = Other,
                                                         ![Target(c)].why = Reason(c)]
      <3>1. CASE Target(c) = Wrong
        <4>1. point'[Wrong].by = Other
          BY <2>3, <3>1 DEF Points
        <4>2. QED
          BY <2>3, <3>1, <4>1 DEF Gone
      <3>2. CASE Target(c) # Wrong
        BY <2>3, <3>2
      <3>3. QED
        BY <3>1, <3>2
    <2>4. QED
      BY <1>4, <2>1, <2>2, <2>3 DEF Mark, MarkFails, Supersede
  <1>5. ASSUME NEW c \in Calls, DropPoint(c)
        PROVE  \/ Target(c) = Wrong /\ ~There(Wrong)'
               \/ Target(c) # Wrong /\ point'[Wrong] = point[Wrong]
    BY <1>5 DEF DropPoint
  <1>6. ASSUME NEW c \in Calls, Step(c), ~Insert(c), ~Mark(c) PROVE UNCHANGED point
    BY <1>6 DEF Step, ReadBoth, Confirm, Reread, StoreNode, Detect, Check, CheckWrong,
                EnsureWrong, EnsureCorrection, Link, Recheck, Remark, DropNode, Unlink, stores
  <1>7. ASSUME NEW c \in Calls, Guard(c) \/ Retry(c) \/ (Fault(c) /\ ~InsertFails(c) /\ ~MarkFails(c))
        PROVE  UNCHANGED point
    BY <1>7 DEF Guard, Retry, Fault, ReadFails, NodeFails, LinkFails, CutOff, stores
  <1>8. UNCHANGED vars => UNCHANGED point
    BY DEF vars, stores
  <1>9. QED
    BY <1>1, <1>2, <1>3, <1>4, <1>5, <1>6, <1>7, <1>8 DEF Next, Request, Fault

\* Without a failure, no refute of a memory that is gone comes to a success.
LEMMA NoNewSuccess ==
  ASSUME RefuteInv, [Next]_vars, ~There(Wrong), faults' = 0, NEW d \in Refutes, NoSuccess(d)
  PROVE  NoSuccess(d)'
  <1> USE Apart, Requests, GoneUnmarked DEF RefuteInv, TypeOK, CallTypes, NoSuccess
  <1>1. CASE UNCHANGED told
    BY <1>1
  <1>2. ASSUME NEW c \in Calls,
               NEW r, Done(c, r), c \in Refutes => r \notin {"contradicts", "superseded"}
        PROVE  NoSuccess(d)'
    BY <1>2 DEF Done
  <1>3. ASSUME NEW c \in Calls, Fault(c) PROVE FALSE
    BY <1>3 DEF Fault, ReadFails, InsertFails, NodeFails, LinkFails, MarkFails, CutOff, Trouble
  <1>4. ASSUME NEW c \in Calls, Request(c) PROVE NoSuccess(d)'
    BY <1>1, <1>2, <1>4 DEF Request, Store, DropPoint, Supersede, Guard, Goto, Refutes,
                            RefuteKinds
  <1>5. ASSUME NEW c \in Calls, Retry(c) PROVE NoSuccess(d)'
    BY <1>5 DEF Retry
  <1>6. ASSUME NEW c \in Calls, ReadBoth(c) \/ Insert(c) \/ Confirm(c) \/ Reread(c)
        PROVE  NoSuccess(d)'
    BY <1>1, <1>2, <1>6 DEF ReadBoth, UseExisting, Insert, Confirm, Reread, Goto
  <1>7. ASSUME NEW c \in Calls, StoreNode(c) \/ Detect(c) \/ Check(c) \/ CheckWrong(c)
                                 \/ EnsureWrong(c) \/ EnsureCorrection(c) \/ Link(c)
        PROVE  NoSuccess(d)'
    BY <1>1, <1>2, <1>7 DEF StoreNode, Detect, Check, CheckWrong, EnsureWrong,
                            EnsureCorrection, Link, Goto
  <1>8. ASSUME NEW c \in Calls, Recheck(c) \/ Mark(c) \/ Remark(c) PROVE Done(c, "partial")
    BY <1>8 DEF Recheck, Mark, PutMarker, Remark
  <1>9. ASSUME NEW c \in Calls, DropNode(c) \/ Unlink(c) PROVE Done(c, "deleted")
    BY <1>9 DEF DropNode, Unlink
  <1>10. QED
    BY <1>1, <1>2, <1>3, <1>4, <1>5, <1>6, <1>7, <1>8, <1>9
    DEF Next, Step, vars, calls

\* A refute that puts a node back does it for a memory that is gone.
LEMMA NextRaised ==
  ASSUME RefuteInv, [Next]_vars
  PROVE  /\ raised \subseteq raised' /\ raised' \subseteq Calls
         /\ \A c \in raised' \ raised :
              /\ c \in Refutes /\ ~There(Wrong)
              /\ NoSuccess(c)
  <1>1. CASE UNCHANGED vars
    BY <1>1 DEF vars, RefuteInv, TypeOK
  <1>2. CASE Raise
    <2>1. \A c \in Calls : pc[c] = "ensureWrong" => c \in Refutes /\ told[c] = "none"
      BY DEF RefuteInv, RefutePhases, RefutePhase, KindPhase
    <2>2. QED
      BY <1>2, <2>1 DEF Raise, RefuteInv, TypeOK, NoSuccess
  <1>3. QED
    BY <1>1, <1>2 DEF Next, Along

\* A stray node keeps a cause.
Pending == \E c \in Calls : pc[c] = "dropNode" /\ Target(c) = Wrong
LEMMA NextCause ==
  ASSUME RefuteInv, [Next]_vars, NoStore, faults' = 0, Stray',
         Stray => Pending \/ raised # {}
  PROVE  Pending' \/ raised' # {}
  <1> USE Apart, Requests DEF RefuteInv, TypeOK, StoreTypes, CallTypes
  <1>0. UNCHANGED req /\ raised \subseteq raised' /\ (There(Wrong)' <=> point'[Wrong] # Gone)
    BY NextRaised DEF Next, Along, vars, There
  <1>1. ASSUME NEW c \in Calls, DropPoint(c), Target(c) = Wrong PROVE Pending'
    BY <1>0, <1>1 DEF DropPoint, Goto, Pending, Target
  <1>2. CASE There(Wrong)
    BY <1>1, <1>2, ThereOrGone DEF Stray
  <1>3. ASSUME ~There(Wrong), Wrong \notin nodes PROVE raised' # {}
    <2>1. PICK c \in Calls : pc[c] = "ensureWrong" /\ pc'[c] # pc[c]
      <3>1. ASSUME NEW c \in Calls, Fault(c) PROVE FALSE
        BY <3>1 DEF Fault, ReadFails, InsertFails, NodeFails, LinkFails, MarkFails, CutOff, Trouble
      <3>2. ASSUME NEW c \in Calls, StoreNode(c) PROVE Wrong \notin nodes'
        <4>1. Stored(c) # Wrong
          BY DEF Stored, NoStore
        <4>2. QED
          BY <1>3, <3>2, <4>1 DEF StoreNode
      <3>3. ASSUME NEW c \in Calls, EnsureWrong(c) PROVE pc[c] = "ensureWrong" /\ pc'[c] # pc[c]
        BY <3>3 DEF EnsureWrong, Goto
      <3>4. ASSUME NEW c \in Calls, EnsureCorrection(c) \/ DropNode(c) PROVE Wrong \notin nodes'
        BY <1>3, <3>4 DEF EnsureCorrection, DropNode
      <3>5. ASSUME NEW c \in Calls, Step(c), ~StoreNode(c), ~EnsureWrong(c), ~EnsureCorrection(c),
                   ~DropNode(c)
            PROVE  UNCHANGED nodes
        BY <3>5 DEF Step, ReadBoth, Insert, Confirm, Reread, Detect, Check, CheckWrong, Link,
                    Recheck, Mark, Remark, Unlink, stores
      <3>6. ASSUME NEW c \in Calls, Request(c) \/ Retry(c) PROVE UNCHANGED nodes
        BY <3>6 DEF Request, Store, DropPoint, Supersede, Guard, Retry, stores
      <3>7. Wrong \in nodes' /\ (UNCHANGED vars => UNCHANGED nodes)
        BY DEF Stray, vars, stores
      <3>8. QED
        BY <1>3, <3>1, <3>2, <3>3, <3>4, <3>5, <3>6, <3>7 DEF Next
    <2>2. Raise
      BY <2>1 DEF Next, Along, vars, calls
    <2>3. c \in raised'
      BY <1>3, <2>1, <2>2 DEF Raise, Stray
    <2>4. QED
      BY <2>3
  <1>4. CASE Stray
    <2>1. CASE raised # {}
      BY <1>0, <2>1
    <2>2. ASSUME NEW e \in Calls, pc[e] = "dropNode", Target(e) = Wrong PROVE Pending'
      <3>1. CASE DropNode(e)
        BY <2>2, <3>1 DEF DropNode, Stray
      <3>2. CASE ~DropNode(e)
        <4>1. Kind(e) = "delete"
          BY <2>2 DEF RefutePhases, RefutePhase, KindPhase
        <4>2. pc'[e] = pc[e]
          <5>1. ASSUME NEW c \in Calls, Fault(c) PROVE FALSE
            BY <5>1 DEF Fault, ReadFails, InsertFails, NodeFails, LinkFails, MarkFails, CutOff,
                   Trouble
          <5>2. ASSUME NEW c \in Calls, NEW l, Goto(c, l) \/ Done(c, l), c # e
                PROVE  pc'[e] = pc[e]
            BY <5>2 DEF Goto, Done
          <5>3. ASSUME NEW c \in Calls, Step(c) \/ Request(c)
                PROVE  (\E l : Goto(c, l) \/ Done(c, l)) /\ (c = e => DropNode(e))
            <6>1. c = e => DropNode(e)
              BY <2>2, <5>3 DEF Step, Request, ReadBoth, Insert, Confirm, Reread, StoreNode, Detect,
                 Check, CheckWrong, EnsureWrong, EnsureCorrection, Link, Recheck, Mark, Remark, Unlink,
                 Store, DropPoint, Supersede, Guard
            <6>2. \E l : Goto(c, l) \/ Done(c, l)
              <7>1. CASE ReadBoth(c) \/ Insert(c) \/ Confirm(c) \/ Reread(c)
                BY <7>1 DEF ReadBoth, UseExisting, Insert, Confirm, Reread
              <7>2. CASE StoreNode(c) \/ Detect(c) \/ Check(c) \/ CheckWrong(c) \/ EnsureWrong(c)
                         \/ EnsureCorrection(c) \/ Link(c)
                BY <7>2 DEF StoreNode, Detect, Check, CheckWrong, EnsureWrong, EnsureCorrection,
                       Link
              <7>3. CASE Recheck(c) \/ Mark(c) \/ Remark(c) \/ DropNode(c) \/ Unlink(c)
                BY <7>3 DEF Recheck, Mark, Remark, DropNode, Unlink
              <7>4. CASE Request(c)
                BY <7>4 DEF Request, Store, DropPoint, Supersede, Guard
              <7>5. QED
                BY <5>3, <7>1, <7>2, <7>3, <7>4 DEF Step
            <6>3. QED
              BY <6>1, <6>2
          <5>4. ASSUME NEW c \in Calls, Retry(c) PROVE c # e /\ pc'[e] = pc[e]
            BY <4>1, <5>4 DEF Retry, RefuteKinds
          <5>5. QED
            BY <3>2, <5>1, <5>2, <5>3, <5>4 DEF Next, vars, calls
        <4>3. QED
          BY <1>0, <2>2, <4>2 DEF Pending, Target
      <3>3. QED
        BY <3>1, <3>2
    <2>3. QED
      BY <1>4, <2>1, <2>2 DEF Pending
  <1>5. QED
    BY <1>2, <1>3, <1>4 DEF Stray

LEMMA NextStray ==
  ASSUME RefuteInv, [Next]_vars PROVE StrayHasCause'
  <1> SUFFICES ASSUME Calm' PROVE /\ Stray' => Pending' \/ raised' # {}
                                  /\ \A c \in raised' : c \in Refutes /\ ~There(Wrong)' /\ NoSuccess(c)'
    <2>1. Refutes' = Refutes
      BY SameWorkload DEF Next, Along, vars
    <2>2. QED
      BY <2>1 DEF StrayHasCause, Pending, NoSuccess
  <1>1. faults' = 0 /\ UNCHANGED req
    BY DEF Calm, Next, Along, vars
  <1>2. NoStore
    BY <1>1 DEF Calm, NoStore, Kind, Target
  <1>3. faults = 0
    <2>1. faults \in Nat
      BY Apart DEF RefuteInv, TypeOK, CallTypes
    <2>2. faults' = faults \/ faults' = faults + 1
      BY DEF Next, vars, ghosts, Step, Request, Fault, ReadBoth, Insert, Confirm, Reread, StoreNode,
         Detect, Check, CheckWrong, EnsureWrong, EnsureCorrection, Link, Recheck, Mark, Remark,
         DropNode, Unlink, Store, DropPoint, Supersede, Guard, ReadFails, InsertFails, NodeFails,
         LinkFails, MarkFails, CutOff, Retry, Trouble
    <2>3. QED
      BY <1>1, <2>1, <2>2
  <1>4. StrayHasCause /\ Calm
    BY <1>2, <1>3 DEF RefuteInv, Calm, NoStore
  <1>5. Stray' => Pending' \/ raised' # {}
    BY <1>1, <1>2, <1>4, NextCause DEF StrayHasCause, Pending
  <1>6. \A c \in raised' : c \in Refutes /\ ~There(Wrong) /\ NoSuccess(c)
    BY <1>4, NextRaised DEF StrayHasCause
  <1>7. \A c \in raised' : c \in Refutes /\ ~There(Wrong)' /\ NoSuccess(c)'
    BY <1>1, <1>2, <1>6, ThereOrGone, NoNewSuccess
  <1>8. QED
    BY <1>5, <1>7


\* RefuteInv is inductive.
LEMMA NextInv == RefuteInv /\ [Next]_vars => RefuteInv'
  <1> SUFFICES ASSUME RefuteInv, [Next]_vars PROVE RefuteInv'
    OBVIOUS
  <1>1. TypeOK'
    BY NextCalls, NextStores, NextRaised DEF TypeOK
  <1>2. RefutePhases'
    BY NextKindPhase, NextLinkPhase, NextMarkPhase DEF RefutePhases, RefutePhase
  <1>3. Refutes' = Refutes
    BY SameWorkload DEF Next, Along, vars
  <1>4. AnswersStand'
    BY <1>3, NextContradicts, NextSuperseded DEF AnswersStand
  <1>5. RefusalsWriteNothing'
    BY <1>3, NextRefusals DEF RefusalsWriteNothing
  <1>6. StrayHasCause'
    BY NextStray
  <1>7. QED
    BY <1>1, <1>2, <1>4, <1>5, <1>6 DEF RefuteInv

\* The invariant of the refute holds in every reachable state.
THEOREM InvariantHolds == Spec => []RefuteInv
  <1>1. QED
    BY InitInv, NextInv, PTL DEF Spec

\* A success that was answered stays true of the stores until somebody deletes
\* or supersedes over it: refute_finish's "contradicts" and "superseded".
THEOREM AnsweredStands == Spec => []AnswersStand
  <1>1. RefuteInv => AnswersStand
    BY DEF RefuteInv
  <1>2. QED
    BY <1>1, InvariantHolds, PTL

\* A refusal says that its attempt wrote neither a marker nor a reason.
THEOREM RefusedWroteNothing == Spec => []RefusalsWriteNothing
  <1>1. RefuteInv => RefusalsWriteNothing
    BY DEF RefuteInv
  <1>2. QED
    BY <1>1, InvariantHolds, PTL

\* Where nothing failed and nobody stores the wrong memory again, the node of
\* the deleted memory that is left was put back by refutes, and none of those
\* ever reports a success: wrong_gone's second read.
THEOREM StrayTold == Spec => []StrayIsTold
  <1>1. RefuteInv => StrayIsTold
    BY DEF RefuteInv, StrayHasCause, StrayIsTold, Quiet, Calm
  <1>2. QED
    BY <1>1, InvariantHolds, PTL

=============================================================================
