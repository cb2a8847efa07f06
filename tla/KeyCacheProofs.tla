--------------------------- MODULE KeyCacheProofs ---------------------------
(***************************************************************************)
(* Theorems about KeyCache, for any calls, keys, cooldowns and timeout     *)
(* that its assumption allows: KeyInv is inductive, and what the cooldowns *)
(* promise follows from it.                                                *)
(***************************************************************************)
EXTENDS KeyCache, TLAPS

\* The cooldowns and the constants apart.
LEMMA Constants ==
  /\ Cooldown["doc"] = DiscoveryCooldown /\ Cooldown["keys"] = JwksCooldown
  /\ FetchMax \in Nat /\ JwksCooldown \in Nat /\ DiscoveryCooldown \in Nat
  /\ FetchMax < DiscoveryCooldown /\ DiscoveryCooldown < JwksCooldown
  /\ MaxFaults \in Nat /\ Horizon \in Nat /\ None \notin Calls /\ Login \notin Kids
  /\ Cooled \in Int /\ Cooled <= 0 /\ Cooled = -(2 * JwksCooldown)
  BY KeyCacheAssumption DEF Cooldown, Kinds, Cooled

\* The types a step needs to follow a gate, a clock or a call.
LEMMA Types ==
  TypeOK =>
    /\ gate \in [Kinds -> Calls \cup {None}] /\ armed \in [Kinds -> Int]
    /\ begun \in [Kinds -> Int] /\ began \in [Calls -> Int] /\ now \in Int /\ calm \in Int
    /\ pc \in [Calls -> Places] /\ told \in [Calls -> Answers] /\ fetches \subseteq Fetch
    /\ calm <= now /\ \A c \in Calls : began[c] <= now
    /\ \A k \in Kinds : begun[k] <= now
  BY Constants DEF TypeOK

\* The fields of a fetch.
LEMMA Fields ==
  ASSUME TypeOK, NEW f \in fetches
  PROVE  /\ f \in Fetch /\ f.kind \in Kinds /\ f.by \in Calls /\ f.by # None
         /\ f.at \in Int /\ f.reply \in Replies /\ f.found \subseteq Kids
  BY Types, Constants DEF Fetch

\* A fetch that starts is there, pending, with its gate and time.
LEMMA StartEffect ==
  ASSUME TypeOK, NEW k \in Kinds, NEW c \in Calls, Start(k, c)
  PROVE  /\ \E n \in Fetch :
              /\ n.kind = k /\ n.by = c /\ n.at = now /\ n.reply = "pending"
              /\ fetches' = fetches \cup {n}
         /\ gate' = [gate EXCEPT ![k] = c]
         /\ armed' = [armed EXCEPT ![k] = now] /\ begun' = [begun EXCEPT ![k] = now]
  <1> DEFINE n == [kind |-> k, by |-> c, at |-> now, reply |-> "pending", found |-> {}]
  <1>1. n \in Fetch
    BY DEF Fetch, Replies, TypeOK
  <1>2. QED
    BY <1>1 DEF Start, Started

\* A fetch that hears back is the same fetch with an answer.
LEMMA ReplyEffect ==
  ASSUME TypeOK, NEW f \in fetches, Respond(f)
  PROVE  \E n \in Fetch :
           /\ n.kind = f.kind /\ n.by = f.by /\ n.at = f.at
           /\ fetches' = (fetches \ {f}) \cup {n}
           /\ \/ up /\ n.reply = "ok" /\ n.found = published
              \/ (~up \/ f.at <= calm) /\ n.reply = "failed"
  <1>1. f \in Fetch /\ published \in SUBSET Kids
    BY Fields DEF TypeOK
  <1>2. ASSUME NEW r \in Replies, NEW s \in SUBSET Kids, Reply(f, r, s)
        PROVE  \E n \in Fetch :
                 /\ n.kind = f.kind /\ n.by = f.by /\ n.at = f.at
                 /\ n.reply = r /\ n.found = s /\ fetches' = (fetches \ {f}) \cup {n}
    <2> DEFINE n == [f EXCEPT !.reply = r, !.found = s]
    <2>1. n \in Fetch /\ n.kind = f.kind /\ n.by = f.by /\ n.at = f.at /\ n.reply = r /\ n.found = s
      BY <1>1 DEF Fetch
    <2>2. QED
      BY <1>2, <2>1 DEF Reply
  <1>3. CASE up /\ Reply(f, "ok", published)
    BY <1>1, <1>2, <1>3 DEF Replies
  <1>4. CASE (~up \/ f.at <= calm) /\ Reply(f, "failed", {})
    BY <1>2, <1>4 DEF Replies
  <1>5. QED
    BY <1>3, <1>4 DEF Respond

\* Going on and answering move one call.
LEMMA Moves ==
  ASSUME TypeOK, NEW c \in Calls
  PROVE  /\ \A l : Goto(c, l) => /\ pc' = [pc EXCEPT ![c] = l] /\ pc'[c] = l
                                 /\ told' = told /\ \A d \in Calls : d # c => pc'[d] = pc[d]
         /\ \A r : Done(c, r) => /\ pc'[c] = "done" /\ told'[c] = r
                                 /\ \A d \in Calls : d # c => pc'[d] = pc[d] /\ told'[d] = told[d]
  BY Types DEF Goto, Done

\* The gate a call held itself falls with it.
LEMMA Fallen ==
  ASSUME TypeOK, NEW c \in Calls
  PROVE  /\ Without(c) \in [Kinds -> Calls \cup {None}]
         /\ Without(c)["doc"] = gate["doc"]
         /\ gate["keys"] = c => Without(c)["keys"] = None
         /\ gate["keys"] # c => Without(c)["keys"] = gate["keys"]
  BY Types DEF Without, Kinds

\* An open gate has no fetch behind it.
LEMMA NoFlight ==
  ASSUME TypeOK, FlightsOK, NEW k \in Kinds, gate[k] = None
  PROVE  ~Flying(k)
  BY Fields DEF FlightsOK, Flying

\* The invariant holds at the start.
LEMMA InitInv == Init => KeyInv
  <1> SUFFICES ASSUME Init PROVE KeyInv
    OBVIOUS
  <1>1. TypeOK
    <2>1. /\ now = 0 /\ armed \in [Kinds -> Cooled .. 0] /\ begun \in [Kinds -> Cooled .. 0]
          /\ began \in [Calls -> 0 .. 0] /\ now \in 0 .. Horizon /\ faults \in 0 .. MaxFaults
      BY Constants DEF Init
    <2>2. gate \in [Kinds -> Calls \cup {None}] /\ pc \in [Calls -> Places] /\ told \in [Calls -> Answers]
      BY DEF Init, Places, Answers
    <2>3. up \in BOOLEAN /\ doc \in BOOLEAN
      BY DEF Init
    <2>4. published \subseteq Kids /\ keys \subseteq Kids
      BY DEF Init
    <2>5. calm \in 0 .. now
      BY <2>1 DEF Init
    <2>6. QED
      BY <2>1, <2>2, <2>3, <2>4, <2>5 DEF Init, TypeOK
  <1>2. FlightsOK /\ GatesOK
    BY DEF Init, FlightsOK, GatesOK, Flying, Holding, Kinds
  <1>3. CallsOK
    BY DEF Init, CallsOK, Awaits
  <1>4. Fresh /\ Waits
    BY Constants DEF Init, Fresh, Waits, Kinds
  <1>5. QED
    BY <1>1, <1>2, <1>3, <1>4 DEF KeyInv

\* Every step keeps one fetch of a kind, with its gate and its time.
LEMMA NextFlights == TypeOK /\ FlightsOK /\ GatesOK /\ CallsOK /\ [Next]_vars => FlightsOK'
  <1> SUFFICES ASSUME TypeOK /\ FlightsOK /\ GatesOK /\ CallsOK, [Next]_vars PROVE FlightsOK'
    OBVIOUS
  <1> USE Types
  <1>1. CASE UNCHANGED vars
    BY <1>1 DEF FlightsOK, Flying, vars, idp, cache, gates, calls
  <1>2. ASSUME NEW c \in Calls, Call(c) PROVE FlightsOK'
    BY <1>2 DEF Call, Done, Goto, FlightsOK, Flying, idp, cache, gates, calls
  <1>3. ASSUME NEW c \in Calls, EnterKeys(c) PROVE FlightsOK'
    BY <1>3, NoFlight, Fields DEF EnterKeys, Goto, FlightsOK, Flying, idp, cache, Kinds
  <1>4. ASSUME NEW c \in Calls, LeaveKeys(c) PROVE FlightsOK'
    BY <1>4 DEF LeaveKeys, Done, FlightsOK, Flying, idp, cache, gates, calls
  <1>5. ASSUME NEW c \in Calls, ServeDoc(c) PROVE FlightsOK'
    BY <1>5 DEF ServeDoc, Done, FlightsOK, Flying, idp, cache, gates, calls
  <1>6. ASSUME NEW c \in Calls, FetchDoc(c) PROVE FlightsOK'
    <2>1. Start("doc", c) /\ "doc" \in Kinds
      BY <1>6 DEF FetchDoc, Kinds
    <2>2. PICK n \in Fetch : /\ n.kind = "doc" /\ n.by = c /\ n.at = now /\ n.reply = "pending"
                            /\ fetches' = fetches \cup {n}
      BY <2>1, StartEffect
    <2>3. QED
      BY <1>6, <2>1, <2>2, StartEffect, NoFlight, Fields, Constants DEF FetchDoc, FlightsOK,
             Flying, idp, cache, Kinds
  <1>7. ASSUME NEW c \in Calls, RefuseDoc(c) PROVE FlightsOK'
    BY <1>7 DEF RefuseDoc, Without, Done, FlightsOK, Flying, idp, cache, gates, calls
  <1>8. ASSUME NEW c \in Calls, FetchKeys(c) PROVE FlightsOK'
    <2>1. Start("keys", c) /\ "keys" \in Kinds
      BY <1>8 DEF FetchKeys, Kinds
    <2>2. PICK n \in Fetch : /\ n.kind = "keys" /\ n.by = c /\ n.at = now /\ n.reply = "pending"
                            /\ fetches' = fetches \cup {n}
      BY <2>1, StartEffect
    <2>3. QED
      BY <1>8, <2>1, <2>2, StartEffect, NoFlight, Fields, Constants DEF FetchKeys, FlightsOK,
             GatesOK, Holding, Flying, idp, cache, Kinds
  <1>9. ASSUME NEW c \in Calls, HangUp(c) PROVE FlightsOK'
    BY <1>9, Fields DEF HangUp, Without, FlightsOK, GatesOK, CallsOK, Awaits, Holding, Flying, idp,
           cache, Places, Kinds
  <1>10. ASSUME NEW f \in fetches, Respond(f) PROVE FlightsOK'
    <2>1. PICK n \in Fetch :
            /\ n.kind = f.kind /\ n.by = f.by /\ n.at = f.at
            /\ fetches' = (fetches \ {f}) \cup {n}
            /\ \/ up /\ n.reply = "ok" /\ n.found = published
               \/ (~up \/ f.at <= calm) /\ n.reply = "failed"
      BY <1>10, ReplyEffect
    <2>2. QED
      BY <1>10, <2>1, Fields DEF Respond, FlightsOK, Flying, cache, Kinds
  <1>11. ASSUME NEW f \in fetches, LandDoc(f) PROVE FlightsOK'
    <2>1. \A g \in fetches' : g \in fetches /\ g.kind = "keys"
      BY <1>11, Fields DEF LandDoc, FlightsOK, Kinds
    <2>2. \A g \in fetches' : gate'["keys"] = g.by
      BY <1>11, <2>1, Fields, Fallen DEF LandDoc, FlightsOK, CallsOK, Awaits, Kinds
    <2>3. QED
      BY <1>11, <2>1, <2>2 DEF LandDoc, FlightsOK, Flying, idp
  <1>12. ASSUME NEW f \in fetches, LandKeys(f) PROVE FlightsOK'
    BY <1>12 DEF LandKeys, KeyAnswer, Done, FlightsOK, Flying, idp, cache, gates, calls
  <1>13. CASE Fault
    BY <1>13 DEF Fault, Outage, Recover, Rotate, FlightsOK, Flying, idp, cache, gates, calls
  <1>14. CASE Tick
    BY <1>14, Fields, Constants DEF Tick, FlightsOK, Flying, idp, cache, gates, Kinds
  <1>15. QED
    BY <1>1, <1>2, <1>3, <1>4, <1>5, <1>6, <1>7, <1>8, <1>9, <1>10, <1>11, <1>12, <1>13, <1>14 DEF
           Next, Step

\* Every step keeps each gate with somebody who will let go of it.
LEMMA NextGates == TypeOK /\ FlightsOK /\ GatesOK /\ CallsOK /\ [Next]_vars => GatesOK'
  <1> SUFFICES ASSUME TypeOK /\ FlightsOK /\ GatesOK /\ CallsOK, [Next]_vars PROVE GatesOK'
    OBVIOUS
  <1> USE Types
  <1>1. CASE UNCHANGED vars
    BY <1>1 DEF GatesOK, Holding, Flying, Cooling, vars, gates, calls
  <1>2. ASSUME NEW c \in Calls, Call(c) PROVE GatesOK'
    BY <1>2, Moves, Constants DEF Call, GatesOK, Holding, Flying, Cooling, Kinds, cache, gates, idp
  <1>3. ASSUME NEW c \in Calls, EnterKeys(c) PROVE GatesOK'
    BY <1>3, Moves, NoFlight, Constants DEF EnterKeys, CallsOK, GatesOK, Holding, Flying, Cooling,
           Kinds
  <1>4. ASSUME NEW c \in Calls, LeaveKeys(c) PROVE GatesOK'
    BY <1>4, Moves, Constants DEF LeaveKeys, GatesOK, Holding, Flying, Cooling, Kinds, gates
  <1>5. ASSUME NEW c \in Calls, ServeDoc(c) PROVE GatesOK'
    BY <1>5, Moves, Constants DEF ServeDoc, GatesOK, Holding, Flying, Cooling, Kinds, gates
  <1>6. ASSUME NEW c \in Calls, FetchDoc(c) PROVE GatesOK'
    <2>1. Start("doc", c) /\ "doc" \in Kinds
      BY <1>6 DEF FetchDoc, Kinds
    <2>2. PICK n \in Fetch : /\ n.kind = "doc" /\ n.by = c /\ n.at = now /\ n.reply = "pending"
                            /\ fetches' = fetches \cup {n}
      BY <2>1, StartEffect
    <2>3. QED
      BY <1>6, <2>1, <2>2, StartEffect, NoFlight, Fields, Constants, Moves DEF FetchDoc, GatesOK,
             Holding, Flying, Cooling, Kinds
  <1>7. ASSUME NEW c \in Calls, RefuseDoc(c) PROVE GatesOK'
    BY <1>7, Moves, Fallen, Constants DEF RefuseDoc, GatesOK, Holding, Flying, Cooling, Kinds
  <1>8. ASSUME NEW c \in Calls, FetchKeys(c) PROVE GatesOK'
    <2>1. Start("keys", c) /\ "keys" \in Kinds
      BY <1>8 DEF FetchKeys, Kinds
    <2>2. PICK n \in Fetch : /\ n.kind = "keys" /\ n.by = c /\ n.at = now /\ n.reply = "pending"
                            /\ fetches' = fetches \cup {n}
      BY <2>1, StartEffect
    <2>3. QED
      BY <1>8, <2>1, <2>2, StartEffect, NoFlight, Fields, Constants, Moves DEF FetchKeys, GatesOK,
             Holding, Flying, Cooling, Kinds
  <1>9. ASSUME NEW c \in Calls, HangUp(c) PROVE GatesOK'
    BY <1>9, Moves, Fallen, Constants DEF HangUp, CallsOK, Awaits, GatesOK, Holding, Flying,
           Cooling, Kinds
  <1>10. ASSUME NEW f \in fetches, Respond(f) PROVE GatesOK'
    <2>1. PICK n \in Fetch :
            /\ n.kind = f.kind /\ n.by = f.by /\ n.at = f.at
            /\ fetches' = (fetches \ {f}) \cup {n}
            /\ \/ up /\ n.reply = "ok" /\ n.found = published
               \/ (~up \/ f.at <= calm) /\ n.reply = "failed"
      BY <1>10, ReplyEffect
    <2>2. QED
      BY <1>10, <2>1, Fields DEF Respond, GatesOK, Holding, Flying, Cooling, cache, calls, Kinds
  <1>11. ASSUME NEW f \in fetches, LandDoc(f) PROVE GatesOK'
    BY <1>11, Moves, Fallen, Fields, Constants DEF LandDoc, CallsOK, Awaits, FlightsOK, GatesOK,
           Holding, Flying, Cooling, Kinds
  <1>12. ASSUME NEW f \in fetches, LandKeys(f) PROVE GatesOK'
    BY <1>12, Moves, Fields, Constants DEF LandKeys, CallsOK, Awaits, FlightsOK, GatesOK, Holding,
           Flying, Cooling, Kinds
  <1>13. CASE Fault
    BY <1>13 DEF Fault, GatesOK, Holding, Flying, Cooling, gates, calls
  <1>14. CASE Tick
    BY <1>14, Constants DEF Tick, GatesOK, Holding, Flying, Cooling, gates, calls, Kinds
  <1>15. QED
    BY <1>1, <1>2, <1>3, <1>4, <1>5, <1>6, <1>7, <1>8, <1>9, <1>10, <1>11, <1>12, <1>13, <1>14 DEF
           Next, Step

\* Every step keeps each waiting call with its own fetch.
LEMMA NextCalls == TypeOK /\ FlightsOK /\ CallsOK /\ [Next]_vars => CallsOK'
  <1> SUFFICES ASSUME TypeOK /\ FlightsOK /\ CallsOK, [Next]_vars PROVE CallsOK'
    OBVIOUS
  <1> USE Types
  <1>1. CASE UNCHANGED vars
    BY <1>1 DEF CallsOK, Awaits, vars, idp, cache, gates, calls
  <1>2. ASSUME NEW c \in Calls, Call(c) PROVE CallsOK'
    BY <1>2, Moves, Fields DEF Call, CallsOK, Awaits, Kinds, cache, gates, idp, Places
  <1>3. ASSUME NEW c \in Calls, EnterKeys(c) PROVE CallsOK'
    BY <1>3, Moves, Fields DEF EnterKeys, CallsOK, Awaits, Kinds, idp
  <1>4. ASSUME NEW c \in Calls, LeaveKeys(c) PROVE CallsOK'
    BY <1>4, Moves, Fields DEF LeaveKeys, CallsOK, Awaits, Kinds, gates
  <1>5. ASSUME NEW c \in Calls, ServeDoc(c) PROVE CallsOK'
    BY <1>5, Moves, Fields DEF ServeDoc, CallsOK, Awaits, Kinds, gates
  <1>6. ASSUME NEW c \in Calls, FetchDoc(c) PROVE CallsOK'
    <2>1. Start("doc", c) /\ "doc" \in Kinds
      BY <1>6 DEF FetchDoc, Kinds
    <2>2. PICK n \in Fetch : /\ n.kind = "doc" /\ n.by = c /\ n.at = now /\ n.reply = "pending"
                            /\ fetches' = fetches \cup {n}
      BY <2>1, StartEffect
    <2>3. QED
      BY <1>6, <2>1, <2>2, StartEffect, NoFlight, Fields, Constants, Moves DEF FetchDoc, CallsOK,
             Awaits, idp, cache, Kinds
  <1>7. ASSUME NEW c \in Calls, RefuseDoc(c) PROVE CallsOK'
    BY <1>7, Moves, Fields DEF RefuseDoc, CallsOK, Awaits, Kinds, idp
  <1>8. ASSUME NEW c \in Calls, FetchKeys(c) PROVE CallsOK'
    <2>1. Start("keys", c) /\ "keys" \in Kinds
      BY <1>8 DEF FetchKeys, Kinds
    <2>2. PICK n \in Fetch : /\ n.kind = "keys" /\ n.by = c /\ n.at = now /\ n.reply = "pending"
                            /\ fetches' = fetches \cup {n}
      BY <2>1, StartEffect
    <2>3. QED
      BY <1>8, <2>1, <2>2, StartEffect, NoFlight, Fields, Constants, Moves DEF FetchKeys, CallsOK,
             Awaits, idp, cache, Kinds
  <1>9. ASSUME NEW c \in Calls, HangUp(c) PROVE CallsOK'
    BY <1>9, Moves, Fields DEF HangUp, CallsOK, Awaits, Kinds, idp
  <1>10. ASSUME NEW f \in fetches, Respond(f) PROVE CallsOK'
    <2>1. PICK n \in Fetch :
            /\ n.kind = f.kind /\ n.by = f.by /\ n.at = f.at
            /\ fetches' = (fetches \ {f}) \cup {n}
            /\ \/ up /\ n.reply = "ok" /\ n.found = published
               \/ (~up \/ f.at <= calm) /\ n.reply = "failed"
      BY <1>10, ReplyEffect
    <2>2. QED
      BY <1>10, <2>1, Fields DEF Respond, CallsOK, Awaits, calls, Kinds
  <1>11. ASSUME NEW f \in fetches, LandDoc(f) PROVE CallsOK'
    BY <1>11, Moves, Fields DEF LandDoc, CallsOK, Awaits, Kinds, FlightsOK
  <1>12. ASSUME NEW f \in fetches, LandKeys(f) PROVE CallsOK'
    BY <1>12, Moves, Fields DEF LandKeys, CallsOK, Awaits, Kinds, FlightsOK
  <1>13. CASE Fault
    BY <1>13 DEF Fault, Outage, Recover, Rotate, CallsOK, Awaits, idp, cache, gates, calls
  <1>14. CASE Tick
    BY <1>14 DEF Tick, Ready, CallsOK, Awaits, idp, cache, gates, calls
  <1>15. QED
    BY <1>1, <1>2, <1>3, <1>4, <1>5, <1>6, <1>7, <1>8, <1>9, <1>10, <1>11, <1>12, <1>13, <1>14 DEF
           Next, Step

\* Every step keeps the caches as fresh as the fetches were.
LEMMA NextFresh == TypeOK /\ FlightsOK /\ Fresh /\ [Next]_vars => Fresh'
  <1> SUFFICES ASSUME TypeOK /\ FlightsOK /\ Fresh, [Next]_vars PROVE Fresh'
    OBVIOUS
  <1> USE Types
  <1>1. CASE UNCHANGED vars
    BY <1>1 DEF Fresh, Flying, vars, idp, cache, gates, calls
  <1>2. ASSUME NEW c \in Calls, Call(c) PROVE Fresh'
    BY <1>2 DEF Call, Done, Goto, Fresh, Flying, idp, cache, gates, calls
  <1>3. ASSUME NEW c \in Calls, EnterKeys(c) PROVE Fresh'
    BY <1>3 DEF EnterKeys, Goto, Fresh, Flying, idp, cache, gates, calls
  <1>4. ASSUME NEW c \in Calls, LeaveKeys(c) PROVE Fresh'
    BY <1>4 DEF LeaveKeys, Done, Fresh, Flying, idp, cache, gates, calls
  <1>5. ASSUME NEW c \in Calls, ServeDoc(c) PROVE Fresh'
    BY <1>5 DEF ServeDoc, Done, Fresh, Flying, idp, cache, gates, calls
  <1>6. ASSUME NEW c \in Calls, FetchDoc(c) PROVE Fresh'
    <2>1. Start("doc", c) /\ "doc" \in Kinds
      BY <1>6 DEF FetchDoc, Kinds
    <2>2. PICK n \in Fetch : /\ n.kind = "doc" /\ n.by = c /\ n.at = now /\ n.reply = "pending"
                            /\ fetches' = fetches \cup {n}
      BY <2>1, StartEffect
    <2>3. QED
      BY <1>6, <2>1, <2>2, StartEffect, NoFlight, Fields, Constants DEF FetchDoc, Fresh, Flying,
             idp, cache, Kinds
  <1>7. ASSUME NEW c \in Calls, RefuseDoc(c) PROVE Fresh'
    BY <1>7 DEF RefuseDoc, Without, Done, Fresh, Flying, idp, cache, gates, calls
  <1>8. ASSUME NEW c \in Calls, FetchKeys(c) PROVE Fresh'
    <2>1. Start("keys", c) /\ "keys" \in Kinds
      BY <1>8 DEF FetchKeys, Kinds
    <2>2. PICK n \in Fetch : /\ n.kind = "keys" /\ n.by = c /\ n.at = now /\ n.reply = "pending"
                            /\ fetches' = fetches \cup {n}
      BY <2>1, StartEffect
    <2>3. QED
      BY <1>8, <2>1, <2>2, StartEffect, NoFlight, Fields, Constants DEF FetchKeys, Fresh, Flying,
             idp, cache, Kinds
  <1>9. ASSUME NEW c \in Calls, HangUp(c) PROVE Fresh'
    BY <1>9 DEF HangUp, Without, Done, Fresh, Flying, idp, cache, gates, calls
  <1>10. ASSUME NEW f \in fetches, Respond(f) PROVE Fresh'
    <2>1. PICK n \in Fetch :
            /\ n.kind = f.kind /\ n.by = f.by /\ n.at = f.at
            /\ fetches' = (fetches \ {f}) \cup {n}
            /\ \/ up /\ n.reply = "ok" /\ n.found = published
               \/ (~up \/ f.at <= calm) /\ n.reply = "failed"
      BY <1>10, ReplyEffect
    <2>2. QED
      BY <1>10, <2>1, Fields DEF Respond, FlightsOK, Fresh, Flying, gates, cache, idp, Kinds
  <1>11. ASSUME NEW f \in fetches, LandDoc(f) PROVE Fresh'
    BY <1>11, Fields DEF LandDoc, FlightsOK, Fresh, Flying, idp, Kinds
  <1>12. ASSUME NEW f \in fetches, LandKeys(f) PROVE Fresh'
    BY <1>12, Fields DEF LandKeys, FlightsOK, Fresh, Flying, idp, Kinds
  <1>13. CASE Fault
    <2>1. CASE Outage
      BY <1>13, <2>1 DEF Fault, Outage, Fresh
    <2>2. ASSUME calm' = now, UNCHANGED <<fetches, begun>> PROVE Fresh'
      <3>1. \A g \in fetches' : ~(g.at > calm')
        BY <2>2, Fields DEF FlightsOK
      <3>2. ~(begun'["doc"] > calm') /\ ~(begun'["keys"] > calm')
        BY <2>2 DEF Kinds
      <3>3. QED
        BY <3>1, <3>2 DEF Fresh
    <2>3. QED
      BY <1>13, <2>1, <2>2 DEF Fault, Recover, Rotate, gates
  <1>14. CASE Tick
    BY <1>14 DEF Tick, Ready, Fresh, Flying, idp, cache, gates, calls
  <1>15. QED
    BY <1>1, <1>2, <1>3, <1>4, <1>5, <1>6, <1>7, <1>8, <1>9, <1>10, <1>11, <1>12, <1>13, <1>14 DEF
           Next, Step

\* Every step keeps the waits to a fetch of each kind.
LEMMA NextWaits == TypeOK /\ FlightsOK /\ GatesOK /\ CallsOK /\ Waits /\ [Next]_vars => Waits'
  <1> SUFFICES ASSUME TypeOK /\ FlightsOK /\ GatesOK /\ CallsOK /\ Waits, [Next]_vars PROVE Waits'
    OBVIOUS
  <1> USE Types
  <1>1. CASE UNCHANGED vars
    BY <1>1 DEF Waits, vars, gates, calls
  <1>2. ASSUME NEW c \in Calls, Call(c) PROVE Waits'
    BY <1>2, Moves DEF Call, Waits, gates
  <1>3. ASSUME NEW c \in Calls, EnterKeys(c) PROVE Waits'
    BY <1>3, Moves, Constants DEF EnterKeys, FlightsOK, Cooling, Waits, Kinds
  <1>4. ASSUME NEW c \in Calls, LeaveKeys(c) PROVE Waits'
    BY <1>4, Moves DEF LeaveKeys, Waits, gates
  <1>5. ASSUME NEW c \in Calls, ServeDoc(c) PROVE Waits'
    BY <1>5, Moves DEF ServeDoc, Waits, gates
  <1>6. ASSUME NEW c \in Calls, FetchDoc(c) PROVE Waits'
    <2>1. Start("doc", c) /\ "doc" \in Kinds
      BY <1>6 DEF FetchDoc, Kinds
    <2>2. PICK n \in Fetch : /\ n.kind = "doc" /\ n.by = c /\ n.at = now /\ n.reply = "pending"
                            /\ fetches' = fetches \cup {n}
      BY <2>1, StartEffect
    <2>3. QED
      BY <1>6, <2>1, <2>2, StartEffect, NoFlight, Fields, Constants, Moves DEF FetchDoc, FlightsOK,
             Cooling, Waits, Kinds
  <1>7. ASSUME NEW c \in Calls, RefuseDoc(c) PROVE Waits'
    BY <1>7, Moves DEF RefuseDoc, Waits
  <1>8. ASSUME NEW c \in Calls, FetchKeys(c) PROVE Waits'
    <2>1. Start("keys", c) /\ "keys" \in Kinds /\ Goto(c, "waitKeys") /\ UNCHANGED <<now, began>>
      BY <1>8 DEF FetchKeys, Kinds
    <2>2. now - begun["keys"] >= JwksCooldown
      BY <1>8, Constants DEF FetchKeys, FlightsOK, GatesOK, Holding, Cooling, Kinds
    <2>3. /\ begun'["keys"] = now /\ begun'["doc"] = begun["doc"]
          /\ now' = now /\ began' = began /\ pc'[c] = "waitKeys"
          /\ \A d \in Calls : d # c => pc'[d] = pc[d]
      BY <2>1, StartEffect, Moves DEF Kinds
    <2>4. pc[c] = "doc" /\ now <= began[c] + FetchMax
      BY <1>8, Constants DEF FetchKeys, Waits, Kinds
    <2>5. ASSUME NEW d \in Calls, pc[d] \in {"keys", "doc", "waitDoc"}
          PROVE  now = began[d] \/ (begun["doc"] <= began[d] /\ now <= begun["doc"] + FetchMax)
      BY <2>2, <2>5, Constants DEF Waits, Kinds
    <2>6. ASSUME NEW d \in Calls, d # c PROVE pc[d] # "waitKeys"
      BY <1>8, <2>6 DEF FetchKeys, GatesOK, CallsOK, Holding, Awaits, Flying, Kinds
    <2>7. QED
      BY <2>3, <2>4, <2>5, <2>6, Constants DEF Waits
  <1>9. ASSUME NEW c \in Calls, HangUp(c) PROVE Waits'
    BY <1>9, Moves DEF HangUp, Waits
  <1>10. ASSUME NEW f \in fetches, Respond(f) PROVE Waits'
    BY <1>10 DEF Respond, Waits, calls
  <1>11. ASSUME NEW f \in fetches, LandDoc(f) PROVE Waits'
    BY <1>11, Moves, Fields DEF LandDoc, Waits
  <1>12. ASSUME NEW f \in fetches, LandKeys(f) PROVE Waits'
    BY <1>12, Moves, Fields DEF LandKeys, Waits
  <1>13. CASE Fault
    BY <1>13 DEF Fault, Waits, gates, calls
  <1>14. CASE Tick
    BY <1>14, Fields, Constants DEF Tick, Ready, FlightsOK, GatesOK, CallsOK, Awaits, Cooling,
           Holding, Flying, Waits, gates, calls, Kinds, Places
  <1>15. QED
    BY <1>1, <1>2, <1>3, <1>4, <1>5, <1>6, <1>7, <1>8, <1>9, <1>10, <1>11, <1>12, <1>13, <1>14 DEF
           Next, Step

\* Every step keeps the types.
LEMMA NextTypes == TypeOK /\ [Next]_vars => TypeOK'
  <1> SUFFICES ASSUME TypeOK, [Next]_vars PROVE TypeOK'
    OBVIOUS
  <1> USE Types
  <1>1. CASE UNCHANGED vars
    BY <1>1 DEF TypeOK, Places, Answers, Kinds, vars, idp, cache, gates, calls
  <1>2. ASSUME NEW c \in Calls, Call(c) PROVE TypeOK'
    BY <1>2 DEF Call, Done, Goto, TypeOK, Places, Answers, Kinds, idp, cache, gates, calls
  <1>3. ASSUME NEW c \in Calls, EnterKeys(c) PROVE TypeOK'
    BY <1>3 DEF EnterKeys, Goto, TypeOK, Places, Answers, Kinds, idp, cache, gates, calls
  <1>4. ASSUME NEW c \in Calls, LeaveKeys(c) PROVE TypeOK'
    BY <1>4 DEF LeaveKeys, Done, TypeOK, Places, Answers, Kinds, idp, cache, gates, calls
  <1>5. ASSUME NEW c \in Calls, ServeDoc(c) PROVE TypeOK'
    BY <1>5 DEF ServeDoc, Done, TypeOK, Places, Answers, Kinds, idp, cache, gates, calls
  <1>6. ASSUME NEW c \in Calls, FetchDoc(c) PROVE TypeOK'
    <2>1. Start("doc", c) /\ "doc" \in Kinds
      BY <1>6 DEF FetchDoc, Kinds
    <2>2. PICK n \in Fetch : /\ n.kind = "doc" /\ n.by = c /\ n.at = now /\ n.reply = "pending"
                            /\ fetches' = fetches \cup {n}
      BY <2>1, StartEffect
    <2>3. QED
      BY <1>6, <2>1, <2>2, StartEffect, NoFlight, Fields, Constants DEF FetchDoc, TypeOK, idp,
             cache, Kinds, Places, Goto
  <1>7. ASSUME NEW c \in Calls, RefuseDoc(c) PROVE TypeOK'
    BY <1>7, Fallen, Constants DEF RefuseDoc, Done, TypeOK, Answers, Places, Kinds, idp, cache
  <1>8. ASSUME NEW c \in Calls, FetchKeys(c) PROVE TypeOK'
    <2>1. Start("keys", c) /\ "keys" \in Kinds
      BY <1>8 DEF FetchKeys, Kinds
    <2>2. PICK n \in Fetch : /\ n.kind = "keys" /\ n.by = c /\ n.at = now /\ n.reply = "pending"
                            /\ fetches' = fetches \cup {n}
      BY <2>1, StartEffect
    <2>3. QED
      BY <1>8, <2>1, <2>2, StartEffect, NoFlight, Fields, Constants DEF FetchKeys, TypeOK, idp,
             cache, Kinds, Places, Goto
  <1>9. ASSUME NEW c \in Calls, HangUp(c) PROVE TypeOK'
    BY <1>9, Fallen, Constants DEF HangUp, Done, TypeOK, Answers, Places, Kinds, idp, cache
  <1>10. ASSUME NEW f \in fetches, Respond(f) PROVE TypeOK'
    <2>1. PICK n \in Fetch :
            /\ n.kind = f.kind /\ n.by = f.by /\ n.at = f.at
            /\ fetches' = (fetches \ {f}) \cup {n}
            /\ \/ up /\ n.reply = "ok" /\ n.found = published
               \/ (~up \/ f.at <= calm) /\ n.reply = "failed"
      BY <1>10, ReplyEffect
    <2>2. QED
      BY <1>10, <2>1, Fields DEF Respond, TypeOK, gates, calls, cache, idp
  <1>11. ASSUME NEW f \in fetches, LandDoc(f) PROVE TypeOK'
    BY <1>11, Fields, Fallen, Constants DEF LandDoc, Done, Goto, TypeOK, Answers, Places, Kinds, idp
  <1>12. ASSUME NEW f \in fetches, LandKeys(f) PROVE TypeOK'
    BY <1>12, Fields, Constants DEF LandKeys, KeyAnswer, Done, Goto, TypeOK, Answers, Places,
           Kinds, idp
  <1>13. CASE Fault
    <2>1. faults' \in 0 .. MaxFaults
      BY <1>13, Constants DEF Fault, TypeOK
    <2>2. up' \in BOOLEAN
      BY <1>13 DEF Fault, Outage, Recover, Rotate, TypeOK
    <2>3. published' \subseteq Kids
      BY <1>13 DEF Fault, Outage, Recover, Rotate, TypeOK
    <2>4. calm' = calm \/ calm' = now
      BY <1>13 DEF Fault, Outage, Recover, Rotate
    <2>5. QED
      BY <1>13, <2>1, <2>2, <2>3, <2>4 DEF Fault, TypeOK, cache, gates, calls
  <1>14. CASE Tick
    <2>1. now' \in 0 .. Horizon /\ 0 .. now \subseteq 0 .. now' /\ Cooled .. now \subseteq Cooled .. now'
      BY <1>14, Constants DEF Tick, TypeOK
    <2>2. calm' \in 0 .. now' /\ began' \in [Calls -> 0 .. now']
      BY <1>14, <2>1 DEF Tick, TypeOK, idp, calls
    <2>3. armed' \in [Kinds -> Cooled .. now'] /\ begun' \in [Kinds -> Cooled .. now']
      BY <1>14, <2>1 DEF Tick, TypeOK, gates
    <2>4. QED
      BY <1>14, <2>1, <2>2, <2>3 DEF Tick, TypeOK, idp, cache, gates, calls
  <1>15. QED
    BY <1>1, <1>2, <1>3, <1>4, <1>5, <1>6, <1>7, <1>8, <1>9, <1>10, <1>11, <1>12, <1>13, <1>14 DEF
           Next, Step

\* KeyInv is inductive: the gates, the cooldowns, the fetches and the caches
\* always agree.
LEMMA NextInv == KeyInv /\ [Next]_vars => KeyInv'
  BY NextTypes, NextFlights, NextGates, NextCalls, NextFresh, NextWaits DEF KeyInv

THEOREM InvariantHolds == Spec => []KeyInv
  <1>1. Init => KeyInv
    BY InitInv
  <1>2. KeyInv /\ [Next]_vars => KeyInv'
    BY NextInv
  <1>3. QED
    BY <1>1, <1>2, PTL DEF Spec

\* No call waits longer than a fetch of each kind takes.
THEOREM WaitsBounded == Spec => []NoLongWait
  <1>1. KeyInv => NoLongWait
    <2> SUFFICES ASSUME KeyInv, NEW c \in Calls, Waiting(c)
                 PROVE  now - began[c] <= 2 * FetchMax
      BY DEF NoLongWait
    <2>1. TypeOK /\ FlightsOK /\ CallsOK /\ Waits
      BY DEF KeyInv
    <2>2. CASE pc[c] = "waitKeys"
      <3>1. PICK f \in fetches : f.kind = "keys"
        BY <2>1, <2>2 DEF CallsOK, Awaits, Kinds
      <3>2. now <= begun["keys"] + FetchMax
        BY <2>1, <3>1 DEF FlightsOK
      <3>3. QED
        BY <2>1, <2>2, <3>2, Types, Constants DEF Waits, Kinds
    <2>3. CASE pc[c] \in {"keys", "doc", "waitDoc"}
      BY <2>1, <2>3, Types, Constants DEF Waits, Kinds
    <2>4. QED
      BY <2>1, <2>2, <2>3, Types DEF Waiting, Places
  <1>2. QED
    BY InvariantHolds, <1>1, PTL

\* A fetch begins alone in its kind, a cooldown after the last one.
LEMMA StepsSpaced == TypeOK /\ FlightsOK /\ GatesOK /\ [Next]_vars => SpacedStep
  <1> SUFFICES ASSUME TypeOK /\ FlightsOK /\ GatesOK, [Next]_vars PROVE SpacedStep
    OBVIOUS
  <1> USE Types
  <1>1. CASE UNCHANGED vars
    BY <1>1 DEF SpacedStep, vars, gates
  <1>2. ASSUME NEW c \in Calls, Call(c) PROVE SpacedStep
    BY <1>2 DEF Call, SpacedStep, gates
  <1>3. ASSUME NEW c \in Calls, EnterKeys(c) PROVE SpacedStep
    BY <1>3 DEF EnterKeys, SpacedStep, gates
  <1>4. ASSUME NEW c \in Calls, LeaveKeys(c) PROVE SpacedStep
    BY <1>4 DEF LeaveKeys, SpacedStep, gates
  <1>5. ASSUME NEW c \in Calls, ServeDoc(c) PROVE SpacedStep
    BY <1>5 DEF ServeDoc, SpacedStep, gates
  <1>6. ASSUME NEW c \in Calls, FetchDoc(c) PROVE SpacedStep
    <2>1. Start("doc", c) /\ "doc" \in Kinds
      BY <1>6 DEF FetchDoc, Kinds
    <2>2. PICK n \in Fetch : /\ n.kind = "doc" /\ n.by = c /\ n.at = now /\ n.reply = "pending"
                            /\ fetches' = fetches \cup {n}
      BY <2>1, StartEffect
    <2>3. QED
      BY <1>6, <2>1, <2>2, StartEffect, NoFlight, Fields, Constants DEF FetchDoc, FlightsOK,
             Flying, Cooling, SpacedStep, Kinds
  <1>7. ASSUME NEW c \in Calls, RefuseDoc(c) PROVE SpacedStep
    BY <1>7 DEF RefuseDoc, SpacedStep, gates
  <1>8. ASSUME NEW c \in Calls, FetchKeys(c) PROVE SpacedStep
    <2>1. Start("keys", c) /\ "keys" \in Kinds
      BY <1>8 DEF FetchKeys, Kinds
    <2>2. PICK n \in Fetch : /\ n.kind = "keys" /\ n.by = c /\ n.at = now /\ n.reply = "pending"
                            /\ fetches' = fetches \cup {n}
      BY <2>1, StartEffect
    <2>3. QED
      BY <1>8, <2>1, <2>2, StartEffect, NoFlight, Fields, Constants DEF FetchKeys, FlightsOK,
             GatesOK, Holding, Flying, Cooling, SpacedStep, Kinds
  <1>9. ASSUME NEW c \in Calls, HangUp(c) PROVE SpacedStep
    BY <1>9 DEF HangUp, SpacedStep, gates
  <1>10. ASSUME NEW f \in fetches, Respond(f) PROVE SpacedStep
    <2>1. PICK n \in Fetch :
            /\ n.kind = f.kind /\ n.by = f.by /\ n.at = f.at
            /\ fetches' = (fetches \ {f}) \cup {n}
            /\ \/ up /\ n.reply = "ok" /\ n.found = published
               \/ (~up \/ f.at <= calm) /\ n.reply = "failed"
      BY <1>10, ReplyEffect
    <2>2. QED
      BY <1>10, <2>1, Fields DEF Respond, SpacedStep
  <1>11. ASSUME NEW f \in fetches, LandDoc(f) PROVE SpacedStep
    BY <1>11 DEF LandDoc, SpacedStep, gates
  <1>12. ASSUME NEW f \in fetches, LandKeys(f) PROVE SpacedStep
    BY <1>12 DEF LandKeys, SpacedStep, gates
  <1>13. CASE Fault
    BY <1>13 DEF Fault, SpacedStep, gates
  <1>14. CASE Tick
    BY <1>14 DEF Tick, SpacedStep, gates
  <1>15. QED
    BY <1>1, <1>2, <1>3, <1>4, <1>5, <1>6, <1>7, <1>8, <1>9, <1>10, <1>11, <1>12, <1>13, <1>14 DEF
           Next, Step

\* At most one request for the document, and one for the keys, under way at any
\* time and begun in any cooldown, whoever hangs up and however they fail.
THEOREM AtMostOnePerCooldown == Spec => FetchesSpaced
  <1>1. KeyInv /\ [Next]_vars => [SpacedStep]_vars
    BY StepsSpaced DEF KeyInv
  <1>2. QED
    BY InvariantHolds, <1>1, PTL DEF Spec, FetchesSpaced, SpacedStep

\* What a cooldown leaves a call that is entitled to an answer.
LEMMA CooledKeys ==
  ASSUME TypeOK, FlightsOK, Fresh, NEW c \in Calls, Entitled(c), Kid[c] # Login,
         Cooling("keys"), gate["keys"] = None
  PROVE  Kid[c] \in keys
  <1>1. ~Flying("keys")
    BY NoFlight DEF Kinds
  <1>2. up /\ began[c] >= calm + JwksCooldown /\ Kid[c] \in published
    BY Constants DEF Entitled, Patience
  <1>3. now - begun["keys"] < JwksCooldown
    BY Constants DEF Cooling, FlightsOK
  <1>4. begun["keys"] > calm
    BY <1>2, <1>3, Types, Constants DEF Kinds
  <1>5. QED
    BY <1>1, <1>2, <1>4 DEF Fresh

LEMMA CooledDoc ==
  ASSUME TypeOK, FlightsOK, Fresh, NEW c \in Calls, Entitled(c), Cooling("doc"), gate["doc"] = None
  PROVE  doc
  <1>1. ~Flying("doc")
    BY NoFlight DEF Kinds
  <1>2. up /\ began[c] >= calm + DiscoveryCooldown
    BY Types, Constants DEF Entitled, Patience
  <1>3. now - begun["doc"] < DiscoveryCooldown
    BY Constants DEF Cooling, FlightsOK
  <1>4. begun["doc"] > calm
    BY <1>2, <1>3, Types, Constants DEF Kinds
  <1>5. QED
    BY <1>1, <1>2, <1>4 DEF Fresh

\* What the fetch it waits for brings it.
LEMMA GoodAnswer ==
  ASSUME TypeOK, FlightsOK, CallsOK, Fresh, NEW f \in fetches,
         Entitled(f.by), Awaits(f.by, f.kind), f.reply # "pending"
  PROVE  f.reply = "ok" /\ f.found = published
  <1>1. f.by \in Calls /\ f.kind \in Kinds /\ f.at \in Int
    BY Fields
  <1>2. f.at >= began[f.by]
    BY <1>1 DEF CallsOK, FlightsOK
  <1>3. up /\ began[f.by] > calm
    BY <1>1, Types, Constants DEF Entitled, Patience
  <1>4. f.at > calm
    BY <1>1, <1>2, <1>3, Types
  <1>5. QED
    BY <1>3, <1>4 DEF Fresh

\* No step refuses a call what it is entitled to.
LEMMA StepsServe == TypeOK /\ FlightsOK /\ GatesOK /\ CallsOK /\ Fresh /\ ServedAfterCooldown /\ [Next]_vars => ServedAfterCooldown'
  <1> SUFFICES ASSUME TypeOK /\ FlightsOK /\ GatesOK /\ CallsOK /\ Fresh /\ ServedAfterCooldown, [Next]_vars, NEW d \in Calls
               PROVE Served(d)'
    BY DEF ServedAfterCooldown
  <1> USE Types DEF ServedAfterCooldown
  <1>1. CASE UNCHANGED vars
    BY <1>1 DEF vars, idp, calls, Served, Entitled
  <1>2. ASSUME NEW c \in Calls, Call(c) PROVE Served(d)'
    <2>1. CASE d # c
      BY <1>2, <2>1, Moves DEF Call, Served, Entitled, idp
    <2>2. CASE d = c
      BY <1>2, <2>2, Moves DEF Call, CallsOK, Served, Entitled, Asked, idp
    <2>3. QED
      BY <2>1, <2>2
  <1>3. ASSUME NEW c \in Calls, EnterKeys(c) PROVE Served(d)'
    BY <1>3, Moves DEF EnterKeys, Served, Entitled, idp
  <1>4. ASSUME NEW c \in Calls, LeaveKeys(c) PROVE Served(d)'
    <2>1. CASE d # c
      BY <1>4, <2>1, Moves DEF LeaveKeys, Served, Entitled, idp
    <2>2. CASE d = c
      BY <1>4, <2>2, Moves, CooledKeys DEF LeaveKeys, CallsOK, Served, Entitled, Asked, idp
    <2>3. QED
      BY <2>1, <2>2
  <1>5. ASSUME NEW c \in Calls, ServeDoc(c) PROVE Served(d)'
    <2>1. CASE d # c
      BY <1>5, <2>1, Moves DEF ServeDoc, Served, Entitled, idp
    <2>2. CASE d = c
      BY <1>5, <2>2, Moves DEF ServeDoc, Served, Entitled, Asked, idp
    <2>3. QED
      BY <2>1, <2>2
  <1>6. ASSUME NEW c \in Calls, FetchDoc(c) PROVE Served(d)'
    BY <1>6, Moves DEF FetchDoc, Served, Entitled, idp
  <1>7. ASSUME NEW c \in Calls, RefuseDoc(c) PROVE Served(d)'
    <2>1. CASE d # c
      BY <1>7, <2>1, Moves DEF RefuseDoc, Served, Entitled, idp
    <2>2. CASE d = c
      BY <1>7, <2>2, Moves, CooledDoc DEF RefuseDoc, Served, Entitled, Asked, idp
    <2>3. QED
      BY <2>1, <2>2
  <1>8. ASSUME NEW c \in Calls, FetchKeys(c) PROVE Served(d)'
    BY <1>8, Moves DEF FetchKeys, Served, Entitled, idp
  <1>9. ASSUME NEW c \in Calls, HangUp(c) PROVE Served(d)'
    <2>1. CASE d # c
      BY <1>9, <2>1, Moves DEF HangUp, Served, Entitled, idp
    <2>2. CASE d = c
      BY <1>9, <2>2, Moves DEF HangUp, Served, Entitled, Asked, idp
    <2>3. QED
      BY <2>1, <2>2
  <1>10. ASSUME NEW f \in fetches, Respond(f) PROVE Served(d)'
    BY <1>10 DEF Respond, Served, Entitled, idp, calls
  <1>11. ASSUME NEW f \in fetches, LandDoc(f) PROVE Served(d)'
    BY <1>11, Moves, Fields, GoodAnswer DEF LandDoc, Awaits, Served, Entitled, idp
  <1>12. ASSUME NEW f \in fetches, LandKeys(f) PROVE Served(d)'
    <2>1. CASE d # f.by \/ pc[f.by] # "waitKeys"
      BY <1>12, <2>1, Moves, Fields DEF LandKeys, Served, Entitled, idp
    <2>2. CASE d = f.by /\ pc[d] = "waitKeys"
      <3>1. Entitled(d)' => Entitled(d)
        BY <1>12 DEF LandKeys, Entitled, idp
      <3>2. Entitled(d) => KeyAnswer(f) = "key"
        BY <1>12, <2>2, GoodAnswer DEF LandKeys, KeyAnswer, Awaits, CallsOK, Entitled
      <3>3. Kid[d] # Login
        BY <2>2 DEF CallsOK
      <3>4. QED
        BY <1>12, <2>2, <3>1, <3>2, <3>3, Moves DEF LandKeys, Served, Asked
    <2>3. QED
      BY <2>1, <2>2
  <1>13. CASE Fault
    <2>1. Entitled(d)' => Entitled(d)
      <3>1. CASE Outage
        BY <3>1 DEF Outage, Entitled
      <3>2. CASE calm' = now
        BY <1>13, <3>2, Constants DEF Fault, Entitled, Patience, calls
      <3>3. QED
        BY <1>13, <3>1, <3>2 DEF Fault, Recover, Rotate
    <2>2. QED
      BY <1>13, <2>1 DEF Fault, Served, Asked, calls
  <1>14. CASE Tick
    BY <1>14 DEF Tick, Served, Entitled, idp, calls
  <1>15. QED
    BY <1>1, <1>2, <1>3, <1>4, <1>5, <1>6, <1>7, <1>8, <1>9, <1>10, <1>11, <1>12, <1>13, <1>14 DEF
           Next, Step

\* A call that comes a cooldown after the provider's last outage or rotation is
\* never refused what the provider has.
THEOREM ServedOnceCalm == Spec => []ServedAfterCooldown
  <1>1. Init => ServedAfterCooldown
    BY DEF Init, ServedAfterCooldown, Served
  <1>2. KeyInv /\ ServedAfterCooldown /\ [Next]_vars => ServedAfterCooldown'
    BY StepsServe DEF KeyInv
  <1>3. QED
    BY InvariantHolds, <1>1, <1>2, PTL DEF Spec

=============================================================================
