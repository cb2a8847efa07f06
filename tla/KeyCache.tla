------------------------------ MODULE KeyCache ------------------------------
(***************************************************************************)
(* One OIDC provider as the server and the console see it: a discovery     *)
(* document fetched once and a key set fetched on every unknown key id,    *)
(* each behind a gate with a cooldown, by fetches that outlive the callers *)
(* that started them (crates/alaya-oidc/src/lib.rs, `Provider`).           *)
(*                                                                         *)
(* Time is discrete.  A caller that need not wait does not let time pass;  *)
(* a fetch ends within FetchMax, the client's timeout.  Which waiter gets  *)
(* a gate is left open.  What a token must satisfy once its key is found   *)
(* is left out.                                                            *)
(***************************************************************************)
EXTENDS Integers, FiniteSets

CONSTANTS Calls,               \* calls of verify and of discovery
          Kids,                \* key ids the identity provider may publish
          Kid,                 \* the key id each call asks for, or
          Login,               \*   none: it asks for the document
          JwksCooldown, DiscoveryCooldown, FetchMax,
          MaxFaults, Horizon,  \* bounds on outages and rotations, and on time
          None

Kinds == {"doc", "keys"}
Cooldown == [k \in Kinds |-> IF k = "doc" THEN DiscoveryCooldown ELSE JwksCooldown]

\* The cooldowns' order is asserted in the code; that a fetch is shorter than
\* either is what the clients' timeouts (10 s against 29 s) come to.
ASSUME KeyCacheAssumption ==
  /\ Login \notin Kids /\ None \notin Calls
  /\ FetchMax \in Nat /\ JwksCooldown \in Nat /\ DiscoveryCooldown \in Nat
  /\ FetchMax < DiscoveryCooldown /\ DiscoveryCooldown < JwksCooldown
  /\ MaxFaults \in Nat /\ Horizon \in Nat

VARIABLES now,
          up, published,  \* the identity provider: it answers, and with which keys
          calm,           \* when it last recovered or changed its keys
          faults,         \* how often it went down or changed its keys, capped
          doc,            \* discovery: a document is cached
          keys,           \* keys: the ids cached
          gate,           \* per kind: the call that took the gate, or that started
                          \*   the fetch that holds it
          armed,          \* per kind: the time in the gate
          fetches,        \* fetches under way
          begun,          \* per kind: when the last fetch began (history)
          pc, began,      \* where each call is, and when it came
          told            \* its answer

idp == <<up, published, calm, faults>>
cache == <<doc, keys>>
gates == <<gate, armed, fetches, begun>>
calls == <<pc, began, told>>
vars == <<now, idp, cache, gates, calls>>

-----------------------------------------------------------------------------
(* Pieces of steps *)

Done(c, r) == pc' = [pc EXCEPT ![c] = "done"] /\ told' = [told EXCEPT ![c] = r]
Goto(c, l) == pc' = [pc EXCEPT ![c] = l] /\ UNCHANGED told

Cooling(k) == now - armed[k] < Cooldown[k]
Cooled == -(2 * JwksCooldown)

\* A spawned fetch takes the gate along, armed before it starts.
\* (Slip: the time in the gate is not set.)
Started(k, c) ==
  /\ gate' = [gate EXCEPT ![k] = c]
  /\ fetches' = fetches \cup {[kind |-> k, by |-> c, at |-> now, reply |-> "pending", found |-> {}]}
  /\ begun' = [begun EXCEPT ![k] = now]
StartUnarmed(k, c) == Started(k, c) /\ UNCHANGED armed
Start(k, c) == Started(k, c) /\ armed' = [armed EXCEPT ![k] = now]

\* The gate a call holds itself falls with the call.
Without(c) == IF gate["keys"] = c THEN [gate EXCEPT !["keys"] = None] ELSE gate

-----------------------------------------------------------------------------
(* key_for_kid and discovery *)

\* The first look into the cache; a miss queues at the gate.
Call(c) ==
  /\ pc[c] = "idle"
  /\ began' = [began EXCEPT ![c] = now]
  /\ \/ Kid[c] = Login /\ doc /\ Done(c, "doc")
     \/ Kid[c] = Login /\ ~doc /\ Goto(c, "doc")
     \/ Kid[c] # Login /\ Kid[c] \in keys /\ Done(c, "key")
     \/ Kid[c] # Login /\ Kid[c] \notin keys /\ Goto(c, "keys")
  /\ UNCHANGED <<now, idp, cache, gates>>

\* The gate of the keys: look again, then the cooldown, then discovery with
\* the gate in hand.  (Slip: the cooldown is armed here.)
EnterKeysArming(c) ==
  /\ pc[c] = "keys" /\ gate["keys"] = None
  /\ Kid[c] \notin keys /\ ~Cooling("keys")
  /\ Goto(c, "doc")
  /\ gate' = [gate EXCEPT !["keys"] = c]
  /\ armed' = [armed EXCEPT !["keys"] = now]
  /\ UNCHANGED <<now, idp, cache, fetches, begun, began>>
EnterKeys(c) ==
  /\ pc[c] = "keys" /\ gate["keys"] = None
  /\ Kid[c] \notin keys /\ ~Cooling("keys")
  /\ Goto(c, "doc")
  /\ gate' = [gate EXCEPT !["keys"] = c]
  /\ UNCHANGED <<now, idp, cache, armed, fetches, begun, began>>

LeaveKeys(c) ==
  /\ pc[c] = "keys" /\ gate["keys"] = None
  /\ \/ Kid[c] \in keys /\ Done(c, "key")
     \/ Kid[c] \notin keys /\ Cooling("keys") /\ Done(c, "cooldown")
  /\ UNCHANGED <<now, idp, cache, gates, began>>

\* discovery: cached, by an earlier fetch or by the one this call waited for.
ServeDoc(c) ==
  /\ pc[c] = "doc" /\ doc /\ Kid[c] = Login
  /\ Done(c, "doc")
  /\ UNCHANGED <<now, idp, cache, gates, began>>

FetchDoc(c) ==
  /\ pc[c] = "doc" /\ ~doc /\ gate["doc"] = None /\ ~Cooling("doc")
  /\ Start("doc", c)
  /\ Goto(c, "waitDoc")
  /\ UNCHANGED <<now, idp, cache, began>>

\* Refused by discovery's cooldown, with no request made.
RefuseDoc(c) ==
  /\ pc[c] = "doc" /\ ~doc /\ gate["doc"] = None /\ Cooling("doc")
  /\ gate' = Without(c)
  /\ Done(c, "cooldown")
  /\ UNCHANGED <<now, idp, cache, armed, fetches, begun, began>>

FetchKeys(c) ==
  /\ pc[c] = "doc" /\ doc /\ Kid[c] # Login
  /\ Start("keys", c)
  /\ Goto(c, "waitKeys")
  /\ UNCHANGED <<now, idp, cache, began>>

\* A caller goes away: what it holds falls, a fetch it started goes on.
\* (Slip: the fetch goes with it.)
HangUpAborting(c) ==
  /\ pc[c] \notin {"idle", "done"}
  /\ fetches' = {f \in fetches : f.by # c}
  /\ gate' = [k \in Kinds |-> IF gate[k] = c THEN None ELSE gate[k]]
  /\ Done(c, "gone")
  /\ UNCHANGED <<now, idp, cache, armed, begun, began>>
HangUp(c) ==
  /\ pc[c] \notin {"idle", "done"}
  /\ gate' = IF pc[c] = "waitKeys" THEN gate ELSE Without(c)
  /\ Done(c, "gone")
  /\ UNCHANGED <<now, idp, cache, armed, fetches, begun, began>>

-----------------------------------------------------------------------------
(* The detached fetches *)

\* What comes back: nothing of use while the provider is down, or was during
\* the fetch; its present keys, or its document, otherwise.
Reply(f, r, found) ==
  fetches' = (fetches \ {f}) \cup {[f EXCEPT !.reply = r, !.found = found]}
Respond(f) ==
  /\ f.reply = "pending"
  /\ \/ up /\ Reply(f, "ok", published)
     \/ (~up \/ f.at <= calm) /\ Reply(f, "failed", {})
  /\ UNCHANGED <<now, idp, cache, gate, armed, begun, calls>>

\* The document is cached only when it passed every rule; its caller goes on
\* from there, still with the gate of the keys in hand.
LandDoc(f) ==
  /\ f.kind = "doc" /\ f.reply # "pending"
  /\ doc' = (doc \/ f.reply = "ok")
  /\ fetches' = fetches \ {f}
  /\ \/ /\ pc[f.by] = "waitDoc" /\ f.reply = "ok"
        /\ Goto(f.by, "doc") /\ gate' = [gate EXCEPT !["doc"] = None]
     \/ /\ pc[f.by] = "waitDoc" /\ f.reply = "failed"
        /\ Done(f.by, "error") /\ gate' = [Without(f.by) EXCEPT !["doc"] = None]
     \/ /\ pc[f.by] # "waitDoc"
        /\ gate' = [gate EXCEPT !["doc"] = None] /\ UNCHANGED <<pc, told>>
  /\ UNCHANGED <<now, idp, keys, armed, begun, began>>

\* The keys are swapped wholesale.
KeyAnswer(f) ==
  IF f.reply = "failed" THEN "error" ELSE IF Kid[f.by] \in f.found THEN "key" ELSE "unknown"
LandKeys(f) ==
  /\ f.kind = "keys" /\ f.reply # "pending"
  /\ keys' = IF f.reply = "ok" THEN f.found ELSE keys
  /\ fetches' = fetches \ {f}
  /\ gate' = [gate EXCEPT !["keys"] = None]
  /\ IF pc[f.by] = "waitKeys" THEN Done(f.by, KeyAnswer(f)) ELSE UNCHANGED <<pc, told>>
  /\ UNCHANGED <<now, idp, doc, armed, begun, began>>

-----------------------------------------------------------------------------
(* The identity provider, and time *)

Outage ==
  /\ up /\ up' = FALSE
  /\ UNCHANGED <<published, calm>>
Recover ==
  /\ ~up /\ up' = TRUE
  /\ calm' = now
  /\ UNCHANGED published
Rotate ==
  /\ \E p \in SUBSET Kids : p # published /\ published' = p
  /\ calm' = now
  /\ UNCHANGED up
Fault ==
  /\ faults < MaxFaults /\ faults' = faults + 1
  /\ Outage \/ Recover \/ Rotate
  /\ UNCHANGED <<now, cache, gates, calls>>

\* A call that waits for nothing.
Ready(c) ==
  \/ pc[c] = "keys" /\ gate["keys"] = None
  \/ pc[c] = "doc" /\ (doc \/ gate["doc"] = None)
Tick ==
  /\ now < Horizon /\ now' = now + 1
  /\ \A c \in Calls : ~Ready(c)
  /\ \A f \in fetches : now < f.at + FetchMax
  /\ UNCHANGED <<idp, cache, gates, calls>>

-----------------------------------------------------------------------------
Init ==
  /\ now = 0
  /\ up \in BOOLEAN /\ published \in SUBSET Kids /\ calm = 0 /\ faults = 0
  /\ doc = FALSE /\ keys = {}
  /\ gate = [k \in Kinds |-> None]
  /\ armed = [k \in Kinds |-> Cooled] /\ begun = [k \in Kinds |-> Cooled]
  /\ fetches = {}
  /\ pc = [c \in Calls |-> "idle"] /\ began = [c \in Calls |-> 0]
  /\ told = [c \in Calls |-> "none"]

Step(c) ==
  \/ Call(c) \/ EnterKeys(c) \/ LeaveKeys(c) \/ ServeDoc(c) \/ FetchDoc(c)
  \/ RefuseDoc(c) \/ FetchKeys(c) \/ HangUp(c)

Next ==
  \/ \E c \in Calls : Step(c)
  \/ \E f \in fetches : Respond(f) \/ LandDoc(f) \/ LandKeys(f)
  \/ Fault \/ Tick

Spec == Init /\ [][Next]_vars

-----------------------------------------------------------------------------
(* Properties *)

Places == {"idle", "keys", "doc", "waitDoc", "waitKeys", "done"}
Answers == {"none", "key", "doc", "cooldown", "unknown", "error", "gone"}
Replies == {"pending", "failed", "ok"}
Fetch == [kind : Kinds, by : Calls, at : 0 .. Horizon, reply : Replies, found : SUBSET Kids]

\* Types of the state.
TypeOK ==
  /\ now \in 0 .. Horizon /\ up \in BOOLEAN /\ published \subseteq Kids
  /\ calm \in 0 .. now /\ faults \in 0 .. MaxFaults
  /\ doc \in BOOLEAN /\ keys \subseteq Kids
  /\ gate \in [Kinds -> Calls \cup {None}]
  /\ armed \in [Kinds -> Cooled .. now] /\ begun \in [Kinds -> Cooled .. now]
  /\ fetches \subseteq Fetch
  /\ pc \in [Calls -> Places] /\ began \in [Calls -> 0 .. now] /\ told \in [Calls -> Answers]

Flying(k) == \E f \in fetches : f.kind = k
\* A call past the gate of the keys, with that gate in its own hands.
Holding(c) == pc[c] \in {"doc", "waitDoc"} /\ Kid[c] # Login

\* A fetch under way has its gate, and the gate's time is when it began.
FlightsOK ==
  /\ armed = begun
  /\ \A f \in fetches :
       /\ gate[f.kind] = f.by /\ f.at = begun[f.kind]
       /\ now <= f.at + FetchMax
       /\ \A g \in fetches : g.kind = f.kind => g = f
  /\ Flying("keys") => doc

\* A gate is held by a call that still waits or by a fetch under way, and by
\* nobody who left.
GatesOK ==
  /\ gate["doc"] # None => Flying("doc")
  /\ gate["keys"] # None => Flying("keys") \/ Holding(gate["keys"])
  /\ \A c \in Calls : Holding(c) =>
       gate["keys"] = c /\ ~Flying("keys") /\ ~Cooling("keys")

\* A waiting call waits for its own fetch, begun after it came; a fetch under
\* way is awaited by its call, or the call is gone.
Awaits(c, k) == pc[c] = (IF k = "doc" THEN "waitDoc" ELSE "waitKeys")
CallsOK ==
  /\ \A c \in Calls :
       /\ pc[c] # "done" => told[c] = "none"
       /\ pc[c] \in {"keys", "waitKeys"} => Kid[c] # Login
       /\ \A k \in Kinds : Awaits(c, k) =>
            \E f \in fetches : f.kind = k /\ f.by = c /\ f.at >= began[c]
  /\ \A f \in fetches : Awaits(f.by, f.kind) \/ pc[f.by] = "done"

\* Whatever began after the provider was last disturbed and is over has left
\* the provider's document or present keys in the cache.
Fresh ==
  up =>
    /\ \A f \in fetches :
         f.at > calm /\ f.reply # "pending" => f.reply = "ok" /\ f.found = published
    /\ begun["doc"] > calm /\ ~Flying("doc") => doc
    /\ begun["keys"] > calm /\ ~Flying("keys") => keys = published

\* What a call has waited for: nothing yet, one fetch of the document that
\* began no later than it came, or after such a one a fetch of the keys.
Waits ==
  \A c \in Calls :
    /\ pc[c] \in {"keys", "doc", "waitDoc"} =>
         \/ now = began[c]
         \/ begun["doc"] <= began[c] /\ now <= begun["doc"] + FetchMax
         \/ /\ pc[c] = "keys"
            /\ begun["keys"] <= began[c] + FetchMax /\ now <= begun["keys"] + FetchMax
    /\ pc[c] = "waitKeys" => begun["keys"] <= began[c] + FetchMax

\* The inductive invariant: the gates, the cooldowns, the fetches and the
\* caches agree, whoever hangs up and whatever the provider does.
KeyInv == TypeOK /\ FlightsOK /\ GatesOK /\ CallsOK /\ Fresh /\ Waits

\* A fetch that begins is alone in its kind and a cooldown after the last.
SpacedStep ==
  \A k \in Kinds :
    \A f \in fetches' : f.kind = k /\ (\A g \in fetches : g.kind # k \/ g.by # f.by) =>
      /\ now - begun[k] >= Cooldown[k]
      /\ \A g \in fetches : g.kind # k

\* JWKS_COOLDOWN and DISCOVERY_COOLDOWN: a flood of unknown key ids or logins,
\* callers that hang up and a provider that is down drive at most one request of
\* a kind per cooldown, and never two at once.
FetchesSpaced == [][SpacedStep]_vars

\* What a call asks for, and how long after trouble it is sure to get it.
Asked(c) == IF Kid[c] = Login THEN "doc" ELSE "key"
Patience(c) == Cooldown[IF Kid[c] = Login THEN "doc" ELSE "keys"]
Entitled(c) ==
  /\ up /\ began[c] >= calm + Patience(c)
  /\ Kid[c] \in published \cup {Login}
\* Of a provider that has answered, with the same keys, for a cooldown before the
\* call came, discovery and key_for_kid get what the provider has: no cooldown is
\* armed over an empty or old cache, and the two do not stack.
Served(c) == Entitled(c) => told[c] \in {"none", "gone", Asked(c)}
\* Every call is served as said above.
ServedAfterCooldown == \A c \in Calls : Served(c)

\* A call waits for a fetch of each kind at most, whoever is in front of it
\* and however they leave.
Waiting(c) == pc[c] \notin {"idle", "done"}
NoLongWait == \A c \in Calls : Waiting(c) => now - began[c] <= 2 * FetchMax

=============================================================================
