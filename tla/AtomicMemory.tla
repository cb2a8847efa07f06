---------------------------- MODULE AtomicMemory ----------------------------
(***************************************************************************)
(* What the callers of the storage operations may rely on (the contract of *)
(* VectorStorage, crates/alaya-backends/src/traits.rs, "Concurrent         *)
(* writers"): a memory is changed by whole calls, one at a time.  A call   *)
(* takes effect on the memory at most once, in one step, on what was there *)
(* at that step, and the answer it gives agrees with what it did.  Neither *)
(* the locks, nor the revisions, nor the requests in flight are visible.   *)
(***************************************************************************)
EXTENDS Naturals, Sequences

CONSTANTS Tasks, Kind

VARIABLES mem,    \* whether the memory exists, and the calls it is made of
          ever,   \* calls that ever took effect
          told    \* what each call answered

vars == <<mem, ever, told>>

Absent == [live |-> FALSE, calls |-> <<>>]
PartOf(t) == \E i \in DOMAIN mem.calls : mem.calls[i] = t

\* Answers that promise that the call has, and will have, no effect.
Denials == {"skipped", "absent", "deleted", "lost"}
\* Answers that promise nothing ("it may or may not have applied").
Unknowns == {"unconfirmed", "failed", "cut", "erased"}

Init ==
  /\ mem \in [live : BOOLEAN, calls : {<<>>}]
  /\ ever = {}
  /\ told = [t \in Tasks |-> "none"]

\* A store creates the memory; nothing of an earlier one is in it.
Create(t) ==
  /\ ~mem.live /\ Kind[t] \in {"store", "insertOnly"}
  /\ told[t] \notin Denials
  /\ mem' = [live |-> TRUE, calls |-> <<t>>]
  /\ ever' = ever \cup {t}
  /\ UNCHANGED told

\* A call changes the memory, on top of everything already there.
Change(t) ==
  /\ mem.live /\ ~PartOf(t) /\ Kind[t] \notin {"insertOnly", "delete"}
  /\ told[t] \notin Denials
  /\ mem' = [live |-> TRUE, calls |-> Append(mem.calls, t)]
  /\ ever' = ever \cup {t}
  /\ UNCHANGED told

Erase ==
  /\ mem' = Absent
  /\ UNCHANGED <<ever, told>>

Answer(t) ==
  /\ told[t] = "none"
  /\ \E a \in {"landed"} \cup Denials \cup Unknowns :
       /\ a = "landed" => t \in ever
       /\ a \in Denials => ~PartOf(t)
       /\ told' = [told EXCEPT ![t] = a]
  /\ UNCHANGED <<mem, ever>>

Next == Erase \/ \E t \in Tasks : Create(t) \/ Change(t) \/ Answer(t)

Spec == Init /\ [][Next]_vars

=============================================================================
