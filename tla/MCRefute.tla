------------------------------ MODULE MCRefute ------------------------------
(* Instances of Refute for TLC. *)
EXTENDS Refute, TLC

CONSTANTS a, b, c, d, why1, why2

LinkBy(w) == [kind |-> "link", target |-> Wrong, reason |-> w]
ReplaceBy(w) == [kind |-> "replace", target |-> Wrong, reason |-> w]
Do(k, m) == [kind |-> k, target |-> m, reason |-> why1]

\* Two refutes of one memory by one correction, and two requests that interfere.
RaceWorkloads ==
  {a :> p[1] @@ b :> p[2] @@ c :> q[1] @@ d :> q[2] :
     p \in {<<LinkBy(why1), LinkBy(why2)>>, <<LinkBy(why1), ReplaceBy(why1)>>,
            <<ReplaceBy(why1), ReplaceBy(why2)>>},
     q \in {<<Do("delete", Wrong), Do("store", Wrong)>>,
            <<Do("delete", Wrong), Do("store", Correction)>>,
            <<Do("delete", Wrong), Do("unrelate", Wrong)>>,
            <<Do("delete", Correction), Do("store", Correction)>>,
            <<Do("supersede", Wrong), Do("delete", Correction)>>,
            <<Do("supersede", Correction), Do("store", Correction)>>}}
=============================================================================
