----------------------------- MODULE BracketSearch -----------------------------
(***************************************************************************)
(* What a context-frontier search promises, whatever its probing strategy. *)
(*                                                                         *)
(* The search collects evidence about context sizes: good holds the sizes  *)
(* at which every probe so far succeeded, bad the sizes with at least one  *)
(* probe that did not.  A probe is only ever aimed between the largest     *)
(* good size and the smallest bad one, except that the largest good size   *)
(* may be probed again, and loses its standing when that probe fails.  At  *)
(* any moment the search may stop, and then answers with its largest good  *)
(* size, 0 standing for "no size".                                         *)
(***************************************************************************)
EXTENDS Integers

CONSTANT Sizes  (* the context sizes that may be probed, positive numbers  *)

VARIABLES
  good,     (* sizes all of whose probes succeeded                         *)
  bad,      (* sizes with a probe that did not succeed                     *)
  answer,   (* the size answered, 0 while searching or when there is none  *)
  stopped   (* has the search answered?                                    *)

vars == <<good, bad, answer, stopped>>

IsLargest(n, S) == n \in S /\ \A m \in S : m <= n

(* n lies strictly inside the bracket left by the evidence.                *)
InBracket(n) ==
  /\ \A m \in good : m < n
  /\ \A m \in bad : n < m

Init ==
  /\ good = {}
  /\ bad = {}
  /\ answer = 0
  /\ stopped = FALSE

Accept(n) ==
  /\ ~stopped
  /\ InBracket(n)
  /\ good' = good \cup {n}
  /\ UNCHANGED <<bad, answer, stopped>>

Reject(n) ==
  /\ ~stopped
  /\ InBracket(n)
  /\ bad' = bad \cup {n}
  /\ UNCHANGED <<good, answer, stopped>>

Retract(n) ==
  /\ ~stopped
  /\ IsLargest(n, good)
  /\ good' = good \ {n}
  /\ bad' = bad \cup {n}
  /\ UNCHANGED <<answer, stopped>>

Answer(n) ==
  /\ ~stopped
  /\ IF good = {} THEN n = 0 ELSE IsLargest(n, good)
  /\ answer' = n
  /\ stopped' = TRUE
  /\ UNCHANGED <<good, bad>>

Next ==
  \/ \E n \in Sizes : Accept(n) \/ Reject(n) \/ Retract(n)
  \/ \E n \in Sizes \cup {0} : Answer(n)

Spec == Init /\ [][Next]_vars
===============================================================================
