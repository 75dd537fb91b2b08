-------------------------- MODULE VerdictRegister --------------------------
(***************************************************************************)
(* What the review ledger promises to everyone who reports verdicts: for   *)
(* each review key at most one final verdict is ever chosen, and no other  *)
(* one is ever reported as final.                                          *)
(***************************************************************************)
CONSTANTS Keys, Verdicts, None

VARIABLES chosen,    \* the final verdict of each key, or None
          reported   \* the final verdicts reported for each key

Choose(k) ==
  /\ chosen[k] = None
  /\ chosen'[k] \in Verdicts
  /\ chosen' = [chosen EXCEPT ![k] = chosen'[k]]
  /\ UNCHANGED reported

Report(k) ==
  /\ chosen[k] # None
  /\ reported' = [reported EXCEPT ![k] = @ \cup {chosen[k]}]
  /\ UNCHANGED chosen

Init == /\ chosen   = [k \in Keys |-> None]
        /\ reported = [k \in Keys |-> {}]

Next == \E k \in Keys : Choose(k) \/ Report(k)

Spec == Init /\ [][Next]_<<chosen, reported>>

=============================================================================
