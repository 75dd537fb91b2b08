--------------------------- MODULE MCAgentReview ---------------------------
(* Instances of AgentReview for TLC.                                       *)
EXTENDS AgentReview

MCManifests == {<<"same">>, <<"same", "different">>, <<"unsafe">>}

(* Pages end by count, by size, by both, or with the items; some fill a    *)
(* response to the last byte; one line alone is too big for a response,    *)
(* and is still too big when it is cut in the third content.               *)
MCContents == {<<1, 2, 2, 5>>, <<3, 1, 2>>, <<5, 1>>}

MCDense == {<<<<5, 1>>, 1>>}

Cited(root, from, to) == [root |-> root, from |-> from, to |-> to, exists |-> TRUE]

Submitted(decision, violations) ==
  [decision |-> decision, violations |-> violations, wellFormed |-> TRUE]

(* Valid ones, and one for each way to be wrong.                           *)
MCReports ==
  {Submitted("compliant", <<>>),
   Submitted("inconclusive", <<>>),
   Submitted("violation", <<<<Cited("submission", 1, 2), Cited("baseline", 1, 1)>>>>),
   Submitted("violation", <<>>),
   Submitted("compliant", <<<<Cited("submission", 1, 1)>>>>),
   Submitted("violation", <<<<Cited("baseline", 1, 1)>>>>),
   Submitted("violation", <<<<Cited("submission", 1, 9)>>>>),
   [Submitted("compliant", <<>>) EXCEPT !.wellFormed = FALSE]}

=============================================================================
