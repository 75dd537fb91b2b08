---------------------------- MODULE MCReportApi ----------------------------
(* Instances of ReportApi for TLC.                                         *)
EXTENDS ReportApi

MCSubmission(id, lab) ==
  [id |-> id, lab |-> lab, canonical |-> TRUE, texts |-> TRUE, runState |-> "Success"]

(* Requests of one submission: for an agent run and for a plagiarism run,  *)
(* with a window of two time units, and one whose corpus lacks the target. *)
MCReview ==
  [fields |-> TRUE, key |-> "plat", signed |-> "plat", schema |-> "review-bundle-v1",
   audience |-> "oj-checker", source |-> "nightly", model |-> "glm", texts |-> TRUE,
   issued |-> 0, expires |-> 2, submissions |-> <<MCSubmission("s", "lab2")>>,
   target |-> "s", basis |-> TRUE]

MCPlagiarism ==
  [MCReview EXCEPT !.schema = "plagiarism-review-bundle-v1", !.source = "manual",
     !.submissions = <<MCSubmission("s", "lab2"), MCSubmission("o", "lab2")>>]

MCLaterReview == [MCReview EXCEPT !.issued = 1]

MCEnvelopes == {MCReview, MCLaterReview, MCPlagiarism}

=============================================================================
