---------------------------- MODULE MCAuditBatch ----------------------------
(* Instances of AuditBatch for TLC.                                        *)
EXTENDS AuditBatch, TLC

CONSTANTS c1, c2, p1, j1, j2, x1, x2, t1, t2

(* A compliance task and a plagiarism task; the catalog may have grown     *)
(* between two executions.                                                 *)
MCProposals == {<<c1>>, <<c1, p1>>}

(* Two compliance tasks.                                                   *)
MCTwoTasks == {<<c1, c2>>}

Symmetry == Permutations(Processes) \cup Permutations(RunIds)

=============================================================================
