---------------------------- MODULE MCAgentRuns ----------------------------
(* Instances of AgentRuns for TLC.                                         *)
EXTENDS AgentRuns, TLC

CONSTANTS r1, r2, w1, w2

(* One code of each kind: retried for every run, retried for manual runs   *)
(* only, never retried.                                                    *)
MCExecutorFailures == {"MODEL_UNAVAILABLE", "RESULT_INVALID", "WORKSPACE_INVALID"}

(* Threads are interchangeable; runs are not, one of them is manual.       *)
Symmetry == Permutations(Workers)

=============================================================================
