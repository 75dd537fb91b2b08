-------------------------- MODULE MCPlagiarismRuns --------------------------
(* Instances of PlagiarismRuns for TLC.                                    *)
EXTENDS PlagiarismRuns, TLC

CONSTANTS r1, r2, w1, w2, a, b, c, k1, k2, t1

(* The runs are about submission a; r1 and r2 meet in the key k1.          *)
MCTarget     == [r \in Runs |-> a]
MCRank       == [r \in Runs |-> IF r = r1 THEN 1 ELSE 2]
MCPairOf     == (k1 :> {a, b}) @@ (k2 :> {a, c})
MCCandidates == [r \in Runs |-> IF r = r1 THEN <<k1, k2>> ELSE <<k1>>]
OneCandidate == [r \in Runs |-> <<k1>>]

(* The failures that are retried come from conflicts and bad requests.     *)
MCExecutorFailures == {"BASELINE_MISSING"}

(* Threads are interchangeable; runs are not, they have other candidates.  *)
Symmetry == Permutations(Workers)

=============================================================================
