----------------------------- MODULE AuditBatch -----------------------------
(***************************************************************************)
(* AuditRunner.run (runner.py) on FileReportStore (report_store.py) and    *)
(* FileReviewLedger (review_ledger.py): processes that execute batches of  *)
(* review tasks, one task after the other.  A batch (a run id) can be      *)
(* executed again after it failed or its process died, and several batches *)
(* can be executed at the same time; they share the ledger of verdicts and *)
(* the derived reports.                                                    *)
(*                                                                         *)
(* All files are written by write_create_only: a file appears complete or  *)
(* not at all, is never replaced, and a second write succeeds only if it   *)
(* brings the same bytes.  One action is one such write, one read of the   *)
(* ledger or of the summary, or one answer of the model.                   *)
(***************************************************************************)
EXTENDS Naturals, Sequences, FiniteSets

CONSTANTS
  Processes,   \* processes that execute batches
  RunIds,      \* batches
  Compliance,  \* review keys of compliance tasks
  Plagiarism,  \* review keys of plagiarism tasks
  Proposals,   \* task lists that a request can select from the catalog
  Texts,       \* what tells apart two model answers with the same decision
  None,        \* a file that does not exist; no run, no review at hand
  MaxCalls,    \* bound: answers of the model in a behaviour
  MaxExecutions  \* bound: executions of batches in a behaviour

Keys == Compliance \cup Plagiarism

VARIABLES
  ledger,      \* cache/review: the review stored under each key
  manifests,   \* per run id: the task list of manifest.json
  results,     \* per run id: results/, the result of each task
  attempts,    \* per run id: attempts/, by content
  summaries,   \* per run id: summary.json
  attemptSummaries,  \* per run id: attempt-summaries/, by content
  derived,     \* owners/ and plagiarism/: the reviews published of each key
  pc, run, pos, review, count,  \* per process: its step, run id, position in
               \* the task list, review at hand, and the counters of the summary
  calls,       \* answers of the model so far; the next one is newer than these
  executions   \* of batches, begun so far

runDirs == <<manifests, results, attempts, summaries, attemptSummaries>>
disk    == <<ledger, runDirs, derived>>
process == <<pc, run, pos, review, count>>
vars    == <<disk, process, calls, executions>>

-----------------------------------------------------------------------------
(* Reviews.                                                                *)

Decisions(k) ==
  IF k \in Compliance THEN {"compliant", "violation", "inconclusive"}
                      ELSE {"plagiarism", "independent", "inconclusive"}

AllDecisions == {"compliant", "violation", "plagiarism", "independent", "inconclusive"}

(* at stands for completed_at: no two answers are byte for byte the same.  *)
Reviews == [decision : AllDecisions, text : Texts, at : Nat]

Answers(k) == [decision : Decisions(k), text : Texts, at : {calls + 1}]

(* model_response_digest is computed from the answer only.                 *)
SameResponse(u, v) == u.decision = v.decision /\ u.text = v.text

Conclusive(v) == v.decision # "inconclusive"

(* A compliance verdict may be reused only if it is "compliant".           *)
Reusable(k, v) == k \in Compliance => v.decision = "compliant"

Final(k, v) == Conclusive(v) /\ Reusable(k, v)

(* write_create_only                                                       *)
CanWrite(stored, v) == stored = None \/ stored = v

(* The counters of a summary.                                              *)
Counts == [hits : Nat, calls : Nat, completed : Nat, inconclusive : Nat, failed : Nat]

ZeroCount == [hits |-> 0, calls |-> 0, completed |-> 0, inconclusive |-> 0, failed |-> 0]

SetCount(p, c) == count' = [count EXCEPT ![p] = c]

(* None is not a file's content.                                           *)
ASSUME BatchConstants ==
  /\ Compliance \cap Plagiarism = {}
  /\ Proposals \subseteq Seq(Keys)
  /\ None \notin Proposals \cup RunIds
  /\ None \notin Reviews
  /\ None \notin Counts
  /\ MaxCalls \in Nat
  /\ MaxExecutions \in Nat

Tasks(p) == manifests[run[p]]
Key(p)   == Tasks(p)[pos[p]]

Goto(p, label) == pc' = [pc EXCEPT ![p] = label]

Continue(p, label) == Goto(p, label) /\ UNCHANGED <<run, pos, review, count>>

Exit(p, label) ==
  /\ Goto(p, label)
  /\ run'    = [run EXCEPT ![p] = None]
  /\ pos'    = [pos EXCEPT ![p] = 1]
  /\ review' = [review EXCEPT ![p] = None]
  /\ SetCount(p, ZeroCount)

(* A FileExistsError, which run does not catch.                            *)
Conflict(p) == Exit(p, "conflict")

-----------------------------------------------------------------------------
(* The steps of an execution.                                              *)

(* write_manifest: a run id keeps the task list it was first executed with.*)
Begin(p, j) ==
  /\ pc[p] \in {"idle", "conflict"}
  /\ executions < MaxExecutions /\ executions' = executions + 1
  /\ \E tasks \in Proposals :
       /\ CanWrite(manifests[j], tasks)
       /\ manifests' = [manifests EXCEPT ![j] = tasks]
  /\ Goto(p, "begun")
  /\ run' = [run EXCEPT ![p] = j]
  /\ UNCHANGED <<ledger, results, attempts, summaries, attemptSummaries, derived,
                 pos, review, count, calls>>

(* A batch with a summary is not executed again.                           *)
ReadSummary(p) ==
  /\ pc[p] = "begun"
  /\ IF summaries[run[p]] = None THEN Continue(p, "next") ELSE Exit(p, "idle")
  /\ UNCHANGED <<disk, calls, executions>>

Lookup(p) ==
  /\ pc[p] = "next" /\ pos[p] \in DOMAIN Tasks(p)
  /\ LET cached == ledger[Key(p)] IN
       IF cached # None /\ Final(Key(p), cached)
       THEN /\ Goto(p, "result")
            /\ review' = [review EXCEPT ![p] = cached]
            /\ SetCount(p, [count[p] EXCEPT !.hits = @ + 1, !.completed = @ + 1])
       ELSE /\ Goto(p, "calling")
            /\ SetCount(p, [count[p] EXCEPT !.calls = @ + 1])
            /\ UNCHANGED review
  /\ UNCHANGED <<disk, run, pos, calls, executions>>

(* Mutant of AfterAnswer: every conclusive review goes into the ledger.    *)
AfterAnswerCachingAll(k, v) ==
  IF Conclusive(v) THEN "record" ELSE "attempt"

(* Where a review that the model gave goes.                                *)
AfterAnswer(k, v) ==
  IF Final(k, v) THEN "record" ELSE IF Conclusive(v) THEN "result" ELSE "attempt"

Reviewed(p) ==
  /\ pc[p] = "calling" /\ calls < MaxCalls
  /\ \E v \in Answers(Key(p)) :
       /\ review' = [review EXCEPT ![p] = v]
       /\ Goto(p, AfterAnswer(Key(p), v))
       /\ SetCount(p, IF Conclusive(v)
                      THEN [count[p] EXCEPT !.completed = @ + 1]
                      ELSE [count[p] EXCEPT !.inconclusive = @ + 1])
  /\ calls' = calls + 1
  /\ UNCHANGED <<disk, run, pos, executions>>

(* ReviewError                                                             *)
ReviewFails(p) ==
  /\ pc[p] = "calling"
  /\ Goto(p, "attempt")
  /\ SetCount(p, [count[p] EXCEPT !.failed = @ + 1])
  /\ UNCHANGED <<disk, run, pos, review, calls, executions>>

(* Mutant of Record: a verdict that is there already is replaced.          *)
RecordReplacing(p) ==
  /\ pc[p] = "record"
  /\ ledger' = [ledger EXCEPT ![Key(p)] = review[p]]
  /\ Continue(p, "result")
  /\ UNCHANGED <<runDirs, derived, calls, executions>>

Record(p) ==
  /\ pc[p] = "record"
  /\ IF CanWrite(ledger[Key(p)], review[p])
     THEN /\ ledger' = [ledger EXCEPT ![Key(p)] = review[p]]
          /\ Continue(p, "result")
     ELSE Conflict(p) /\ UNCHANGED ledger
  /\ UNCHANGED <<runDirs, derived, calls, executions>>

WriteResult(p) ==
  /\ pc[p] = "result"
  /\ IF CanWrite(results[run[p]][Key(p)], review[p])
     THEN /\ results' = [results EXCEPT ![run[p]] = [@ EXCEPT ![Key(p)] = review[p]]]
          /\ Continue(p, "publish")
     ELSE Conflict(p) /\ UNCHANGED results
  /\ UNCHANGED <<ledger, manifests, attempts, summaries, attemptSummaries, derived,
                 calls, executions>>

NextTask(p) ==
  /\ Goto(p, "next")
  /\ pos'    = [pos EXCEPT ![p] = @ + 1]
  /\ review' = [review EXCEPT ![p] = None]
  /\ UNCHANGED <<run, count>>

(* An attempt is stored by its content, and nothing of a failed one is     *)
(* published.                                                              *)
WriteAttempt(p) ==
  /\ pc[p] = "attempt"
  /\ attempts' = [attempts EXCEPT ![run[p]] = @ \cup {<<Key(p), review[p]>>}]
  /\ IF review[p] = None
     THEN NextTask(p)
     ELSE Continue(p, "publish")
  /\ UNCHANGED <<ledger, manifests, results, summaries, attemptSummaries, derived,
                 calls, executions>>

(* The name of an owner's report tells its content, that of a plagiarism   *)
(* report only the answer of the model.                                    *)
CanPublish(k, v) ==
  k \in Plagiarism => \A u \in derived[k] : SameResponse(u, v) => u = v

Publish(p) ==
  /\ pc[p] = "publish"
  /\ IF CanPublish(Key(p), review[p])
     THEN /\ derived' = [derived EXCEPT ![Key(p)] = @ \cup {review[p]}]
          /\ NextTask(p)
     ELSE Conflict(p) /\ UNCHANGED derived
  /\ UNCHANGED <<ledger, runDirs, calls, executions>>

(* Mutant of AllResolved: inconclusive reviews are not looked at.          *)
NothingFailed(c) == c.failed = 0

AllResolved(c) == c.failed = 0 /\ c.inconclusive = 0

Finish(p) ==
  /\ pc[p] = "next" /\ pos[p] = Len(Tasks(p)) + 1
  /\ IF ~AllResolved(count[p])
     THEN /\ attemptSummaries' = [attemptSummaries EXCEPT ![run[p]] = @ \cup {count[p]}]
          /\ Exit(p, "idle") /\ UNCHANGED summaries
     ELSE IF CanWrite(summaries[run[p]], count[p])
     THEN /\ summaries' = [summaries EXCEPT ![run[p]] = count[p]]
          /\ Exit(p, "idle") /\ UNCHANGED attemptSummaries
     ELSE Conflict(p) /\ UNCHANGED <<summaries, attemptSummaries>>
  /\ UNCHANGED <<ledger, manifests, results, attempts, derived, calls, executions>>

(* The process dies between two writes, or another exception ends it.      *)
Crash(p) ==
  /\ pc[p] \notin {"idle", "conflict"}
  /\ Exit(p, "idle")
  /\ UNCHANGED <<disk, calls, executions>>

-----------------------------------------------------------------------------

Init ==
  /\ ledger    = [k \in Keys |-> None]
  /\ manifests = [j \in RunIds |-> None]
  /\ results   = [j \in RunIds |-> [k \in Keys |-> None]]
  /\ attempts  = [j \in RunIds |-> {}]
  /\ summaries = [j \in RunIds |-> None]
  /\ attemptSummaries = [j \in RunIds |-> {}]
  /\ derived   = [k \in Keys |-> {}]
  /\ pc        = [p \in Processes |-> "idle"]
  /\ run       = [p \in Processes |-> None]
  /\ pos       = [p \in Processes |-> 1]
  /\ review    = [p \in Processes |-> None]
  /\ count     = [p \in Processes |-> ZeroCount]
  /\ calls = 0 /\ executions = 0

Step(p) ==
  \/ \E j \in RunIds : Begin(p, j)
  \/ ReadSummary(p) \/ Lookup(p) \/ Reviewed(p) \/ ReviewFails(p) \/ Record(p)
  \/ WriteResult(p) \/ WriteAttempt(p) \/ Publish(p) \/ Finish(p) \/ Crash(p)

Next == \E p \in Processes : Step(p)

Spec == Init /\ [][Next]_vars

-----------------------------------------------------------------------------
(* Properties.                                                             *)

PcLabels == {"idle", "begun", "next", "calling", "record", "result", "attempt",
             "publish", "conflict"}

(* Every variable has its type; the ledger, which later batches trust      *)
(* blindly, holds only verdicts that may be reused, and results/ only      *)
(* conclusive ones.                                                        *)
TypeOK ==
  /\ ledger    \in [Keys -> Reviews \cup {None}]
  /\ manifests \in [RunIds -> Proposals \cup {None}]
  /\ results   \in [RunIds -> [Keys -> Reviews \cup {None}]]
  /\ attempts  \in [RunIds -> SUBSET (Keys \X (Reviews \cup {None}))]
  /\ summaries \in [RunIds -> Counts \cup {None}]
  /\ attemptSummaries \in [RunIds -> SUBSET Counts]
  /\ derived   \in [Keys -> SUBSET Reviews]
  /\ pc        \in [Processes -> PcLabels]
  /\ run       \in [Processes -> RunIds \cup {None}]
  /\ pos       \in [Processes -> Nat]
  /\ review    \in [Processes -> Reviews \cup {None}]
  /\ count     \in [Processes -> Counts]
  /\ calls \in Nat /\ executions \in Nat
  /\ \A k \in Keys : ledger[k] # None => Final(k, ledger[k])
  /\ \A j \in RunIds, k \in Keys : results[j][k] # None => Conclusive(results[j][k])

(* A batch that says it is done is done: whatever crashed, failed or ran   *)
(* beside it, a summary exists only if every task of the manifest has a    *)
(* conclusive result, this very result is published for the people who     *)
(* decide, and the counters account for every task.                        *)
SummaryMeansPublished ==
  \A j \in RunIds :
    summaries[j] # None =>
      /\ manifests[j] # None
      /\ \A i \in DOMAIN manifests[j] :
           LET k == manifests[j][i] IN
             results[j][k] # None /\ results[j][k] \in derived[k]
      /\ summaries[j].completed = Len(manifests[j])
      /\ summaries[j].hits + summaries[j].calls = Len(manifests[j])

(* All batches agree: for one review key no two different final verdicts   *)
(* are in the ledger, in the results of any batch or among the published   *)
(* reports, however many processes reviewed the key at the same time.      *)
Register ==
  INSTANCE VerdictRegister WITH
    Verdicts <- Reviews,
    chosen   <- ledger,
    reported <- [k \in Keys |->
                  {v \in derived[k] \cup {results[j][k] : j \in RunIds} :
                     v # None /\ Final(k, v)}]

ImplementsRegister == Register!Spec

=============================================================================
