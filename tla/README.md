# Verification of the OJ checker

This directory holds TLA+ models of `oj_checker` (the Python package under
`src/src/oj_checker/`), the TLC runs that check them on small instances, and
TLAPS proofs of their safety for every instance. Paths like `runner.py:410`
are relative to `src/src/oj_checker/`.

1. [The system](#1-the-system)
2. [What is hard about it](#2-what-is-hard-about-it)
3. [Modules and their code](#3-modules-and-their-code)
4. [Runs](#4-runs)
5. [Proofs](#5-proofs)
6. [Where code and documents differ](#6-where-code-and-documents-differ)
7. [Plan](#7-plan)
8. [Not modelled](#8-not-modelled)

## 1. The system

The program reviews submissions of an online judge for compliance (against the
rules of a lab) and for plagiarism (against other submissions), with the help
of a language model, and publishes reports on which people decide. It runs in
three forms: a nightly **batch** over the whole catalog (`runner.py`), an HTTP
service that accepts signed requests for a **compliance review of one
submission** by an agent with read-only tools (`agent_runs.py`,
`agent_execution.py`, `agent_reviewer.py`), and one for a **plagiarism review
of one submission** (`plagiarism_runs.py`, `plagiarism_execution.py`).
Everything durable is a file: written once, complete or not at all
(`immutable_store.py`), except for the run directories of the two services,
which are append-only logs.

| component | state it keeps | operations | talks to | what makes it correct |
|---|---|---|---|---|
| Agent run service `agent_runs.py` | per run a directory: request, events, `_READY`, `result.json`; in memory the index `_runs`, a bounded queue, worker threads | create, get, latest; worker: prepare, run, finalise, complete or fail; start: rebuild the index, recover; reconcile failed runs | agent executor (call), report API (called by) | bounded attempts; one thread per run; a completed run has its result; final is final; nothing accepted is forgotten |
| Plagiarism run service `plagiarism_runs.py` | the same, without bundles of sources | the same, oldest failure first | plagiarism executor, report API | the same, and old failures are not starved |
| Agent executor `agent_execution.py` | a private workspace per execution | fetch, verify and unpack the bundle, review, map exceptions to codes | reviewer agent, workspace, basis | every failure has a code; the workspace is always removed |
| Agent review loop `agent_reviewer.py` | the conversation, turn and call counters | turn, tool calls, correction, retry, finish | model, tools | ends within its limits; only a report that was validated alone in its turn is accepted |
| Tools, workspace `agent_tools.py`, `agent_workspace.py` | a read-only directory | list, read, search with a response limit | review loop | nothing outside the workspace; every response within its limit |
| Plagiarism executor `plagiarism_execution.py` | none of its own | for each candidate: look up, review, record, publish; then the result | ledger and reports of the batch | counts add up; one verdict per pair, whatever runs beside it |
| Audit runner `runner.py` | the manifest, position and counters of a batch | select tasks; for each: look up, review, record, write result or attempt, publish; then summary | catalog, similarity, reviewer, ledger, report store | a summary only over published conclusive results; all batches agree on a final verdict |
| Review ledger, report store `review_ledger.py`, `report_store.py`, `immutable_store.py` | final verdicts by review key; manifests, results, attempts, summaries, derived reports | create-only writes, lookup, record | all that review; readers | what is stored is never replaced |
| Reviewer `reviewer.py` | none | split a task into chunks, ask, validate evidence, merge chunk verdicts, retry | model | merging never loses a violation or a failed chunk |
| Similarity, catalog, scope `similarity.py`, `catalog.py`, `domain.py`, `review_scope.py`, `postgres_catalog.py` | none (a read-only database) | candidate pairs, best submission per owner and lab, include closure | audit runner, executors | same result in any order of the input; no pair of one owner; closure complete |
| Submission store `submission_store.py` | none (read-only files) | read a submission within two byte budgets | reviewer | a file that was cut never looks complete |
| Report API, readers `report_api.py` | an index of reports refreshed every 30 s, 32 request slots, a launch lock | list and read reports, launch, create runs | stores and run services | a launched report is visible; no slot is lost |
| Bundles, basis `review_bundle.py`, `plagiarism_bundle.py`, `review_basis.py` | none | sign, verify, unpack; read a Git revision | report API, executors | an expired or altered envelope is refused |
| Nightly trigger, CLI `nightly.py`, `cli.py`, `__main__.py` | none | trigger over HTTP; construct everything | report API | - |
| Scripts `scripts/` | none | probe a model endpoint, smoke-test a deployment | - | - |

Interactions: the HTTP handlers (threads of the report API) call `create` and
`get` of the run services; these share a lock, the queue and the index with
their worker threads and their reconcile thread; workers call an executor
outside the lock. Batches and plagiarism executions share the ledger and the
derived reports through the file system, without any lock. The report readers
read what the others have written, later.

The deployment (`src/deploy/kubernetes/report-api.yaml`) runs one replica with
strategy `Recreate` and restart policy `Always`, 16 workers, a queue of 1000,
4 attempts per run, and reconciles 4 runs every 60 s.

## 2. What is hard about it

`PROJECT.json` lists every hazard at its line, with the properties that would
catch it. In short:

* **Run services.** A run is at the same time a log on disk, an entry of the
  index, perhaps an item of the queue and perhaps the job of a thread. The
  process can die between any two writes and in the middle of one; a write can
  fail, in front of its content, within it, or behind it (`os.fsync`, or the
  reads that follow); recovery, reconciliation, creation and the workers interleave and share
  the capacity of the queue. Attempts are counted by event files.
* **Batches.** The files of a task appear one after the other; an execution can
  be cut off after each of them and be repeated; another process can review the
  same key between lookup and record. Create-only writes turn each race into a
  `FileExistsError`.
* **Agent loop.** Model and network may do anything at any point of a
  conversation whose form the protocol prescribes; retries do not count as
  turns; pages are cut by number and by size.
* **Budgets, scope, chunks, merging.** Sequential code with many boundary values,
  in which a character, a file or a violation can get lost without an error.
* **Readers.** Cached indexes and "latest run" views that lag behind, rebuilt
  and read by any thread; slots and locks that are taken and given back in
  different functions.

## 3. Modules and their code

| module | what it is |
|---|---|
| `RunLifecycle` | abstract: what a run service promises of a request |
| `AgentRuns` | `agent_runs.py`, implements `RunLifecycle` |
| `AgentRunsProofs` | theorems about `AgentRuns` |
| `MCAgentRuns` | values for TLC |
| `VerdictRegister` | abstract: one final verdict per review key |
| `AuditBatch` | `runner.py` on `report_store.py`, `review_ledger.py`, `immutable_store.py`; implements `VerdictRegister` |
| `AuditBatchProofs` | theorems about `AuditBatch` |
| `MCAuditBatch` | values for TLC |
| `PlagiarismRuns` | `plagiarism_runs.py` composed with `plagiarism_execution.py`; implements `RunLifecycle` and `VerdictRegister` |
| `PlagiarismRunsProofs` | theorems about `PlagiarismRuns` |
| `MCPlagiarismRuns` | values for TLC |
| `AgentTools` | `agent_tools.py`: the pages in which a model sees a submission |
| `AgentReview` | `agent_execution.py`, `agent_workspace.py`, `agent_reviewer.py`: one execution of an agent run |
| `AgentReviewProofs` | theorems about `AgentReview` and `AgentTools` |
| `MCAgentReview` | values for TLC |
| `SignedBundles` | `review_bundle.py`, `plagiarism_bundle.py`: what makes a signed request valid |
| `ReportApi` | `report_api.py`: request threads, cached index, launches, runs; uses `SignedBundles` |
| `ReportApiProofs` | theorems about `ReportApi` |
| `MCReportApi` | values for TLC |
| `SourceEvidence` | `submission_store.py`, `review_scope.py`, the delta of `similarity.py`: what a compliance review gets to see |
| `PromptEvidence` | `reviewer.py`: from the delta to prompts, from answers to a verdict |
| `ComplianceReview` | `reviewer.py`: one compliance review, with every failure of a call |
| `EvidenceProofs` | lemmas about the operators of `SourceEvidence` and `PromptEvidence` |
| `ComplianceReviewProofs` | theorems about `ComplianceReview` |
| `MCComplianceReview` | values for TLC |

### AgentRuns

State on disk, per run: `stage` (how far `create` came: nothing, a directory
that cannot be read, one without `_READY`, a ready one), the last event that
can be read (`state`, `code`), whether a newer event file is cut short
(`torn`), the number of `preparing` events (`attempts`, which is how
`_attempt_count` counts) and `result.json` (`none`, `partial`, `good`).
In memory: `view` (the index `_runs`), `queue`, per worker `pc`, `job` and
`code` (the error code of the exception that is being handled), and `phase`,
`todo`, `requeued` for whoever holds the lock in `start` or in
`reconcile_failed`.

One action is one critical section of `_lock`, or one step of a worker outside
it. `Create` is the whole locked body of `create` (idempotency check, queue
check, directory, request, event, `_READY`, index, `put_nowait`); `CreateFails`
and `CrashInCreate` leave what it has written by then. The worker walks
`taken -> prepared -> executing -> executed -> finalized -> writing -> written`
through `_worker` and `_execute`; `Execute` ends with success or any code of
`ExecutorFailures`; `CreateResult` and `CloseResult` are the two moments at
which `result.json` is visible as an incomplete and as a complete file.
`Failed` is the exception handler; what is retried later, `IsRetryableFailure` and the limit of
attempts, is decided in `Candidates`. Recovery and reconciliation go run by run
(`RecoverRun`, `ReconcileRun`) in any order, so that deaths and the full queue
meet every prefix of a pass. `AppendFails`, `ResultFails`, `ReconcileFails` and
`CreateFails` are writes that raise. An append that raises leaves no event, a
part of one (`TornEvent`) or all of it (`EventFails`): `os.fsync` comes after the
content (`agent_runs.py:468`), and `_append_event` reads files behind it
(386-392). So the handler of `_execute` may append `failed` behind a complete
`completed`, a reconciliation may leave a queued run that it did not put into the
queue, and a creation a run with `_READY` that is in no index. `Crash`,
`CrashInAppend`, `CrashInCreate` are deaths of the process.

Four properties name what such a raise leaves open, and nothing more. `InDoubt`: a
completed run whose thread has yet to report the raise; only this thread may
still change its outcome (`FinalIsFinal`), and `Status` counts it as active.
`Raised` and `BrokenOff`: the index lags behind the log until the thread has
reported, or the next reconciliation comes (`IndexFollowsLog`). `CreationRaised`:
the run waits for a restart (`UnfinishedIsAssigned`).

Abstractions: a run id stands for a verified envelope (two requests with the
same digest are the same run); events hold only what the code reads back;
the order of a reconcile pass (newest failure first, `agent_runs.py:292`) is
left open, which allows more behaviours; `close` is a death, because worker
threads are daemons and are waited for only five seconds; a raise in `_recover`
ends the start, which is a death, too.

### AuditBatch

Files: the ledger, and per run id the manifest, results, attempts, summary and
attempt summaries; and the derived reports of each key. Per process: its place
in `_execute_reviews`, the run id, the position in the task list, the review at
hand and the five counters of the summary. One action is one create-only write,
one lookup, or one answer of the model. `CanWrite` is `write_create_only`: it
succeeds if nothing or the same bytes are there. A review differs from another
of the same key by its decision, by the text of the answer, and by
`completed_at`, so two answers are never the same bytes; this is what makes
races and repetitions visible. Names that contain a digest of their content
(attempts, attempt summaries, owner reports) are sets; the name of a plagiarism
report contains only key and response digest, which is `CanPublish`.
An execution ends by `Finish`, by an exception (`conflict`), or by `Crash` at
any step.

What selects the tasks is an input (`Proposals`), so that the catalog may
change between two executions of the same run id (`write_manifest` then raises,
and `Begin` is not enabled). The manifest is written and compared in one step:
two processes cannot both create it.

### PlagiarismRuns

The service part is `AgentRuns` with what differs in `plagiarism_runs.py`: a run
has a time, `created` (`created_at`), and the index a second map, `latest`
(`_latest_by_submission`), which `Remember` keeps; recovery stops at a full queue
(`RecoverQueued`); the codes that are retried are others. Files are written in
place as there (`plagiarism_runs.py:406-420`), so that a death or a raise leaves
any of them out, half written or complete.

`create` takes the time (137) before it asks for the lock (146). Therefore
`MakeDirectory` chooses any of `Times`, and the order of creations is not the
order of requests. `_remember` compares the time and then the run id (218-221):
`Newer`, with `Rank` for the order of run ids, which are digests.

The executor is in the thread: `Load` (basis, sources, detection) ends with the
candidates or a failure, then for each candidate `Lookup`, `Answer` or
`ReviewFails`, `Record`, `Publish`, and at the end `Return`, which reads the
index of published reviews, not the reviews of this execution. `ledger` and
`published` survive a death and are shared with all other threads. `SameName`
says when two different reviews have the same file name. A review is its
conclusiveness, the digest of the answer and the time.

### AgentReview and AgentTools

State: how far the workspace is copied, the turn, the HTTP attempts in this turn
and in all (`sent`), what the stream of events amounts to so far, the calls of
the turn and the one to be handled, the conversation as roles with the number
of calls they carry, and what the model has seen of one listing. One action is
a copied file, an HTTP response, an event of the stream, a tool call, or the end
of a turn. `Fail` maps what is raised to a code as the handlers of `execute` do,
and removes the temporary directory. `HttpError`, `Interrupted`, `StreamEnds`,
`MalformedEvent` are the ways in which a call goes wrong; `Transient` is the
retry. `FinishReview` accepts a report that is valid and alone in its turn.

`AgentTools` gives each tool that can leave something out as an operator from
the items it would list and a cursor to an observation: `list_tree`, `search`
(and `find_references`, which is a search), `compare_file`, `read_lines`.
`FitList` is `_fit_list_payload`. An item is its size in the encoded response.
A page can be refused by `call` for its size (`agent_tools.py:115`): one of
`list_tree`, which is not fitted; one of `compare_file`, which is fitted without
the key `identical` (`IdenticalKey` is its size); one of `read_lines` whose only
line was cut to a number of characters that are more bytes (`Dense` says of which
lines), or which ends the range (`RangeEnd`: saying that there is no rest takes
more bytes than the rest it is measured with).
`Declined` stands for every answer that is an error for the model (an unknown
tool, bad arguments, a path that is refused) and for `file_info` and the
inventory, which return one fixed record. Texts are left out: a report is its
decision, what it cites, and whether the rest of it is well formed.

### ReportApi and SignedBundles

A thread handles one request from `Accept` to `Close`; between two actions of
one thread any other may move, which is where the code releases a lock or the
interpreter may switch. `index`, `indexedAt` and `lock` are the reader's cache:
`Check` is the look without the lock, `TakeLock` the second look with it,
`RefreshIfNeeded` and `Refresh` are the two ways to build, which note the time of
the beginning and of the end. A build sees all files that were there when it
began and any of those that came since. `LaunchBegins`, `Publish`, `LaunchEnds`
are a synchronous review under the launch lock, which is tried, not waited for.
`CreateRun` verifies an envelope with `SignedBundles` at the current time, a
worker (`RunEnds`) verifies the stored one at `AnyTime`.

Abstractions: a report is its sort key, a number; which thread object serves a
request does not matter; reading the body is part of handling (`Fails` is the
client that goes away); a run that waits, is executed or has failed is `open`,
since the API treats them alike; the plagiarism reader has the same code as the
compliance reader and is not repeated. `MaxBuild` is an assumption about the time
a build takes, named because `BoundedStaleness` depends on it: the code has no
limit. A build reads every report that is there: the code skips one that raises
`OSError` (`report_api.py:161-164`), so `LaunchShowsItsReport` and
`BoundedStaleness` are about readable files. The time of the index
begins at 0.0 of a monotonic clock (`report_api.py:112`), which is taken to have run
for longer than the interval: `indexedAt` begins at minus `RefreshSeconds`, and the
first reader builds.

### ComplianceReview, SourceEvidence and PromptEvidence

`job` is the submission and the parameters of its review and never changes. The
steps are those of the code: `SkipFile` and `LoadFile` for each declared file
(`load_bundle`), `BuildTask` (scope, baselines, delta), `BuildPrompts` (chunks or
budgets), then `Answered`, `Transient`, `Refused` or `Broken` for each call, and
`Conclude`. The algorithms are operators of the other two modules:

* `SourceEvidence`: byte budgets (`EffectiveLimits`, `ReadFile`), the execution
  scope of Lab 4 (`BuildInputs`, `AddIncludeClosure`, `RuntimeAssets`,
  `ExecutionScope`, which adds the fallback for submissions that were cut), the choice of a public reference (`SelectReference`) and
  baseline (`SelectedBaseline`), the delta (`BuildDelta`).
* `PromptEvidence`: budgets of the bounded strategy (`AllocateBudgets`,
  `DeltaPayload`), splitting and packing of the chunked one
  (`SplitEvidenceItem`, `ComplianceChunks`), validation (`ValidVerdicts`) and
  merging (`MergeVerdicts`).

Abstractions: a text is its length and the positions of its newlines; a byte is a
character; the declared size of a file is its size; the differences of a file
against each baseline are given, as hunks; a search in a text is a relation
between files (`names`, `literals`, `includes`); of the files whose text decides
what is built, `script` stands for those with the names that the reviewer also
sends as context (`reviewer.py:380, 1116`) and `fragment` for the others (`.cmake`,
`.mk`, `.make`); there is one public reference. A prompt says four times which one
of how many it is (`reviewer.py:511, 578-581`), so `PromptChars` counts the digits of
these numbers (`Digits`; `Powers` are the numbers at which one more is needed), and
packing measures with number 1 of 2 (`ChunkPromptChars`), as the code does. Diagnostics,
`confidence` and the budget of the source context, which no decision depends on,
are left out. The references of a truncated file do not matter, because
`ExecutionScope` then takes everything.

### Abstract specifications

`RunLifecycle`: an accepted request waits, is attempted at most `MaxAttempts`
times, ends completed or rejected for good; a retryable failure may be queued
again, or turn out to have left its result behind. The mapping `Status` in
`AgentRuns` and in `PlagiarismRuns` reads it off the log.

`VerdictRegister`: a write-once register per review key; only the chosen
verdict is ever reported as final. The mapping takes the ledger as `chosen`,
and as `reported` the final verdicts among all results and published reports
(`AuditBatch`) or among all published reviews (`PlagiarismRuns`).

## 4. Runs

| run | instance | checks | shows |
|---|---|---|---|
| `agent_runs_safety` | 2 runs (one manual), 2 workers, queue of 1, 2 attempts, 2 deaths, 2 failing writes | types and queue capacity, `AttemptsBounded`, `CompletedHasResult`, `SingleDispatch`, `ResultCreationIsExclusive`, `IndexFollowsLog`, `FinalIsFinal`, `ImplementsLifecycle` | no interleaving of workers, requests, recovery and reconciliation loses count, doubles a run, reopens it or reports what is not there |
| `agent_runs_liveness` | the same with a queue of 2, 2 deaths, 1 failing write, fairness | `UnfinishedIsAssigned`, `AcceptedRunSettles` | a restart forgets no run; each accepted run settles |
| `agent_runs_torn_event` | 1 death | violates `InterruptedRunSettles` | section 6 |
| `audit_batch` | 2 processes, 2 run ids, a compliance and a plagiarism task, 3 answers, 3 executions | types with what may be cached, `SummaryMeansPublished`, `ImplementsRegister` | a summary means published conclusive results; all batches agree |
| `plagiarism_runs` | 2 runs of one target with one candidate pair in common, 2 threads, queue of 2, 2 attempts, 2 answers, 1 death, 1 failing write | types, `ReportAccountsForCandidates`, `ImplementsRegister`, `ImplementsLifecycle` | overlapping executions agree on each verdict; a report owns up to every candidate; no death and no raise leads out of the life cycle |
| `plagiarism_runs_live` | 2 runs of one target with one candidate pair, requested at 2 moments, 2 threads, 1 death, no failing write; fairness | `LatestIsNewest`, `AcceptedRunSettles` | the latest run is the one requested last, in any order of creation and of reading; a conflict over one verdict does not stop a run for good |
| `agent_review` | 3 turns of at most 2 calls, 2 attempts, tool calls numbered up to 2, pages of 2 items or 4 bytes, lines that are too large also when cut; fairness | types, `ConversationWellFormed`, `ReportStandsOnEvidence`, `CallsBounded`, `ContinuationCovers`, `ReviewEnds` | whatever model, network and files do: the review ends within its limits, an accepted report was alone and cites what exists, and following cursors skips nothing |
| `interrupted_call` | the same | violates `InterruptedCallIsRetried` | section 6 |
| `report_api` | 2 threads, 3 requests, 2 reports, 3 envelopes of one submission, clock up to 2, refresh after 1, builds of at most 1; fairness | types with mutual exclusion, `SlotsConserved`, `LaunchShowsItsReport`, `BoundedStaleness`, `AcceptedRunsStayValid`, `IndexNeverGoesBack`, `RequestsEnd` | the cached index never goes back and is never too old; a launch shows its report; no slot or lock is lost |
| `old_report_stays` | the same | violates `OldReportStays` | section 6 |
| `compliance_review` | 520 submissions of up to 8 files with their parameters, up to 6 prompts, 2 calls each, 5 answers; fairness | types, `BundleAccountsForFiles`, `ConclusiveMeansAllSeen`, `MergeLosesNothing`, `ChunksFit`, `CutsOnlyWhenFull`, `ReviewEnds` | a conclusion stands on all the evidence; no violation is lost in merging; every review ends |
| `include_closure` | the same | violates `IncludeClosureIsSeen` | section 6 |

**Bounds and why they are enough.** Two runs and two workers are the least for
which two threads can compete for a run or a run for a place in the queue; a
queue of one place makes it full as soon as a second run exists, and with a
queue of two (liveness) it can hold all runs. Two attempts let a run be retried
once and refused once. Two deaths allow a recovery to be interrupted by the
second one; two failing writes allow the handler of the first to fail as well,
each in front of, within or behind its event.
`ExecutorFailures` holds one code of each kind: retried always, retried for
manual runs only, never retried. For batches, two processes with three
executions let two execute side by side and one of them be repeated; three
answers let both review the same key and one of them review it again, or let
a task stay open and be answered later. One answer text suffices there: what
differs between two answers is already in the decision and in `completed_at`.
For `plagiarism_runs` the two runs meet in one key, and one of them has another
candidate, so that each can be ahead; the answers of two calls can differ; one
death and one failing write can come at any of their steps. Two moments
(`plagiarism_runs_live`) are the least in which runs of one moment and runs
created in the wrong order occur; a death makes the index be built again in any
order; the one candidate is the one over which two threads compete. In `agent_review` three turns are the least
in which a turn without a hint, one with a hint and a last one differ; calls can
be one too many (numbered 0 to 2, limit 2); pages are cut by number, by size and
by both, and one line alone is too large for a page. In `report_api` two threads
compete for each lock and a third request finds what they left; the clock can
pass the window of an envelope and the age at which an index is rebuilt. In
`compliance_review` the small limits take the place of the real ones, and the sizes of files,
hunks and prompts lie at and around each of them: a text is split
in three, with the last part full or not, a file is cut by its own limit or by
what is left of the total, and a budget is more and less than needed. Numbers of
prompts get a second digit at 3 (`Powers`), so that prompts are sent with longer
numbers than they were measured with.

Deadlock is not checked: each of these systems rightly stops when nothing is
left to do and the bounds are used up.

**Fairness** (`FairSpec` of `AgentRuns`): weakly fair steps of each worker
(threads are scheduled; an execution returns, since the model client has a
timeout and the loop a limit of turns) and weakly fair passes (a dead process is
started again by the restart policy `Always`; a pass holds the lock and runs to
its end; the reconcile loop wakes up every `reconcile_interval_seconds`). No
fairness is assumed for requests, failures, deaths or faults.
`AcceptedRunSettles` excepts a run whose last event a death cut short, and
processes in which a write failed: `agent_runs_torn_event` shows that the first
exception is needed, and section 6 says how failing writes cost the service its
threads. `UnfinishedIsAssigned` holds under failing writes as well: a run whose
reconciliation raised behind its event is still failed in the index, and so a
candidate of the next pass; only a run whose creation raised behind `_READY` waits
for a restart. It assumes that there are workers
(a service without executor only records) and that the queue holds all runs:
with a smaller one `_recover` stops at the first run that finds no place
(`agent_runs.py:278`) and the others stay where they are until the next restart.

`PlagiarismRuns` assumes the same; its queue holds all runs in the instance,
because a full queue ends its recovery (`RecoverQueued`). `AgentReview` and
`ComplianceReview` are sequential and need only that some step is taken
(`WF_vars(Next)`): a read of the socket returns or times out, a stream of events
has a size limit of 2 MiB, and the thread is scheduled. `ReportApi` assumes weak
fairness of each thread: it is scheduled, its client sends the body or goes
away, and a review ends. The number of requests is bounded, so a lock that
others keep taking is free for good at some time, and weak fairness suffices;
nothing is assumed about arrivals, the clock, batches or runs. That a client sends
its body or goes away is an assumption about clients: the code sets no time for
it, and `RequestsEnd` rests on it.

Each property has a mutant: a plausible bug in one operator (a dropped limit, a
missing check of the result, a cached verdict that must not be reused, a
replaced file) with which TLC finds the property violated. They stand beside
the operator that they replace, marked "Mutant of".

## 5. Proofs

`tlapm M.tla` for each of `AgentRunsProofs`, `AuditBatchProofs`,
`PlagiarismRunsProofs`, `AgentReviewProofs`, `ReportApiProofs`, `EvidenceProofs`
and `ComplianceReviewProofs` checks everything below, for all values of the
constants that satisfy the named assumptions:

* `RunServiceConstants`: the limits are positive, as the constructor checks
  (`agent_runs.py:80-87`), and model values are kept apart;
* `BatchConstants`: the two kinds of keys are disjoint and `None` is not the
  content of a file;
* `PlagiarismConstants`: the limits are positive (`plagiarism_runs.py:54-67`),
  the candidates of a target are pairs that it is part of, run ids have an order
  without ties, and `None` is neither a run nor a review;
* `ToolConstants` and `ReviewConstants` (of `AgentReview`): the limits of a page, of a turn and of
  a review are positive, a shortened item fits into a response, and a call is sent
  once or twice (`agent_reviewer.py:92`);
* `ApiConstants`: there are finitely many threads, the limits are natural
  numbers, and `Submissions` has those that the envelopes name.
* `SourceConstants`, `PromptConstants` and `ReviewConstants` (of
  `ComplianceReview`): the limits of the policy, the floor of a part and the
  attempts are positive, `Submissions` are submissions (`JobOK`: a file names
  files of its submission, each file can be compared as an addition), and a
  well-formed verdict has one of the three decisions (`reviewer.py:1250`).

The bounds of deaths, faults, calls, executions, reports, requests and time are
arbitrary naturals.

| theorem | says |
|---|---|
| `Invariance` | `Spec => []IInv` for `AgentRuns` |
| `TypeCorrect`, `AttemptsAreBounded`, `CompletedRunsHaveResults`, `DispatchIsSingle`, `ResultsAreCreatedOnce`, `IndexAgrees` | the safety invariants of the run |
| `UnfinishedAreAssigned` | in a service with workers whose queue holds all runs, every unfinished run waits, is worked on or comes up in the next reconciliation, unless its creation raised |
| `FinalStaysFinal` | the action property: no step changes the outcome of a run that is completed or finally failed, except that the thread whose append raised reports it |
| `LifecycleIsImplemented` | `Spec => Lifecycle!Spec` |
| `BatchInvariance` | `Spec => []IInv` for `AuditBatch` |
| `BatchTypeCorrect`, `SummariesAreTrue` | its safety invariants |
| `RegisterIsImplemented` | `Spec => Register!Spec` |
| `Invariance` of `PlagiarismRunsProofs` | `Spec => []IInv` for `PlagiarismRuns` |
| `Typed`, `ReportsAccount`, `LatestAnswersNewest` | its safety invariants |
| `LifecycleIsImplemented`, `RegisterIsImplemented` of `PlagiarismRunsProofs` | `Spec => Lifecycle!Spec` and `Spec => Register!Spec`: one service implements both abstract specifications |
| `Invariance` of `AgentReviewProofs` | `Spec => []IInv` for `AgentReview` |
| `Typed`, `ConversationsAreWellFormed`, `ReportsStandOnEvidence`, `ModelCallsAreBounded`, `ContinuationsCover` | its safety invariants |
| `Invariance` of `ComplianceReviewProofs` | `Spec => []Inv` for `ComplianceReview` |
| `Typed`, `BundleAccounts`, `ConclusionsStandOnAll`, `MergedInFull`, `ChunksAlwaysFit`, `BudgetsAreSpent` | its safety invariants, all that its run checks |
| `SplitCovers`, `ChunksAre`, `ExecutionScopeIs`, `AllocateBudgetsIs` of `EvidenceProofs` | what the algorithms give for inputs of any size |
| `Invariance` of `ReportApiProofs` | `Spec => []IInv` for `ReportApi` |
| `TypeCorrect`, `SlotsAreConserved`, `LaunchFindsItsReport`, `StalenessIsBounded`, `AcceptedStaysValid` | its safety invariants |
| `IndexGrows` | the action property: a rebuild never replaces an index by an older one |

**AgentRuns.** None of the safety invariants is inductive. `AttemptsBounded`
fails in a state where a run waits in the queue with all attempts used up, so
`RunInv` says that a queued run has attempts left; this is preserved by
reconciliation only because its candidates were chosen for it and nobody else
can touch a failed run, so `PassInv` says what `todo` may contain while the lock
is held. `SingleDispatch` needs that a run which a thread holds is not failed in
the index (`WorkerInv`), because the reconciler decides on the index. `JobAt`
ties the place of a thread to the log of its run. For the index to agree with
the log, `RunInv` follows the difference between a run that cannot be read and
one whose entry could not be refreshed, because the refresh or the append before it
raised. The refinement and `FinalIsFinal` need that a thread with a raise to report
holds the only way out of a completed run (`InDoubt`). The proof has a lemma per action.
`UnfinishedIsAssigned` speaks of a serving process only and needs the phases
before: `NoneForgotten` says that from the restart on the queue, a thread or
the recovery under way answers for each unfinished run. It is kept because a
queue without repetitions that lacks one run is shorter than the number of runs
(`RoomForOneMore`), so recovery never stops early.

**AuditBatch.** `SummaryMeansPublished` needs, for each process, that the tasks
behind it are done as long as it counts no failed and no open task
(`DoneInv`), which in turn needs that the counters account for every task
(`CountInv`), that the process stands where it says (`PlaceInv`), and what is
stored already of the review at hand (`ReviewInv`). `Agreement` (a final verdict
anywhere is the one in the ledger) gives the refinement: only `Record` writes
the ledger, and only where nothing was, and a review that is about to become a
result or a report is in the ledger if it is final. Other processes are dealt
with once: `StaysInvariant` says that a process keeps its part of the invariant
when files only grow, which create-only writes guarantee.

**PlagiarismRuns.** The service part of the invariant is that of `AgentRuns`
(`RunInv`, `JobAt`, `WorkerInv`, `PassInv`, and `QueueInv` for who may stand in
the queue), with the second index. `LatestIsNewest` is
about a map that is kept while runs are created and read back in any order:
`IndexInv` says that it names, of the runs the index has of a submission, one
that no other is newer than. `Newer` is a linear order of runs, by time and then
by run id, and times do not change, so that what was known before carries over to
what is read now (`NewerIsTransitive`). `ReportAccountsForCandidates` counts what an
execution did, and reads the index of published reviews at the end, which other
threads fill as well. So `ExecInv` says in the middle of the loop, for the
candidates that are behind the thread (`Accounts`), that each is published or
counted as failed (`Missing`); a thread that waits keeps this since publications
are never taken back. `LedgerInv` is what makes the register: a conclusive review
that is published, or about to be, has the verdict of the ledger, and `Record`
writes only where nothing was. `RegisterIsImplemented` maps `Record` to the choice
and `Publish` to the report of a verdict, and every other step to a stutter;
`LifecycleIsImplemented` has a case per action of the service, and needs `RunInv`
to know that what is queued has attempts left and that what `RecoverRun` completes
was being executed.

**AgentReview.** `ConversationWellFormed` says that the calls of each turn are
answered one by one before anything else is said. It is preserved because the
last message is known at each `pc` (`ConversationInv`): between turns everything
is answered (`Paired`), in a turn the last call message is open with exactly the
calls left that are still to be handled (`Open`). `LoopInv` bounds turn, attempts
and calls at each `pc`, from which `CallsBounded` follows: `sent` is at most the
attempts of the turns behind plus those of this one. `ReportStandsOnEvidence` is
inductive by itself with the copied files (`CopyInv`). `ContinuationCovers` relates what the model saw
page by page to the whole listing; `ListingInv` says that after each page what
was seen is the listing up to the cursor, for both kinds of cursor (`ListInv`,
`LinesInv`). Under it are lemmas about `AgentTools`: `FitList` drops items from
the end only (`FitListFacts`), and because a shortened item fits into a response
by itself, a page that has a rest shows something (`CutPage`, `ShortPage`), so
that a cursor never stands still (`ListPage`, `LinesPage`). That what fits has a
longest beginning rests on `MaxExists`, the least-number principle, which the
library states for sets.

**ReportApi.** What a request is answered with depends on what it saw several
steps ago, so each promise is carried from step to step by a part of `ThreadInv`.
`CacheInv` says what the time of the index means: every report that is older than
that time by `MaxBuild` is in it. It would be false with the time of the end of a
build, which is what `refresh` notes, if a build could last longer than
`MaxBuild`; `BuildInv` says that a build under way has all that was on disk when
it began, and what the index has already. From both follow that the index never
gets older (`BuildGrows`), that a launch whose own report was on disk when its
rebuild began finds it (`OwnInv`), and that an index which counts as fresh has
what a reader must see (`FreshShows`, `StaleInv`). The write of a batch between
two steps of a build is harmless because it carries the time of now
(`NewReportsAreYoung`). `RunsInv` needs that no envelope verifies for both services, since their
schemas differ (`VerifiedByOne`), and that leaving the time out weakens the
verification (`VerifiedAtAnyTime`). As no step takes back reports, times, index or
runs (`Grows`), a thread that does not move keeps its part (`ThreadStays`); per
action only the thread that moves is left. `NewestIsMax` rests on the existence of
a largest element, for which the well-founded order of the natural numbers is
used.

**ComplianceReview.** The steps are few and the operators large, so the
invariant says only that task, prompts and verdict are what the operators make of
the bundle, the task and the outcomes (`TaskInv`, `ResultInv`), that the bundle is
within its limits file by file (`BundleInv`), and that no outcome is more certain
than the evidence allows (`OutcomesInv`). Everything else is in `EvidenceProofs`.
The operators are recursive functions: over a set of positions, over what is left
of a sequence, over rounds. To reason about them one has to know first that there
is a function with such an equation. `FixedPoint` says so for every equation in
which a value depends only on values of smaller measure. It is proved from
nothing but induction on the measure: functions that satisfy the equation up to
level n exist for every n, any two of them agree below both their levels, and
what they agree on satisfies the equation everywhere. It speaks of sets and
functions only, so it can be cited. `SetInduction`,
`Induction` and `CompleteInduction` are stated for sets for the same reason. From there:

* sums (`SumIsNat`, `SumRemove`, `SumExtend`) account for the bytes that were
  read: a file that is added keeps to what is left of the total;
* a closure that still grows has not reached all files, so it ends closed
  (`ClosureIs`, `ExecutionScopeIs`), and the scope has whatever takes part in
  a run (`ScopeHolds`);
* every core ends behind its beginning (`CoreEndIs`) and the next begins there,
  so the cores of a text follow each other to its end (`SplitCovers`); packing
  takes parts from the front until none is left (`PackPacks`); so every character
  of a hunk is in the core of exactly one part of exactly one chunk (`ChunksAre`,
  `ChunksShow`);
* shares rounded down add up to no more than there is, and raising them to one
  costs at most one for each item (`SharesAre`, `WeighedSum`); a round gives
  something to every item that is not complete or uses up what is left
  (`RoundIs`), so the rounds end and leave nothing over that somebody could use
  (`DealIs`, `AllocateBudgetsIs`);
* what packing measures and what is sent differ by the digits of four numbers
  only (`ChunksAlwaysFit`), because a chunk's number is at most their count;
* a conclusion of several chunks needs an answer from each (`ConclusiveOutcomes`),
  an answer to incomplete evidence is never a conclusion, and so nothing that
  takes part in a run was cut (`ConclusiveIsComplete`, `AllRead`), and all of its
  changes are in the delta (`ChangesAreDelivered`) and in the prompts
  (`ChunksShow`, `PromptShows`). This is `ConclusionsStandOnAll`.

**Only model-checked**: liveness (`AcceptedRunSettles`, `RequestsEnd`,
`ReviewEnds` under fairness) and the violations of section 6. Liveness and ENABLED
are outside the prover's reach, and so are theorems that take an operator as a
parameter, which is why the inductions above are about sets.

## 6. Where code and documents differ

Found while the models were written, each with a run:

* **A torn event hides its run for ever** (`agent_runs_torn_event`).
  `_create_file` writes in place (`agent_runs.py:456-470`). A death in the
  middle leaves a newest event that `_read_run` cannot parse; `_rebuild_index`
  and `_recover` skip such a run. `README.md:33-34` promises bounded retries
  after interruptions. The plagiarism service does the same
  (`plagiarism_runs.py:202-207, 224-228`).
* **A new run hides the old report** (`old_report_stays`). The reader asks for the
  latest run only (`report_api.py:958-971`) and shows nothing unless it is completed;
  `docs/agent-review-design.md:327-328` says that the old report stays until the
  new run is completed.
* **Included sources are not in the closure** (`include_closure`).
  `_add_include_closure` follows headers only (`review_scope.py:526`), while the
  policy that the model is told (`review_scope.py:73`) speaks of the recursive
  closure of local includes. A source that is included and not named by the build
  is changed without being seen. `ConclusiveMeansAllSeen` is about the closure of
  headers.
* **An interrupted model call is not retried, and is reported as an invalid
  workspace** (`interrupted_call`). `complete` catches timeouts and `URLError`
  (`agent_reviewer.py:306`); a connection closed before the response or reset
  within it is another `OSError`, which `agent_execution.py:157` maps to
  `WORKSPACE_INVALID`, and no service retries that. `docs/agent-review-design.md:207`
  promises two attempts. The batch reviewer has the same handlers
  (`reviewer.py:260-270`): there it is `Broken`, which ends the review.

Found likewise, as behaviours of the models, without a run of their own; where a
property would forbid one of them, it names it as an exception:

* **A completed run can be reopened**. When the append of `completed` raises behind
  its event, the handler (`agent_runs.py:362-363`) appends `failed`, a transition that
  the state machine of `docs/agent-review-design.md:303-307` does not have. For a
  manual run the next reconciliation finds the result and completes it again; a
  nightly one stays failed although its result is complete.
* **A half-created run is reported and never dispatched**. Between the queued event
  and `_READY` (`agent_runs.py:185-186`) a death leaves a run that `create` and `get`
  report as queued and that recovery does not look at.
* **A failing write of `result.json` ends the thread**. The handler appends `failed`,
  the refresh of the index reads the incomplete `result.json`, raises, and the
  exception leaves `_worker`. The pool shrinks.
* **A batch with a violation cannot be continued**. Violations are not cached on
  purpose, so a second execution reviews them again and meets the immutable result of
  the first.
* **A page can be refused at the cursor that the tool gave**. What `call` counts is
  more than what the tools fit (`agent_tools.py:172-186, 312, 361-367`), so that near
  the limit a page is refused on every try, where `docs/agent-review-design.md:184`
  promises a response cut to 32 KiB with a cursor. `ContinuationCovers` says what
  holds: a refused page loses nothing that was shown, and a search is never refused.
* Agent run service: `close` can block on a full queue (`agent_runs.py:149`); `create`
  answers "queue full" before it looks whether the run exists
  (`agent_runs.py:167-171`); an event without error code leaves the code of the
  failure before it in the index (`agent_runs.py:388`); `RESULT_RECORD_INVALID`
  (`agent_runs.py:325-335`) cannot be observed, since a run with an unreadable result
  cannot be read either; `deploy/kubernetes/README.md:80-85` speaks of three attempts
  where code and manifest have four.
* Tools: `read_lines` shortens a range to 400 lines before it computes `truncated`
  (`agent_tools.py:288,317`), so the rest is left out without a sign, although
  `docs/agent-review-design.md:184` announces one; `ContinuationCovers` excepts such
  ranges.
* Agent executor: there is no deadline of 30 minutes
  (`docs/agent-review-design.md:209`); exceptions that no handler of the review names,
  such as an incomplete HTTP body, become `AGENT_EXECUTION_FAILED`.
* Report API: a launch whose verdict is in the ledger already can answer with a newer
  report of another model.
* Plagiarism: a later inconclusive review of a pair hides a verdict in the index
  (`Items`); a verdict is accepted although the evidence was truncated.
* Compliance scope: an input file that is truncated is outside the scope and does not
  make the evidence incomplete. An empty file counts as truncated once the total
  budget is spent (`submission_store.py:141-152`).
* Chunks: with ten or more of them a prompt can exceed `review_chunk_chars` by the
  digits of its numbers (`reviewer.py:340` measures number 1 of 2); `ChunksFit` states
  the excess.

## 7. Plan

Done, the most important behaviour first:

1. `AgentRuns` with `RunLifecycle`: the service, its proofs.
2. `AuditBatch` with `VerdictRegister`: batches on shared create-only files,
   its proofs.
3. `PlagiarismRuns`: the second service composed with its executor; both
   refinements.
4. `AgentReview` with `AgentTools`: the loop of turns.
5. `ReportApi` with `SignedBundles`: readers, launches, requests, its proofs.
6. `ComplianceReview` with `SourceEvidence` and `PromptEvidence`: budgets, scope,
   chunks, merging.
7. Theorems about `PlagiarismRuns`: the invariants of its run and both
   refinements.
8. Theorems about `AgentReview` and the pages of `AgentTools`.
9. Theorems about `ComplianceReview`, and for them the facts about the recursive
   functions of `SourceEvidence` and `PromptEvidence`; `UnfinishedIsAssigned`.

Left, in this order:

10. Starvation in reconciliation (`agent_runs.py:292`): with unboundedly many
    runs the newest failures come first; needs a model in which runs keep
    coming, apart from `AgentRuns`.

## 8. Not modelled

* Wording, HTML and JSON layout, HTTP routing, SQL, Git access, argument
  parsing, hashing and the arithmetic of signatures: no state that others depend
  on, or a pure function of bytes. A digest is modelled by what it identifies, a
  signature by the key that verifies it.
* `catalog.py`, `domain.py`, `postgres_catalog.py`: records, one maximum per
  owner and lab, and a query; they are inputs of the models.
* Candidate pairs (`similarity.py`, the rest of it): a pure function of texts and
  hashes; `PlagiarismRuns` and `AuditBatch` take any candidates.
* The prompt of a plagiarism review (`reviewer.py`): one bounded prompt, with the
  budgets of `PromptEvidence`; a review of a pair is one answer in `AuditBatch`
  and `PlagiarismRuns`.
* `nightly.py`: the trigger of a synchronous endpoint that was retired; its
  CronJob is suspended (`README.md:28`). `cli.py` and `scripts/`: construction
  and probes.
* `latest_many` of the run services: reads the index that `latest` reads and
  changes nothing.
* Malformed files that no code path of this program writes (`RuntimeError` of
  `lookup` and `read_summary`).
* Several services on one directory: the deployment has one replica and
  strategy `Recreate`.
* `audit_batch` and `plagiarism_runs` take a review as one step: chunks and
  retries inside a review change no file.
