--------------------------- MODULE PlagiarismRuns ---------------------------
(***************************************************************************)
(* FilePlagiarismRunService (plagiarism_runs.py) with its executor         *)
(* LocalPlagiarismRunExecutor (plagiarism_execution.py): signed requests   *)
(* to compare one submission with a corpus wait in a bounded queue, and up *)
(* to four threads execute them.  An execution looks up or reviews every   *)
(* candidate pair, keeps verdicts in the shared ledger, publishes each     *)
(* review, and returns what the index of published reviews then says of    *)
(* the target.  Runs of different targets meet in the pairs they share.    *)
(*                                                                         *)
(* One action is one critical section of the service's lock, or one file   *)
(* that a thread reads or creates, or one answer of the model.  Run        *)
(* directories are written as in AgentRuns: in place, so that a death or a *)
(* failure can leave any file half written, or complete behind a raise.    *)
(***************************************************************************)
EXTENDS Naturals, Sequences, FiniteSets

CONSTANTS
  Runs,               \* run ids: one for each signed envelope
  Submissions,        \* the submissions of the corpora
  Target,             \* of each run, the submission it is about
  Rank,               \* the order of the run ids
  Times,              \* what the wall clock can say when a run is requested
  Keys,               \* review keys: a pair, a model, versions and digests
  PairOf,             \* of each key, the pair it is about
  Candidates,         \* of each run, the keys that similarity detection finds
  Texts,              \* answers of the model, by their digest
  Workers,            \* worker threads
  MaxQueued, MaxRunAttempts, ReconcileBatchSize,
  ExecutorFailures,   \* the codes with which an execution can fail
  None,               \* no run, no review
  MaxCalls,           \* bound: answers of the model in a behaviour
  MaxCrashes,         \* bound: process deaths in a behaviour
  MaxFaults           \* bound: failing writes in a behaviour

ASSUME PlagiarismConstants ==
  /\ Target \in [Runs -> Submissions]
  /\ Rank \in [Runs -> Nat]
  /\ \A q, r \in Runs : Rank[q] = Rank[r] => q = r
  /\ Times \subseteq Nat
  /\ PairOf \in [Keys -> SUBSET Submissions]
  /\ Candidates \in [Runs -> Seq(Keys)]
  /\ \A r \in Runs : \A i \in DOMAIN Candidates[r] : Target[r] \in PairOf[Candidates[r][i]]
  /\ None \notin Runs \cup [conclusive : BOOLEAN, text : Texts, at : Nat]
  /\ MaxQueued \in Nat \ {0}
  /\ MaxRunAttempts \in Nat \ {0}
  /\ ReconcileBatchSize \in Nat \ {0}
  /\ ExecutorFailures \subseteq STRING \ {"none"}
  /\ MaxCalls \in Nat /\ MaxCrashes \in Nat /\ MaxFaults \in Nat

VARIABLES
  disk,       \* run directories
  view,       \* _runs: the index that every API answer is read from
  latest,     \* _latest_by_submission
  queue,      \* _queue
  thread,     \* of each worker: where it is, its run, its execution
  phase,      \* "down", "recover" or "reconcile" (holding the lock), "serve"
  todo,       \* the runs that the pass holding the lock has still to look at
  requeued,   \* reconciled: runs that this pass has queued again
  ledger,     \* cache/review: the verdict stored under each key
  published,  \* plagiarism/: the reviews published of each key
  calls,      \* answers of the model so far; the next one is newer
  crashes, faults

index   == <<view, latest>>
pass    == <<phase, todo, requeued>>
reviews == <<ledger, published>>
bounds  == <<calls, crashes, faults>>
vars    == <<disk, index, queue, thread, pass, reviews, bounds>>

-----------------------------------------------------------------------------
(* Run records.                                                            *)

ActiveStates == {"preparing", "running", "finalizing"}
RunStates    == ActiveStates \cup {"queued", "completed", "failed"}

NoCode == "none"

RetryableFailures ==
  {"JOB_LOST", "PLAGIARISM_EXECUTION_FAILED", "SOURCE_BUNDLE_INVALID"}

Codes == RetryableFailures \cup ExecutorFailures
           \cup {NoCode, "PLAGIARISM_RESULT_RECORD_INVALID"}

(* text stands for the answer, at for completed_at.                        *)
Reviews == [conclusive : BOOLEAN, text : Texts, at : Nat]

(* What execute returns of an execution: the counters, and of the index    *)
(* the newest review of each pair of the target.                           *)
Reports ==
  [reviewed : Nat, failed : Nat, items : SUBSET [key : Keys, review : Reviews]]

(* stage: "partial" is a directory without readable metadata or first      *)
(* event, "unready" one that lacks only _READY.  created is created_at.    *)
(* torn: the last event file is cut short; state and code are those of the *)
(* last event that can be read.  result: the file is missing, cut short,   *)
(* or holds a report.                                                      *)
DiskRecords ==
  [stage : {"absent", "partial", "unready", "ready"}, created : Nat,
   state : RunStates \cup {"none"}, code : Codes, torn : BOOLEAN,
   attempts : Nat, result : {"none", "partial", "good"}, report : Reports]

NoReport == [reviewed |-> 0, failed |-> 0, items |-> {}]

NoDisk == [stage |-> "absent", created |-> 0, state |-> "none", code |-> NoCode,
           torn |-> FALSE, attempts |-> 0, result |-> "none", report |-> NoReport]

ViewRecords ==
  [state : RunStates \cup {"none"}, code : Codes, attempts : Nat,
   result : {"none", "good"}]

NoView == [state |-> "none", code |-> NoCode, attempts |-> 0, result |-> "none"]

Ready(r)    == disk[r].stage = "ready"
Cached(r)   == view[r].state # "none"

Readable(r) ==
  /\ disk[r].stage \in {"unready", "ready"}
  /\ ~disk[r].torn
  /\ disk[r].result # "partial"

ReadRun(d) == [state  |-> d.state,  code   |-> d.code, attempts |-> d.attempts,
               result |-> d.result]

-----------------------------------------------------------------------------
(* The index, and the events of a run.                                     *)

(* The later request, by created_at; of two requests of one moment, the    *)
(* one with the larger run id.                                             *)
Newer(dirs, q, r) ==
  \/ dirs[q].created > dirs[r].created
  \/ dirs[q].created = dirs[r].created /\ Rank[q] > Rank[r]

Known(read, s) == {r \in read \cup ({latest[s]} \ {None}) : Target[r] = s}

(* Mutant of Remember: the run that is read last is the latest.            *)
RememberLast(read) ==
  /\ latest' \in [Submissions -> Runs \cup {None}]
  /\ \A s \in Submissions :
       LET new == {r \in read : Target[r] = s}
       IN  IF new = {} THEN latest'[s] = latest[s] ELSE latest'[s] \in new

(* _remember, for all runs that have just been read                        *)
Remember(read) ==
  /\ latest' \in [Submissions -> Runs \cup {None}]
  /\ \A s \in Submissions :
       IF Known(read, s) = {} THEN latest'[s] = None
       ELSE /\ latest'[s] \in Known(read, s)
            /\ \A q \in Known(read, s) : ~Newer(disk', q, latest'[s])

Attempts(r, s) == disk[r].attempts + (IF s = "preparing" THEN 1 ELSE 0)

(* _append_event writes the file, then refreshes the cached response, for  *)
(* which it reads result.json.                                             *)
WriteEvent(r, s, c) ==
  disk' = [disk EXCEPT ![r] = [@ EXCEPT !.state = s, !.code = c, !.torn = FALSE,
                                        !.attempts = Attempts(r, s)]]

RefreshFails(r) == Cached(r) /\ disk[r].result = "partial"

RefreshIndex(r, s, c) ==
  view' = IF ~Cached(r) \/ RefreshFails(r) THEN view
          ELSE [view EXCEPT ![r] =
                  [state |-> s, code |-> IF c = NoCode THEN @.code ELSE c,
                   attempts |-> Attempts(r, s), result |-> disk[r].result]]

AppendEvent(r, s, c) ==
  WriteEvent(r, s, c) /\ RefreshIndex(r, s, c) /\ UNCHANGED latest

TornEvent(r, s) ==
  disk' = [disk EXCEPT ![r] = [@ EXCEPT !.torn = TRUE, !.attempts = Attempts(r, s)]]

(* An append that raises leaves no file, a part of it, or all of it.       *)
EventFails(r, s, c) == UNCHANGED disk \/ TornEvent(r, s) \/ WriteEvent(r, s, c)

-----------------------------------------------------------------------------
(* The HTTP threads.                                                       *)

Serving == phase = "serve"
HasRoom == Len(queue) < MaxQueued

Absent(r) == Serving /\ HasRoom /\ disk[r].stage = "absent"

(* The time is read before the lock is asked for: a run that is created    *)
(* later can be the older one.                                             *)
MakeDirectory(r, stage) ==
  /\ Absent(r)
  /\ \E t \in Times :
       disk' = [disk EXCEPT ![r] = [NoDisk EXCEPT !.stage = stage, !.created = t,
                                                  !.state = "queued"]]

Create(r) ==
  /\ MakeDirectory(r, "ready")
  /\ view'  = [view EXCEPT ![r] = [NoView EXCEPT !.state = "queued"]]
  /\ Remember({r})
  /\ queue' = Append(queue, r)
  /\ UNCHANGED <<thread, pass, reviews, bounds>>

(* What a creation leaves behind that stops half way.                      *)
HalfCreated(r) ==
  \/ Absent(r) /\ disk' = [disk EXCEPT ![r].stage = "partial"]
  \/ MakeDirectory(r, "unready")

CreateFails(r) ==
  /\ faults < MaxFaults /\ faults' = faults + 1
  /\ HalfCreated(r) \/ MakeDirectory(r, "ready")
  /\ UNCHANGED <<index, queue, thread, pass, reviews, calls, crashes>>

(* A GET, or a repeated POST, of a run that the index does not hold.       *)
Get(r) ==
  /\ Serving
  /\ ~Cached(r) /\ Readable(r)
  /\ view' = [view EXCEPT ![r] = ReadRun(disk[r])]
  /\ UNCHANGED disk
  /\ Remember({r})
  /\ UNCHANGED <<queue, thread, pass, reviews, bounds>>

-----------------------------------------------------------------------------
(* The worker threads: the frame that the service puts around execute.     *)

(* pos: the candidate that the execution has come to.                      *)
Idle == [pc |-> "idle", run |-> None, pos |-> 1, reviewed |-> 0, failed |-> 0,
         review |-> None, report |-> NoReport, code |-> NoCode]

Up == phase \in {"reconcile", "serve"}

At(w, label) == thread[w].pc = label
Job(w)       == thread[w].run
Key(w)       == Candidates[Job(w)][thread[w].pos]

Set(w, t)      == thread' = [thread EXCEPT ![w] = t]
Goto(w, label) == Set(w, [thread[w] EXCEPT !.pc = label])
Raise(w, c)    == Set(w, [Idle EXCEPT !.pc = "failing", !.run = Job(w), !.code = c])

Take(w) ==
  /\ Up /\ At(w, "idle") /\ queue # <<>>
  /\ queue' = Tail(queue)
  /\ Set(w, [Idle EXCEPT !.pc = "taken", !.run = Head(queue)])
  /\ UNCHANGED <<disk, index, pass, reviews, bounds>>

Preparing(w) ==
  /\ Serving /\ At(w, "taken")
  /\ AppendEvent(Job(w), "preparing", NoCode)
  /\ Goto(w, "prepared")
  /\ UNCHANGED <<queue, pass, reviews, bounds>>

(* The stored envelope is verified again, without regard to its window; a  *)
(* key may have been withdrawn.                                            *)
Running(w) ==
  /\ Serving /\ At(w, "prepared")
  /\ AppendEvent(Job(w), "running", NoCode)
  /\ Goto(w, "loading")
  /\ UNCHANGED <<queue, pass, reviews, bounds>>

RequestInvalid(w) ==
  /\ Up /\ At(w, "prepared")
  /\ Raise(w, "PLAGIARISM_EXECUTION_FAILED")
  /\ UNCHANGED <<disk, index, queue, pass, reviews, bounds>>

Finalizing(w) ==
  /\ Serving /\ At(w, "executed")
  /\ AppendEvent(Job(w), "finalizing", NoCode)
  /\ Goto(w, "finalized")
  /\ UNCHANGED <<queue, pass, reviews, bounds>>

(* result.json is created exclusively and without the lock.                *)
CreateResult(w) ==
  /\ Up /\ At(w, "finalized")
  /\ IF disk[Job(w)].result = "none"
     THEN /\ disk' = [disk EXCEPT ![Job(w)].result = "partial"]
          /\ Goto(w, "writing")
     ELSE Raise(w, "PLAGIARISM_EXECUTION_FAILED") /\ UNCHANGED disk
  /\ UNCHANGED <<index, queue, pass, reviews, bounds>>

WriteReport(w) ==
  /\ At(w, "writing")
  /\ disk' = [disk EXCEPT ![Job(w)] = [@ EXCEPT !.result = "good",
                                                !.report = thread[w].report]]

CloseResult(w) ==
  /\ Up /\ WriteReport(w)
  /\ Goto(w, "written")
  /\ UNCHANGED <<index, queue, pass, reviews, bounds>>

(* result.json cannot be created ("finalized"), or not be written, or its  *)
(* fsync fails when it is written.                                         *)
ResultFails(w) ==
  /\ Up /\ faults < MaxFaults /\ faults' = faults + 1
  /\ \/ thread[w].pc \in {"finalized", "writing"} /\ UNCHANGED disk
     \/ WriteReport(w)
  /\ Raise(w, "PLAGIARISM_EXECUTION_FAILED")
  /\ UNCHANGED <<index, queue, pass, reviews, calls, crashes>>

Completed(w) ==
  /\ Serving /\ At(w, "written")
  /\ AppendEvent(Job(w), "completed", NoCode)
  /\ Set(w, Idle)
  /\ UNCHANGED <<queue, pass, reviews, bounds>>

(* What the handlers of _execute raise themselves ends the thread.         *)
Failed(w) ==
  /\ Serving /\ At(w, "failing")
  /\ AppendEvent(Job(w), "failed", thread[w].code)
  /\ IF RefreshFails(Job(w)) THEN Goto(w, "dead") ELSE Set(w, Idle)
  /\ UNCHANGED <<queue, pass, reviews, bounds>>

(* The event that a thread appends next, by where it is.                   *)
PendingEvent ==
  [taken   |-> "preparing", prepared |-> "running", executed |-> "finalizing",
   written |-> "completed", failing  |-> "failed"]

(* The append raises, which the handlers take for a failure of the         *)
(* execution, even behind an event that is complete; in a handler it ends  *)
(* the thread.                                                             *)
AppendFails(w) ==
  /\ Serving /\ faults < MaxFaults /\ faults' = faults + 1
  /\ thread[w].pc \in DOMAIN PendingEvent
  /\ EventFails(Job(w), PendingEvent[thread[w].pc], thread[w].code)
  /\ IF At(w, "failing") THEN Goto(w, "dead") ELSE Raise(w, "PLAGIARISM_EXECUTION_FAILED")
  /\ UNCHANGED <<index, queue, pass, reviews, calls, crashes>>

-----------------------------------------------------------------------------
(* The worker threads: execute.                                            *)

Outside == <<disk, index, queue, pass>>

(* Basis, sources and detection, up to the list of candidates, or one of   *)
(* the failures that execute knows.                                        *)
Load(w) ==
  /\ Up /\ At(w, "loading")
  /\ \/ Goto(w, "next")
     \/ \E c \in ExecutorFailures : Raise(w, c)
  /\ UNCHANGED <<Outside, reviews, bounds>>

Lookup(w) ==
  /\ Up /\ At(w, "next") /\ thread[w].pos \in DOMAIN Candidates[Job(w)]
  /\ IF ledger[Key(w)] = None
     THEN Goto(w, "asking")
     ELSE Set(w, [thread[w] EXCEPT !.pc = "publish", !.review = ledger[Key(w)]])
  /\ UNCHANGED <<Outside, reviews, bounds>>

(* Mutant of AfterAnswer: whatever the model answers is kept.              *)
AlwaysRecord(v) == "record"

AfterAnswer(v) == IF v.conclusive THEN "record" ELSE "publish"

Answer(w) ==
  /\ Up /\ At(w, "asking") /\ calls < MaxCalls
  /\ calls' = calls + 1
  /\ \E v \in [conclusive : BOOLEAN, text : Texts, at : {calls'}] :
       Set(w, [thread[w] EXCEPT !.pc = AfterAnswer(v), !.review = v])
  /\ UNCHANGED <<Outside, reviews, crashes, faults>>

NextCandidate(t) == [t EXCEPT !.pc = "next", !.pos = @ + 1, !.review = None]

(* ReviewError: the candidate is counted and passed over.                  *)
ReviewFails(w) ==
  /\ Up /\ At(w, "asking")
  /\ Set(w, [NextCandidate(thread[w]) EXCEPT !.failed = @ + 1])
  /\ UNCHANGED <<Outside, reviews, bounds>>

(* Mutant of MayRecord: the last verdict wins.                             *)
MayAlwaysRecord(k, v) == TRUE

(* The ledger's file is created once, or has these very bytes already.     *)
MayRecord(k, v) == ledger[k] \in {None, v}

Record(w) ==
  /\ Up /\ At(w, "record")
  /\ IF MayRecord(Key(w), thread[w].review)
     THEN /\ ledger' = [ledger EXCEPT ![Key(w)] = thread[w].review]
          /\ Goto(w, "publish")
     ELSE Raise(w, "PLAGIARISM_EXECUTION_FAILED") /\ UNCHANGED ledger
  /\ UNCHANGED <<Outside, published, bounds>>

(* The name of the published file tells the key and the response.          *)
SameName(u, v) == u.conclusive = v.conclusive /\ u.text = v.text

Publish(w) ==
  /\ Up /\ At(w, "publish")
  /\ IF \A u \in published[Key(w)] : SameName(u, thread[w].review) => u = thread[w].review
     THEN /\ published' = [published EXCEPT ![Key(w)] = @ \cup {thread[w].review}]
          /\ Set(w, [NextCandidate(thread[w]) EXCEPT !.reviewed = @ + 1])
     ELSE Raise(w, "PLAGIARISM_EXECUTION_FAILED") /\ UNCHANGED published
  /\ UNCHANGED <<Outside, ledger, bounds>>

(* Mutant of Items: the index shows conclusive reviews only.               *)
ItemsConclusive(s) ==
  LET about == UNION {[key : {k}, review : {v \in published[k] : v.conclusive}] :
                        k \in {x \in Keys : s \in PairOf[x]}}
  IN  {i \in about : \A j \in about :
                       PairOf[j.key] = PairOf[i.key] => j.review.at <= i.review.at}

(* The index of FilePlagiarismReportReader: of each pair of the submission *)
(* the newest review, under whatever key it was made.                      *)
Items(s) ==
  LET about == UNION {[key : {k}, review : published[k]] :
                        k \in {x \in Keys : s \in PairOf[x]}}
  IN  {i \in about : \A j \in about :
                       PairOf[j.key] = PairOf[i.key] => j.review.at <= i.review.at}

Return(w) ==
  /\ Up /\ At(w, "next") /\ thread[w].pos > Len(Candidates[Job(w)])
  /\ Set(w, [thread[w] EXCEPT !.pc = "executed",
                              !.report = [reviewed |-> thread[w].reviewed,
                                          failed   |-> thread[w].failed,
                                          items    |-> Items(Target[Job(w)])]])
  /\ UNCHANGED <<Outside, reviews, bounds>>

-----------------------------------------------------------------------------
(* Recovery and reconciliation: passes over runs under the lock, in any    *)
(* order; runs for which a pass would do nothing are not in todo.          *)

RecoverPersistedResult(r) ==
  IF disk[r].result = "good"
  THEN AppendEvent(r, "completed", NoCode)
  ELSE AppendEvent(r, "failed", "PLAGIARISM_RESULT_RECORD_INVALID")

(* The constructor builds the index of what it can read; start takes the   *)
(* lock.                                                                   *)
Unfinished(r) ==
  Ready(r) /\ ~disk[r].torn /\ disk[r].state \in ActiveStates \cup {"queued"}

Start ==
  /\ phase = "down"
  /\ UNCHANGED disk
  /\ LET read == {r \in Runs : Ready(r) /\ Readable(r)} IN
       /\ view' = [r \in Runs |-> IF r \in read THEN ReadRun(disk[r]) ELSE NoView]
       /\ Remember(read)
  /\ todo'  = {r \in Runs : Unfinished(r)}
  /\ phase' = "recover"
  /\ UNCHANGED <<queue, thread, requeued, reviews, bounds>>

HasPersistedResult(r) == disk[r].state = "finalizing" /\ disk[r].result # "none"

RecoverFinished(r) ==
  /\ HasPersistedResult(r)
  /\ RecoverPersistedResult(r)
  /\ todo' = todo \ {r}
  /\ UNCHANGED queue

(* Mutants of RecoverLost: an interrupted run is left as it is; or it is   *)
(* taken up where it was.                                                  *)
RecoverLostByIgnoring(r) ==
  /\ disk[r].state \in ActiveStates /\ ~HasPersistedResult(r)
  /\ todo' = todo \ {r}
  /\ UNCHANGED <<disk, index, queue>>

RecoverLostByQueueing(r) ==
  /\ disk[r].state \in ActiveStates /\ ~HasPersistedResult(r)
  /\ todo' = todo \ {r}
  /\ IF HasRoom THEN queue' = Append(queue, r) ELSE UNCHANGED queue
  /\ UNCHANGED <<disk, index>>

RecoverLost(r) ==
  /\ disk[r].state \in ActiveStates /\ ~HasPersistedResult(r)
  /\ AppendEvent(r, "failed", "JOB_LOST")
  /\ todo' = todo \ {r}
  /\ UNCHANGED queue

(* A full queue ends the recovery.                                         *)
RecoverQueued(r) ==
  /\ disk[r].state = "queued"
  /\ IF HasRoom THEN queue' = Append(queue, r) /\ todo' = todo \ {r}
                 ELSE todo' = {} /\ UNCHANGED queue
  /\ UNCHANGED <<disk, index>>

RecoverRun(r) ==
  /\ phase = "recover" /\ r \in todo
  /\ RecoverFinished(r) \/ RecoverLost(r) \/ RecoverQueued(r)
  /\ UNCHANGED <<thread, phase, requeued, reviews, bounds>>

Retried(r) ==
  /\ view[r].state = "failed" /\ view[r].code \in RetryableFailures
  /\ disk[r].result # "none" \/ disk[r].attempts < MaxRunAttempts

ReconcileStarts ==
  /\ phase' = "reconcile" /\ requeued' = 0
  /\ todo' = {r \in Runs : Retried(r)}

(* start ends with the first reconciliation, in the same critical section. *)
RecoverEnds ==
  /\ phase = "recover" /\ todo = {}
  /\ ReconcileStarts
  /\ UNCHANGED <<disk, index, queue, thread, reviews, bounds>>

ReconcileBegins ==
  /\ Serving /\ \E r \in Runs : Retried(r)
  /\ ReconcileStarts
  /\ UNCHANGED <<disk, index, queue, thread, reviews, bounds>>

GoesOn == requeued < ReconcileBatchSize /\ HasRoom

ReconcileFinished(r) ==
  /\ disk[r].result # "none"
  /\ RecoverPersistedResult(r)
  /\ UNCHANGED <<queue, requeued>>

ReconcileFailed(r) ==
  /\ disk[r].result = "none"
  /\ AppendEvent(r, "queued", NoCode)
  /\ queue'    = Append(queue, r)
  /\ requeued' = requeued + 1

ReconcileRun(r) ==
  /\ phase = "reconcile" /\ r \in todo /\ GoesOn
  /\ ReconcileFinished(r) \/ ReconcileFailed(r)
  /\ todo' = todo \ {r}
  /\ UNCHANGED <<thread, phase, reviews, bounds>>

ReconcileStops == phase' = "serve" /\ todo' = {} /\ requeued' = 0

ReconcileEnds ==
  /\ phase = "reconcile" /\ (todo = {} \/ ~GoesOn)
  /\ ReconcileStops
  /\ UNCHANGED <<disk, index, queue, thread, reviews, bounds>>

(* An append of the pass raises: the loop logs it, and tries again after   *)
(* the interval.                                                           *)
ReconcileFails(r) ==
  /\ phase = "reconcile" /\ r \in todo /\ GoesOn
  /\ faults < MaxFaults /\ faults' = faults + 1
  /\ EventFails(r, IF disk[r].result = "none" THEN "queued" ELSE "completed", NoCode)
  /\ ReconcileStops
  /\ UNCHANGED <<index, queue, thread, reviews, calls, crashes>>

-----------------------------------------------------------------------------
(* The process dies: between two steps, while it writes an event, or in    *)
(* the middle of a creation.  A shutdown ends in the same way (threads are *)
(* waited for five seconds), and so does a raise in the recovery.          *)

Dies ==
  /\ phase # "down" /\ crashes < MaxCrashes
  /\ crashes' = crashes + 1
  /\ view'    = [r \in Runs |-> NoView]
  /\ latest'  = [s \in Submissions |-> None]
  /\ queue'   = <<>>
  /\ thread'  = [w \in Workers |-> Idle]
  /\ phase' = "down" /\ todo' = {} /\ requeued' = 0
  /\ UNCHANGED <<reviews, calls, faults>>

Crash == Dies /\ UNCHANGED disk

CrashInAppend ==
  /\ Dies
  /\ \/ /\ Serving
        /\ \E w \in Workers : /\ thread[w].pc \in DOMAIN PendingEvent
                              /\ TornEvent(Job(w), PendingEvent[thread[w].pc])
     \/ /\ phase = "recover"
        /\ \E r \in todo : disk[r].state # "queued" /\ TornEvent(r, "failed")
     \/ /\ phase = "reconcile" /\ GoesOn
        /\ \E r \in todo : TornEvent(r, "queued")

CrashInCreate == Dies /\ \E r \in Runs : HalfCreated(r)

-----------------------------------------------------------------------------

Init ==
  /\ disk   = [r \in Runs |-> NoDisk]
  /\ view   = [r \in Runs |-> NoView]
  /\ latest = [s \in Submissions |-> None]
  /\ queue = <<>>
  /\ thread = [w \in Workers |-> Idle]
  /\ phase = "down" /\ todo = {} /\ requeued = 0
  /\ ledger    = [k \in Keys |-> None]
  /\ published = [k \in Keys |-> {}]
  /\ calls = 0 /\ crashes = 0 /\ faults = 0

Frame(w) ==
  \/ Take(w) \/ Preparing(w) \/ Running(w) \/ RequestInvalid(w) \/ Finalizing(w)
  \/ CreateResult(w) \/ CloseResult(w) \/ Completed(w) \/ Failed(w)

Execute(w) ==
  \/ Load(w) \/ Lookup(w) \/ Answer(w) \/ ReviewFails(w) \/ Record(w)
  \/ Publish(w) \/ Return(w)

Pass ==
  \/ Start \/ RecoverEnds \/ ReconcileBegins \/ ReconcileEnds
  \/ \E r \in Runs : RecoverRun(r) \/ ReconcileRun(r)

Fault ==
  \/ \E r \in Runs : CreateFails(r) \/ ReconcileFails(r)
  \/ \E w \in Workers : AppendFails(w) \/ ResultFails(w)

Death == Crash \/ CrashInAppend \/ CrashInCreate

Next ==
  \/ \E r \in Runs : Create(r) \/ Get(r)
  \/ \E w \in Workers : Frame(w) \/ Execute(w)
  \/ Pass \/ Fault \/ Death

(* A dead process is started again; threads are scheduled, calls of the    *)
(* model return, and the reconcile loop wakes up every interval.           *)
Fairness == WF_vars(Pass) /\ \A w \in Workers : WF_vars(Frame(w) \/ Execute(w))

Spec == Init /\ [][Next]_vars

FairSpec == Spec /\ Fairness

-----------------------------------------------------------------------------
(* Properties.                                                             *)

PcLabels == {"idle", "taken", "prepared", "loading", "next", "asking", "record",
             "publish", "executed", "finalized", "writing", "written", "failing", "dead"}

Threads == [pc : PcLabels, run : Runs \cup {None}, pos : Nat \ {0},
            reviewed : Nat, failed : Nat, review : Reviews \cup {None},
            report : Reports, code : Codes]

(* Every variable has its type; the ledger holds conclusive reviews only.  *)
TypeOK ==
  /\ disk      \in [Runs -> DiskRecords]
  /\ view      \in [Runs -> ViewRecords]
  /\ latest    \in [Submissions -> Runs \cup {None}]
  /\ queue     \in Seq(Runs) /\ Len(queue) <= MaxQueued
  /\ thread    \in [Workers -> Threads]
  /\ phase     \in {"down", "recover", "reconcile", "serve"}
  /\ todo      \subseteq Runs /\ requeued \in Nat
  /\ ledger    \in [Keys -> {v \in Reviews : v.conclusive} \cup {None}]
  /\ published \in [Keys -> SUBSET Reviews]
  /\ calls \in Nat /\ crashes \in Nat /\ faults \in Nat

(* What a completed run tells the people who decide is the whole of it:    *)
(* the pair of every candidate is among the items, or the candidate is one *)
(* of the failed ones that the report owns up to.  No death, retry or      *)
(* conflict with another thread makes a pair disappear silently.           *)
ReportAccountsForCandidates ==
  \A r \in Runs :
    LET told    == disk[r].report
        open(i) == \A x \in told.items : PairOf[x.key] # PairOf[Candidates[r][i]]
    IN  disk[r].result = "good" =>
          /\ told.reviewed + told.failed = Len(Candidates[r])
          /\ Cardinality({i \in DOMAIN Candidates[r] : open(i)}) <= told.failed

(* latest answers for a submission with the run that was requested last,   *)
(* in whatever order runs were created, read back or found at a restart;   *)
(* the order of requests is not the order of creations.  What cannot be    *)
(* read does not count, and a run whose creation raised behind _READY has  *)
(* to wait for a GET or a restart.                                         *)
CreationRaised(r) ==
  faults > 0 /\ disk[r].state = "queued" /\ disk[r].attempts = 0

LatestIsNewest ==
  Serving =>
    \A r \in Runs :
      Ready(r) /\ Readable(r) =>
        \/ latest[Target[r]] = r
        \/ latest[Target[r]] # None /\ Newer(disk, latest[Target[r]], r)
        \/ CreationRaised(r)

(* All runs agree: for one review key no two different verdicts are ever   *)
(* in the ledger or published, however many threads look up, review and    *)
(* record the same pair at the same time, and whatever is retried.         *)
Register ==
  INSTANCE VerdictRegister WITH
    Verdicts <- Reviews,
    chosen   <- ledger,
    reported <- [k \in Keys |-> {v \in published[k] : v.conclusive}]

ImplementsRegister == Register!Spec

(* The service implements RunLifecycle.  A run whose append of "completed" *)
(* raised, which its thread has not reported yet, counts as active.        *)
InDoubt(r) == \E w \in Workers : Job(w) = r /\ At(w, "failing")

Status(r) ==
  IF ~Ready(r) THEN "absent" ELSE
  CASE disk[r].state = "queued"       -> "waiting"
    [] disk[r].state \in ActiveStates -> "active"
    [] disk[r].state = "completed"    -> IF InDoubt(r) THEN "active" ELSE "completed"
    [] OTHER -> IF disk[r].code \in RetryableFailures THEN "retryable" ELSE "rejected"

Lifecycle ==
  INSTANCE RunLifecycle WITH
    Requests <- Runs, MaxAttempts <- MaxRunAttempts,
    status <- [r \in Runs |-> Status(r)],
    tries  <- [r \in Runs |-> disk[r].attempts]

ImplementsLifecycle == Lifecycle!Spec

(* Every accepted run is completed or has failed for good in the end:      *)
(* a conflict of two threads over one verdict fails a run, but the retry   *)
(* finds the verdict, or the attempts come to an end.  A run whose last    *)
(* event a death cut short is excepted, and so are runs of a process with  *)
(* failed writes.                                                          *)
Settled(r) ==
  \/ disk[r].state = "completed"
  \/ disk[r].state = "failed" /\ (disk[r].code \notin RetryableFailures
                                   \/ disk[r].attempts = MaxRunAttempts)

AcceptedRunSettles ==
  \A r \in Runs : Ready(r) ~> (Settled(r) \/ disk[r].torn \/ faults > 0)

=============================================================================
