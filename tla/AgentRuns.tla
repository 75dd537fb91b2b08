----------------------------- MODULE AgentRuns -----------------------------
(***************************************************************************)
(* FileAgentRunService (agent_runs.py): a bounded queue of review runs,    *)
(* worked off by a pool of threads, whose only durable state is a          *)
(* directory per run: the signed request, an append-only log of state      *)
(* events, the marker _READY and at the end result.json.  Everything else  *)
(* (the index of runs that the HTTP API answers from, the dispatch queue,  *)
(* the threads) is lost when the process dies and rebuilt by the next one. *)
(*                                                                         *)
(* One action is one critical section of the service's lock, or one step   *)
(* that a worker takes outside it.  A log is represented by what the code  *)
(* ever reads of it: its last event, and the number of "preparing" events. *)
(***************************************************************************)
EXTENDS Naturals, Sequences, FiniteSets

CONSTANTS
  Runs,               \* run ids: one for each signed envelope (its digest)
  Manual,             \* the runs whose bundle says source = "manual"
  Workers,            \* worker threads; none in a service without executor
  MaxQueued,          \* max_queued: capacity of the dispatch queue
  MaxRunAttempts,     \* max_run_attempts
  ReconcileBatchSize, \* reconcile_batch_size
  ExecutorFailures,   \* the codes with which an execution can fail
  NoRun,              \* what a thread works on when it works on nothing
  MaxCrashes,         \* bound: process deaths in a behaviour
  MaxFaults           \* bound: failing writes in a behaviour

(* max_queued, max_run_attempts and reconcile_batch_size are checked by    *)
(* the constructor (agent_runs.py:80-87).                                  *)
ASSUME RunServiceConstants ==
  /\ Manual \subseteq Runs
  /\ NoRun \notin Runs
  /\ MaxQueued \in Nat \ {0}
  /\ MaxRunAttempts \in Nat \ {0}
  /\ ReconcileBatchSize \in Nat \ {0}
  /\ ExecutorFailures \subseteq STRING \ {"none"}
  /\ MaxCrashes \in Nat
  /\ MaxFaults \in Nat

VARIABLES
  disk,      \* run directories
  view,      \* _runs: the index that every API answer is read from
  queue,     \* _queue: runs waiting for a worker, oldest first
  pc, job,   \* per worker thread: where it is, and the run it executes
  code,      \* per worker thread: the error code of the pending exception
  phase,     \* "down", "recover" or "reconcile" (holding the lock), "serve"
  todo,      \* the runs that the pass holding the lock has still to look at
  requeued,  \* reconciled: runs that this pass has queued again
  crashes, faults

memory == <<view, queue, pc, job, code, todo, requeued>>
bounds == <<crashes, faults>>
vars   == <<disk, memory, phase, bounds>>

-----------------------------------------------------------------------------
(* Run records.                                                            *)

ActiveStates == {"preparing", "running", "finalizing"}
RunStates    == ActiveStates \cup {"queued", "completed", "failed"}

(* An event that reports no failure has no error_code.                     *)
NoCode == "none"

(* The failure codes the service gives by itself.                          *)
ServiceFailures == {"JOB_LOST", "AGENT_EXECUTION_FAILED", "RESULT_RECORD_INVALID"}
Codes == ServiceFailures \cup ExecutorFailures \cup {NoCode}

RetryableFailures             == {"JOB_LOST", "MODEL_UNAVAILABLE"}
LegacyManualRetryableFailures == {"AGENT_EXECUTION_FAILED", "RESULT_INVALID"}

IsRetryableFailure(r, c) ==
  \/ c \in RetryableFailures
  \/ r \in Manual /\ c \in LegacyManualRetryableFailures

(* stage: "partial" is a directory without readable metadata or first      *)
(* event, "unready" one that lacks only _READY.  torn: the last event file *)
(* is empty or cut short; state and code are then those of the last event  *)
(* that can be read.  result: "partial" is a result.json that exists and   *)
(* is not (or not yet) a JSON object.                                      *)
DiskRecords ==
  [stage    : {"absent", "partial", "unready", "ready"},
   state    : RunStates \cup {"none"},
   code     : Codes,
   torn     : BOOLEAN,
   attempts : Nat,
   result   : {"none", "partial", "good"}]

ViewRecords ==
  [state : RunStates \cup {"none"}, code : Codes, attempts : Nat,
   result : {"none", "good"}]

NoDisk == [stage |-> "absent", state |-> "none", code |-> NoCode,
           torn |-> FALSE, attempts |-> 0, result |-> "none"]
NoView == [state |-> "none", code |-> NoCode, attempts |-> 0, result |-> "none"]

Ready(r)  == disk[r].stage = "ready"
Cached(r) == view[r].state # "none"

-----------------------------------------------------------------------------
(* Reading and writing run directories.                                    *)

(* _read_run raises on a missing or unreadable file; otherwise this is the *)
(* response it builds.                                                     *)
Readable(r) ==
  /\ disk[r].stage \in {"unready", "ready"}
  /\ ~disk[r].torn
  /\ disk[r].result # "partial"

ReadRun(r) ==
  [state    |-> disk[r].state,
   code     |-> disk[r].code,
   attempts |-> disk[r].attempts,
   result   |-> disk[r].result]

Attempts(r, s) == disk[r].attempts + (IF s = "preparing" THEN 1 ELSE 0)

(* _append_event writes the event file first; it then merges the event     *)
(* into the cached response, and re-reads result.json for it.  An event    *)
(* without error_code leaves the cached error_code as it was.              *)
WriteEvent(r, s, c) ==
  disk' = [disk EXCEPT ![r] = [@ EXCEPT !.state = s, !.code = c, !.torn = FALSE,
                                        !.attempts = Attempts(r, s)]]

RefreshFails(r) == Cached(r) /\ disk[r].result = "partial"

(* Mutant of RefreshIndex: the attempts are not counted again.             *)
RefreshKeepsCount(r, s, c) ==
  view' = IF ~Cached(r) \/ RefreshFails(r)
          THEN view
          ELSE [view EXCEPT ![r] = [@ EXCEPT !.state = s, !.result = disk[r].result]]

RefreshIndex(r, s, c) ==
  view' = IF ~Cached(r) \/ RefreshFails(r)
          THEN view
          ELSE [view EXCEPT ![r] =
                  [state    |-> s,
                   code     |-> IF c = NoCode THEN @.code ELSE c,
                   attempts |-> Attempts(r, s),
                   result   |-> disk[r].result]]

AppendEvent(r, s, c) == WriteEvent(r, s, c) /\ RefreshIndex(r, s, c)

(* A write that fails, or a process that dies, after the event file was    *)
(* created and before its content is in it.                                *)
TornEvent(r, s) ==
  disk' = [disk EXCEPT ![r] = [@ EXCEPT !.torn = TRUE, !.attempts = Attempts(r, s)]]

(* An append that raises leaves no file, a part of it, or all of it: fsync *)
(* fails when the content is written, and so may the reads that follow.    *)
(* The index is as before.                                                 *)
EventFails(r, s, c) == UNCHANGED disk \/ TornEvent(r, s) \/ WriteEvent(r, s, c)

-----------------------------------------------------------------------------
(* The HTTP threads: create and get.  They run only in a started service   *)
(* and wait for the lock.                                                  *)

Serving == phase = "serve"

(* Mutant of HasRoom: off by one.                                          *)
HasRoomForOneMore == Len(queue) <= MaxQueued

HasRoom == Len(queue) < MaxQueued

(* put_nowait, in a service that has workers                               *)
Dispatched(r) == IF Workers = {} THEN queue ELSE Append(queue, r)

Queued(r, stage) == [NoDisk EXCEPT !.stage = stage, !.state = "queued"]

Create(r) ==
  /\ Serving /\ HasRoom
  /\ disk[r].stage = "absent"
  /\ disk'  = [disk EXCEPT ![r] = Queued(r, "ready")]
  /\ view'  = [view EXCEPT ![r] = [NoView EXCEPT !.state = "queued"]]
  /\ queue' = Dispatched(r)
  /\ UNCHANGED <<pc, job, code, phase, todo, requeued, bounds>>

(* What a creation leaves behind that stops half way.                      *)
HalfCreated(r) ==
  /\ Serving /\ HasRoom
  /\ disk[r].stage = "absent"
  /\ \/ disk' = [disk EXCEPT ![r].stage = "partial"]
     \/ disk' = [disk EXCEPT ![r] = Queued(r, "unready")]

(* A creation that raises may have got as far as _READY: the fsync of that *)
(* file fails, or the read of the run behind it.                           *)
CreateFails(r) ==
  /\ faults < MaxFaults
  /\ \/ HalfCreated(r)
     \/ /\ Serving /\ HasRoom
        /\ disk[r].stage = "absent"
        /\ disk' = [disk EXCEPT ![r] = Queued(r, "ready")]
  /\ faults' = faults + 1
  /\ UNCHANGED <<memory, phase, crashes>>

(* A GET, or a repeated POST, of a run that the index does not hold.  It   *)
(* asks for the directory, not for _READY.                                 *)
Get(r) ==
  /\ Serving
  /\ ~Cached(r) /\ Readable(r)
  /\ view' = [view EXCEPT ![r] = ReadRun(r)]
  /\ UNCHANGED <<disk, queue, pc, job, code, phase, todo, requeued, bounds>>

-----------------------------------------------------------------------------
(* The worker threads.                                                     *)

Up == phase \in {"reconcile", "serve"}

Goto(w, label) == pc' = [pc EXCEPT ![w] = label] /\ UNCHANGED <<job, code>>

Raise(w, c) ==
  /\ pc'   = [pc EXCEPT ![w] = "failing"]
  /\ code' = [code EXCEPT ![w] = c]
  /\ UNCHANGED job

NextItem(w) ==
  /\ pc'   = [pc EXCEPT ![w] = "idle"]
  /\ job'  = [job EXCEPT ![w] = NoRun]
  /\ code' = [code EXCEPT ![w] = NoCode]

Take(w) ==
  /\ Up
  /\ pc[w] = "idle" /\ queue # <<>>
  /\ queue' = Tail(queue)
  /\ pc'    = [pc EXCEPT ![w] = "taken"]
  /\ job'   = [job EXCEPT ![w] = Head(queue)]
  /\ UNCHANGED <<disk, view, code, phase, todo, requeued, bounds>>

Preparing(w) ==
  /\ Serving /\ pc[w] = "taken"
  /\ AppendEvent(job[w], "preparing", NoCode)
  /\ Goto(w, "prepared")
  /\ UNCHANGED <<queue, phase, todo, requeued, bounds>>

(* The request can be read and its signature still verifies.               *)
Running(w) ==
  /\ Serving /\ pc[w] = "prepared"
  /\ AppendEvent(job[w], "running", NoCode)
  /\ Goto(w, "executing")
  /\ UNCHANGED <<queue, phase, todo, requeued, bounds>>

(* It cannot, or does not: the key was withdrawn since the run was made.   *)
RequestInvalid(w) ==
  /\ Up /\ pc[w] = "prepared"
  /\ Raise(w, "AGENT_EXECUTION_FAILED")
  /\ UNCHANGED <<disk, view, queue, phase, todo, requeued, bounds>>

Execute(w) ==
  /\ Up /\ pc[w] = "executing"
  /\ \/ Goto(w, "executed")
     \/ \E c \in ExecutorFailures : Raise(w, c)
  /\ UNCHANGED <<disk, view, queue, phase, todo, requeued, bounds>>

Finalizing(w) ==
  /\ Serving /\ pc[w] = "executed"
  /\ AppendEvent(job[w], "finalizing", NoCode)
  /\ Goto(w, "finalized")
  /\ UNCHANGED <<queue, phase, todo, requeued, bounds>>

(* result.json is created exclusively and without the lock; it holds a     *)
(* JSON object only when the last byte is written.                         *)
CreateResult(w) ==
  /\ Up /\ pc[w] = "finalized"
  /\ IF disk[job[w]].result = "none"
     THEN /\ disk' = [disk EXCEPT ![job[w]].result = "partial"]
          /\ Goto(w, "writing")
     ELSE /\ Raise(w, "AGENT_EXECUTION_FAILED")
          /\ UNCHANGED disk
  /\ UNCHANGED <<view, queue, phase, todo, requeued, bounds>>

CloseResult(w) ==
  /\ Up /\ pc[w] = "writing"
  /\ disk' = [disk EXCEPT ![job[w]].result = "good"]
  /\ Goto(w, "written")
  /\ UNCHANGED <<view, queue, phase, todo, requeued, bounds>>

Completed(w) ==
  /\ Serving /\ pc[w] = "written"
  /\ AppendEvent(job[w], "completed", NoCode)
  /\ NextItem(w)
  /\ UNCHANGED <<queue, phase, todo, requeued, bounds>>

(* The handlers of _execute.  What they raise, nobody catches: the thread  *)
(* ends.                                                                   *)
Failed(w) ==
  /\ Serving /\ pc[w] = "failing"
  /\ AppendEvent(job[w], "failed", code[w])
  /\ IF RefreshFails(job[w]) THEN Goto(w, "dead") ELSE NextItem(w)
  /\ UNCHANGED <<queue, phase, todo, requeued, bounds>>

(* The event that a thread appends next, by where it is.                   *)
PendingEvent ==
  [taken    |-> "preparing", prepared |-> "running",   executed |-> "finalizing",
   written  |-> "completed", failing  |-> "failed"]

(* The append raises.  The handler of _execute takes that for a failure of *)
(* the execution, even behind an event that is complete; in the handler    *)
(* itself it ends the thread.                                              *)
AppendFails(w) ==
  /\ Serving /\ faults < MaxFaults
  /\ pc[w] \in DOMAIN PendingEvent
  /\ EventFails(job[w], PendingEvent[pc[w]], IF pc[w] = "failing" THEN code[w] ELSE NoCode)
  /\ IF pc[w] = "failing" THEN Goto(w, "dead") ELSE Raise(w, "AGENT_EXECUTION_FAILED")
  /\ faults' = faults + 1
  /\ UNCHANGED <<view, queue, phase, todo, requeued, crashes>>

(* result.json cannot be created ("finalized"), or not be written, or its  *)
(* fsync fails when it is written.                                         *)
ResultFails(w) ==
  /\ Up /\ faults < MaxFaults
  /\ \/ pc[w] \in {"finalized", "writing"} /\ UNCHANGED disk
     \/ pc[w] = "writing" /\ disk' = [disk EXCEPT ![job[w]].result = "good"]
  /\ Raise(w, "AGENT_EXECUTION_FAILED")
  /\ faults' = faults + 1
  /\ UNCHANGED <<view, queue, phase, todo, requeued, crashes>>

-----------------------------------------------------------------------------
(* Recovery and reconciliation: passes over runs under the lock.  The      *)
(* order in which a pass takes the runs (of the directory listing, or of   *)
(* the last update) is left open; runs it would do nothing for are not in  *)
(* todo.                                                                   *)

(* Mutant of RecoverPersistedResult: a result that exists is taken to be   *)
(* complete.                                                               *)
RecoverAnyResult(r) == AppendEvent(r, "completed", NoCode)

(* _recover_persisted_result, for a run that has a result.json             *)
RecoverPersistedResult(r) ==
  IF disk[r].result = "good"
  THEN AppendEvent(r, "completed", NoCode)
  ELSE AppendEvent(r, "failed", "RESULT_RECORD_INVALID")

(* A new process: the constructor builds the index of what it can read,    *)
(* then start takes the lock.                                              *)
Unfinished(r) ==
  Ready(r) /\ ~disk[r].torn /\ disk[r].state \in ActiveStates \cup {"queued"}

Start ==
  /\ phase = "down"
  /\ view'  = [r \in Runs |-> IF Ready(r) /\ Readable(r) THEN ReadRun(r) ELSE NoView]
  /\ todo'  = {r \in Runs : Unfinished(r)}
  /\ phase' = "recover"
  /\ UNCHANGED <<disk, queue, pc, job, code, requeued, bounds>>

HasPersistedResult(r) == disk[r].state = "finalizing" /\ disk[r].result # "none"

RecoverFinished(r) ==
  /\ HasPersistedResult(r)
  /\ RecoverPersistedResult(r)
  /\ todo' = todo \ {r}
  /\ UNCHANGED queue

(* Mutants of RecoverLost: an interrupted run is queued again whatever its *)
(* attempts; or it is left as it is.                                       *)
RecoverLostByQueueing(r) ==
  /\ disk[r].state \in ActiveStates /\ ~HasPersistedResult(r)
  /\ AppendEvent(r, "queued", NoCode)
  /\ todo' = todo \ {r}
  /\ UNCHANGED queue

RecoverLostByIgnoring(r) ==
  /\ disk[r].state \in ActiveStates /\ ~HasPersistedResult(r)
  /\ todo' = todo \ {r}
  /\ UNCHANGED <<disk, view, queue>>

RecoverLost(r) ==
  /\ disk[r].state \in ActiveStates /\ ~HasPersistedResult(r)
  /\ AppendEvent(r, "failed", "JOB_LOST")
  /\ todo' = todo \ {r}
  /\ UNCHANGED queue

(* Mutant of RecoverQueued: only interrupted runs are recovered.           *)
RecoverQueuedByIgnoring(r) ==
  /\ disk[r].state = "queued"
  /\ todo' = todo \ {r}
  /\ UNCHANGED <<disk, view, queue>>

(* A full queue breaks the loop: the rest of the runs is not looked at.    *)
RecoverQueued(r) ==
  /\ disk[r].state = "queued"
  /\ IF HasRoom \/ Workers = {}
     THEN queue' = Dispatched(r) /\ todo' = todo \ {r}
     ELSE todo' = {} /\ UNCHANGED queue
  /\ UNCHANGED <<disk, view>>

RecoverRun(r) ==
  /\ phase = "recover" /\ r \in todo
  /\ RecoverFinished(r) \/ RecoverLost(r) \/ RecoverQueued(r)
  /\ UNCHANGED <<pc, job, code, phase, requeued, bounds>>

(* Mutants of Candidates: attempts are not counted; the code is looked at, *)
(* which outlives the failure, but not the state; every failure is retried.*)
CandidatesWithoutLimit ==
  {r \in Runs : view[r].state = "failed" /\ IsRetryableFailure(r, view[r].code)}

CandidatesByCode ==
  {r \in Runs :
     /\ IsRetryableFailure(r, view[r].code)
     /\ disk[r].result # "none" \/ disk[r].attempts < MaxRunAttempts}

CandidatesOfAnyCode ==
  {r \in Runs :
     /\ view[r].state = "failed"
     /\ disk[r].result # "none" \/ disk[r].attempts < MaxRunAttempts}

(* reconcile_failed: what the index calls a retryable failure and what     *)
(* still has attempts left, or has a result after all.                     *)
Candidates ==
  {r \in Runs :
     /\ view[r].state = "failed"
     /\ IsRetryableFailure(r, view[r].code)
     /\ disk[r].result # "none" \/ disk[r].attempts < MaxRunAttempts}

ReconcileStarts ==
  /\ phase'    = "reconcile"
  /\ todo'     = Candidates
  /\ requeued' = 0

(* start ends with the first reconciliation, in the same critical section, *)
(* if there are workers; these run by then.                                *)
RecoverEnds ==
  /\ phase = "recover" /\ todo = {}
  /\ IF Workers = {} THEN phase' = "serve" /\ UNCHANGED <<todo, requeued>>
                     ELSE ReconcileStarts
  /\ UNCHANGED <<disk, view, queue, pc, job, code, bounds>>

ReconcileBegins ==
  /\ Serving /\ Workers # {} /\ Candidates # {}
  /\ ReconcileStarts
  /\ UNCHANGED <<disk, view, queue, pc, job, code, bounds>>

GoesOn == requeued < ReconcileBatchSize /\ HasRoom

ReconcileFinished(r) ==
  /\ disk[r].result # "none"
  /\ RecoverPersistedResult(r)
  /\ UNCHANGED <<queue, requeued>>

(* Mutant of ReconcileFailed: an attempt is made although there is a result*)
(* already.                                                                *)
ReconcileFailedBlindly(r) ==
  /\ AppendEvent(r, "queued", NoCode)
  /\ queue'    = Append(queue, r)
  /\ requeued' = requeued + 1

ReconcileFailed(r) ==
  /\ disk[r].result = "none"
  /\ AppendEvent(r, "queued", NoCode)
  /\ queue'    = Append(queue, r)
  /\ requeued' = requeued + 1

ReconcileRun(r) ==
  /\ phase = "reconcile" /\ r \in todo /\ GoesOn
  /\ ReconcileFinished(r) \/ ReconcileFailed(r)
  /\ todo' = todo \ {r}
  /\ UNCHANGED <<pc, job, code, phase, bounds>>

ReconcileEnds ==
  /\ phase = "reconcile" /\ (todo = {} \/ ~GoesOn)
  /\ phase' = "serve" /\ todo' = {} /\ requeued' = 0
  /\ UNCHANGED <<disk, view, queue, pc, job, code, bounds>>

(* An append of the pass raises: the loop logs the exception and tries     *)
(* again after the interval.                                               *)
ReconcileFails(r) ==
  /\ phase = "reconcile" /\ r \in todo /\ GoesOn
  /\ faults < MaxFaults
  /\ EventFails(r, IF disk[r].result = "none" THEN "queued" ELSE "completed", NoCode)
  /\ phase' = "serve" /\ todo' = {} /\ requeued' = 0
  /\ faults' = faults + 1
  /\ UNCHANGED <<view, queue, pc, job, code, crashes>>

-----------------------------------------------------------------------------
(* The process dies: between two steps, while it writes an event, or in    *)
(* the middle of a creation.  (A death while result.json is written leaves *)
(* what CreateResult left.)  A write that raises during the recovery ends  *)
(* the process, too, and a shutdown ends in the same way: workers are      *)
(* waited for five seconds and are daemon threads.                         *)

Dies ==
  /\ phase # "down" /\ crashes < MaxCrashes
  /\ crashes' = crashes + 1
  /\ phase' = "down"
  /\ view'  = [r \in Runs |-> NoView]
  /\ queue' = <<>>
  /\ pc'    = [w \in Workers |-> "idle"]
  /\ job'   = [w \in Workers |-> NoRun]
  /\ code'  = [w \in Workers |-> NoCode]
  /\ todo'  = {} /\ requeued' = 0
  /\ UNCHANGED faults

Crash == Dies /\ UNCHANGED disk

CrashInAppend ==
  /\ Dies
  /\ \/ /\ Serving
        /\ \E w \in Workers : /\ pc[w] \in DOMAIN PendingEvent
                              /\ TornEvent(job[w], PendingEvent[pc[w]])
     \/ /\ phase = "recover"
        /\ \E r \in todo : disk[r].state # "queued" /\ TornEvent(r, "failed")
     \/ /\ phase = "reconcile" /\ GoesOn
        /\ \E r \in todo : TornEvent(r, "queued")

CrashInCreate == Dies /\ \E r \in Runs : HalfCreated(r)

-----------------------------------------------------------------------------

Init ==
  /\ disk  = [r \in Runs |-> NoDisk]
  /\ view  = [r \in Runs |-> NoView]
  /\ queue = <<>>
  /\ pc    = [w \in Workers |-> "idle"]
  /\ job   = [w \in Workers |-> NoRun]
  /\ code  = [w \in Workers |-> NoCode]
  /\ phase = "down" /\ todo = {} /\ requeued = 0
  /\ crashes = 0 /\ faults = 0

Api(r) == Create(r) \/ Get(r) \/ CreateFails(r)

WorkerStep(w) ==
  \/ Take(w) \/ Preparing(w) \/ Running(w) \/ RequestInvalid(w) \/ Execute(w)
  \/ Finalizing(w) \/ CreateResult(w) \/ CloseResult(w)
  \/ Completed(w) \/ Failed(w)

WorkerFault(w) == AppendFails(w) \/ ResultFails(w)

Pass ==
  \/ Start \/ RecoverEnds \/ ReconcileBegins \/ ReconcileEnds
  \/ \E r \in Runs : RecoverRun(r) \/ ReconcileRun(r)

Death == Crash \/ CrashInAppend \/ CrashInCreate

Next ==
  \/ \E r \in Runs : Api(r) \/ ReconcileFails(r)
  \/ \E w \in Workers : WorkerStep(w) \/ WorkerFault(w)
  \/ Pass \/ Death

Spec == Init /\ [][Next]_vars

(* A dead process is started again; threads are scheduled, executions      *)
(* return (the model client has a timeout and the loop a turn limit), and  *)
(* the reconcile loop wakes up every reconcile_interval_seconds.           *)
Fairness == WF_vars(Pass) /\ \A w \in Workers : WF_vars(WorkerStep(w))

FairSpec == Spec /\ Fairness

-----------------------------------------------------------------------------
(* Properties.                                                             *)

PcLabels == {"idle", "taken", "prepared", "executing", "executed", "finalized",
             "writing", "written", "failing", "dead"}

(* Every variable has its type; the queue never exceeds its capacity.      *)
TypeOK ==
  /\ disk  \in [Runs -> DiskRecords]
  /\ view  \in [Runs -> ViewRecords]
  /\ queue \in Seq(Runs) /\ Len(queue) <= MaxQueued
  /\ pc    \in [Workers -> PcLabels]
  /\ job   \in [Workers -> Runs \cup {NoRun}]
  /\ code  \in [Workers -> Codes]
  /\ phase \in {"down", "recover", "reconcile", "serve"}
  /\ todo  \subseteq Runs
  /\ requeued \in Nat
  /\ crashes  \in Nat
  /\ faults   \in Nat

(* "Retryable failures are reconciled in the same immutable run with a     *)
(* bounded attempt count" (the class docstring): whatever crashes, failing *)
(* writes and reconciliations a run goes through, it is never prepared     *)
(* more than max_run_attempts times.                                       *)
AttemptsBounded == \A r \in Runs : disk[r].attempts <= MaxRunAttempts

(* "A process crash cannot turn a failed/incomplete review into a          *)
(* completed report": a log that ends with "completed", and an API answer  *)
(* that says so, come with a result that was written to its end.           *)
CompletedHasResult ==
  \A r \in Runs :
    /\ disk[r].state = "completed" => disk[r].result = "good"
    /\ view[r].state = "completed" => view[r].result = "good"

(* A run waits in the queue once, or one worker has it, never two of them  *)
(* or both; and what waits is still "queued" in its log, so that no thread *)
(* takes up a run that has moved on.                                       *)
SingleDispatch ==
  /\ \A i, j \in DOMAIN queue : i # j => queue[i] # queue[j]
  /\ \A i \in DOMAIN queue, w \in Workers : job[w] # queue[i]
  /\ \A v, w \in Workers : v # w /\ job[v] # NoRun => job[v] # job[w]
  /\ \A i \in DOMAIN queue : /\ disk[queue[i]].state = "queued"
                             /\ ~disk[queue[i]].torn

(* result.json is created exclusively, without the lock, and after every   *)
(* retry again.  No attempt ever meets the result of an earlier one.       *)
ResultCreationIsExclusive ==
  \A w \in Workers : pc[w] = "finalized" => disk[job[w]].result = "none"

(* The index, which is all that clients see, tells the state and the       *)
(* attempts that the log tells, and lags behind it only where a write of   *)
(* this run failed: its thread has still to report the failure or ended in *)
(* reporting it, or a reconciliation broke off behind its event.           *)
Raised(r) == \E w \in Workers : job[w] = r /\ pc[w] \in {"failing", "dead"}

BrokenOff(r) ==
  /\ view[r].state = "failed" /\ IsRetryableFailure(r, view[r].code)
  /\ disk[r].state \in {"queued", "completed"}

IndexFollowsLog ==
  \A r \in Runs :
    Cached(r) /\ ~disk[r].torn /\ disk[r].result # "partial" =>
      \/ view[r].state = disk[r].state /\ view[r].attempts = disk[r].attempts
      \/ Raised(r) \/ BrokenOff(r)

(* While requests are served, every accepted run that is neither completed *)
(* nor failed is in the queue or in the hands of a thread (perhaps one     *)
(* that died of it), if the service has workers, the queue can hold all    *)
(* runs and the last event can be read: a restart forgets none.  A run     *)
(* whose reconciliation broke off is a candidate of the next one.  A run   *)
(* whose creation raised behind _READY has to wait for a restart.          *)
Assigned(r) ==
  \/ \E i \in DOMAIN queue : queue[i] = r
  \/ \E w \in Workers : job[w] = r

QueueHoldsAll ==
  Workers # {} /\ IsFiniteSet(Runs) /\ Cardinality(Runs) <= MaxQueued

CreationRaised(r) ==
  faults > 0 /\ disk[r].state = "queued" /\ disk[r].attempts = 0

UnfinishedIsAssigned ==
  Serving /\ QueueHoldsAll =>
    \A r \in Runs :
      Unfinished(r) => Assigned(r) \/ r \in Candidates \/ CreationRaised(r)

(* A completed run stays completed, with its result, and a failed run that *)
(* cannot be retried stays failed with the code it was given: no crash, no *)
(* late event of a thread and no reconciliation reopens either.  The only  *)
(* one that does is the thread that completed the run, while the outcome   *)
(* is in doubt: its append raised, and it has not reported that yet.       *)
Final(r) ==
  \/ disk[r].state = "completed"
  \/ disk[r].state = "failed" /\ ~IsRetryableFailure(r, disk[r].code)

InDoubt(r) == \E w \in Workers : job[w] = r /\ pc[w] = "failing"

Outcome(r) == <<disk[r].state, disk[r].code, disk[r].result, disk[r].attempts>>

FinalIsFinal ==
  [][\A r \in Runs : Final(r) /\ ~InDoubt(r) => Outcome(r)' = Outcome(r)]_vars

(* Every accepted run is completed or has failed for good in the end, with *)
(* no attempts left or a failure that is not retried: workers, reconciler  *)
(* and restarts never wait for each other.  A run whose last event a crash *)
(* cut short is excepted, and so are runs of a process with failed writes. *)
Settled(r) ==
  \/ Final(r)
  \/ disk[r].state = "failed" /\ disk[r].attempts = MaxRunAttempts

AcceptedRunSettles ==
  \A r \in Runs : Ready(r) ~> (Settled(r) \/ disk[r].torn \/ faults > 0)

(* The service implements RunLifecycle: what the log of an accepted run    *)
(* says is the status of the request.  A run that is completed in its log  *)
(* and in doubt still counts as active; clients are not told yet that it   *)
(* is completed either.                                                    *)
Status(r) ==
  IF ~Ready(r) THEN "absent" ELSE
  CASE disk[r].state = "queued"           -> "waiting"
    [] disk[r].state \in ActiveStates     -> "active"
    [] disk[r].state = "completed"        -> IF InDoubt(r) THEN "active" ELSE "completed"
    [] OTHER -> IF IsRetryableFailure(r, disk[r].code) THEN "retryable" ELSE "rejected"

Lifecycle ==
  INSTANCE RunLifecycle WITH
    Requests <- Runs, MaxAttempts <- MaxRunAttempts,
    status <- [r \in Runs |-> Status(r)],
    tries  <- [r \in Runs |-> disk[r].attempts]

ImplementsLifecycle == Lifecycle!Spec

(***************************************************************************)
(* What the documents say and the code does not do.                        *)
(***************************************************************************)

(* "Transient model failures, interruptions of the process ... are retried *)
(* with a bound" (README.md:33-34): a run that a dying process left behind is *)
(* attempted again, or has failed for good, though no write ever failed.   *)
InterruptedRunSettles ==
  \A r \in Runs : Ready(r) ~> (Settled(r) \/ faults > 0)

=============================================================================
