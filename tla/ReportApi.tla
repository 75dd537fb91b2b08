----------------------------- MODULE ReportApi -----------------------------
(***************************************************************************)
(* The HTTP service (report_api.py): a bounded number of request threads   *)
(* over a reader with a cached index of the published reports, a launcher  *)
(* of synchronous reviews, and the two run services.  Batches in other     *)
(* processes publish reports meanwhile, and runs go on.                    *)
(*                                                                         *)
(* A published report is its sort key, (completed_at, review_key), as a    *)
(* number; reports may be published in any order.  An agent run is an      *)
(* accepted envelope with a state; AgentRuns and PlagiarismRuns say how    *)
(* that state moves.  One action is what a thread does between two places  *)
(* at which another one can interfere.                                     *)
(***************************************************************************)
EXTENDS SignedBundles

CONSTANTS
  Threads, NoThread,
  MaxRequests,      \* max_request_threads
  RefreshSeconds,   \* refresh_seconds of the reader
  Submissions,
  Envelopes,        \* what is posted to the run services
  MaxReports, MaxClock, MaxAccepted, \* bounds: reports, time, requests
  MaxBuild          \* assumption: time that building an index takes

ASSUME ApiConstants ==
  /\ IsFiniteSet(Threads) /\ NoThread \notin Threads
  /\ \A e \in Envelopes : {e.submissions[1].id, e.target} \subseteq Submissions
  /\ MaxRequests \in Nat \ {0}
  /\ {RefreshSeconds, MaxReports, MaxClock, MaxAccepted, MaxBuild} \subseteq Nat

VARIABLES
  clock,
  disk,       \* per submission, the reports published, with the time
  runs,       \* the runs of both services, in the order of their creation
  index,      \* per submission the report in the index, 0 if none
  indexedAt,  \* when the index was built, as the reader thinks
  lock,       \* who holds the lock of the reader
  launcher,   \* who holds the launch lock
  slots,      \* request slots that are free
  accepted,   \* requests so far
  pc, req,    \* per thread: where it is, and the request
  since,      \* for the properties: what had to be shown when the request came
  base,       \* what was on disk when it began to build the index
  stamp,      \* the time it will note for the index
  own,        \* the report its review has published
  answer      \* what it has answered

files   == <<disk, runs>>
reader  == <<index, indexedAt, lock>>
threads == <<pc, req, since, base, stamp, own, answer>>
vars == <<clock, files, reader, launcher, slots, accepted, threads>>

-----------------------------------------------------------------------------
(* Reports and runs.                                                       *)

ReportsOf(s) == DOMAIN disk[s]

Write(s, r) ==
  disk' = IF r \in ReportsOf(s) THEN disk
          ELSE [disk EXCEPT ![s] = [q \in ReportsOf(s) \cup {r} |->
                                      IF q = r THEN clock ELSE disk[s][q]]]

Newest(S) == IF S = {} THEN 0 ELSE CHOOSE r \in S : \A q \in S : q <= r

(* get_submission_report of a submission looks for an agent run first.     *)
RunsOf(service, s) == {i \in DOMAIN runs : runs[i].service = service /\ runs[i].sub = s}

Latest(service, s) == Newest(RunsOf(service, s))

CompletedRun(s) ==
  LET i == Latest("agent", s) IN IF i # 0 /\ runs[i].state = "completed" THEN i ELSE 0

Fresh == clock - indexedAt < RefreshSeconds

-----------------------------------------------------------------------------
(* Requests.                                                               *)

NoEnvelope == "none"

(* The submission that a verified envelope is about.                       *)
Target(kind, e) == IF kind = "agent" THEN e.submissions[1].id ELSE e.target

Requests ==
  [kind : {"report", "launch", "latest"}, sub : Submissions, env : {NoEnvelope}]
    \cup {[kind |-> service, sub |-> Target(service, e), env |-> e] :
             service \in {"agent", "plagiarism"}, e \in Envelopes}

NoRequest == [kind |-> "none", sub |-> "none", env |-> NoEnvelope]
NoAnswer == [code |-> "none", report |-> 0, run |-> 0]
NoStart == [report |-> 0, run |-> 0]

(* The newest of the reports that every reader has to know.                *)
Settled(s) ==
  Newest({r \in ReportsOf(s) : disk[s][r] + RefreshSeconds + MaxBuild <= clock})

(* The newest of the agent runs that are completed.                        *)
LatestCompleted(s) == Newest({i \in RunsOf("agent", s) : runs[i].state = "completed"})

Code(c) == [NoAnswer EXCEPT !.code = c]

(* A connection gets a slot and a new thread (which one stands for it does *)
(* not matter); with no slot left it is told that the server is busy,      *)
(* which changes nothing.                                                  *)
Accept(t) ==
  /\ pc[t] = "idle" /\ t = CHOOSE u \in Threads : pc[u] = "idle"
  /\ slots > 0 /\ accepted < MaxAccepted
  /\ slots' = slots - 1 /\ accepted' = accepted + 1
  /\ \E r \in Requests :
       /\ req' = [req EXCEPT ![t] = r]
       /\ since' = [since EXCEPT ![t] = IF r.kind # "report" THEN NoStart
            ELSE [report |-> Settled(r.sub), run |-> LatestCompleted(r.sub)]]
  /\ pc' = [pc EXCEPT ![t] = "handle"]
  /\ UNCHANGED <<clock, files, reader, launcher, base, stamp, own, answer>>

Unchanged == UNCHANGED <<clock, files, reader, launcher, slots, accepted, since, base, stamp, own>>

GoTo(t, where) ==
  pc' = [pc EXCEPT ![t] = where] /\ UNCHANGED <<req, answer>>

Answer(t, a) ==
  /\ answer' = [answer EXCEPT ![t] = a]
  /\ pc' = [pc EXCEPT ![t] = "answered"]
  /\ UNCHANGED req

(* The thread is gone, and its slot is given back.                         *)
Leave(t) ==
  /\ pc' = [pc EXCEPT ![t] = "idle"] /\ slots' = slots + 1
  /\ req' = [req EXCEPT ![t] = NoRequest] /\ answer' = [answer EXCEPT ![t] = NoAnswer]
  /\ since' = [since EXCEPT ![t] = NoStart] /\ own' = [own EXCEPT ![t] = 0]
  /\ UNCHANGED <<clock, files, reader, launcher, accepted, base, stamp>>

(* Mutant of Fails: nobody gives the slot back.                            *)
FailsForGood(t) ==
  /\ pc[t] = "handle"
  /\ pc' = [pc EXCEPT ![t] = "idle"] /\ req' = [req EXCEPT ![t] = NoRequest]
  /\ UNCHANGED answer /\ Unchanged

(* No thread can be started (the listening thread gives the slot back), or *)
(* the client goes away before it has sent the body (the thread does).     *)
Fails(t) == pc[t] = "handle" /\ Leave(t)

(* The token, the length, the path, the method or the body is refused.     *)
Refuse(t) ==
  /\ pc[t] = "handle"
  /\ Answer(t, Code("REFUSED"))
  /\ Unchanged

(* The answer is written if the client is still there.                     *)
Close(t) == pc[t] = "answered" /\ Leave(t)

Handling(t, kind) == pc[t] = "handle" /\ req[t].kind = kind

-----------------------------------------------------------------------------
(* The report of a submission: of its latest agent run if that is          *)
(* completed, otherwise from the index.                                    *)

GetReport(t) ==
  /\ Handling(t, "report")
  /\ IF CompletedRun(req[t].sub) # 0
     THEN Answer(t, [Code("OK") EXCEPT !.run = CompletedRun(req[t].sub)])
     ELSE GoTo(t, "check")
  /\ Unchanged

Check(t) ==
  /\ pc[t] = "check"
  /\ GoTo(t, IF Fresh THEN "read" ELSE "wait")
  /\ Unchanged

(* Mutant of LockIsFree                                                    *)
LockIsIgnored == TRUE

LockIsFree == lock = NoThread

BeginBuild(t, where) ==
  /\ lock' = t /\ base' = [base EXCEPT ![t] = [s \in Submissions |-> ReportsOf(s)]]
  /\ stamp' = [stamp EXCEPT ![t] = clock]
  /\ GoTo(t, where)
  /\ UNCHANGED <<clock, files, launcher, slots, accepted, since, own>>

(* Mutants of TakeLock: the index counts as fresh while it is being built; *)
(* the build goes through a function that takes the lock again.            *)
TakeLockMarking(t) ==
  /\ pc[t] = "wait" /\ LockIsFree
  /\ \/ Fresh /\ GoTo(t, "read") /\ Unchanged
     \/ ~Fresh /\ BeginBuild(t, "build") /\ indexedAt' = clock /\ UNCHANGED index

TakeLockTwice(t) ==
  /\ pc[t] = "wait" /\ LockIsFree
  /\ \/ Fresh /\ GoTo(t, "read") /\ Unchanged
     \/ ~Fresh /\ BeginBuild(t, "wait") /\ UNCHANGED <<index, indexedAt>>

(* With the lock the index is looked at again.                             *)
TakeLock(t) ==
  /\ pc[t] = "wait" /\ LockIsFree
  /\ \/ Fresh /\ GoTo(t, "read") /\ Unchanged
     \/ ~Fresh /\ BeginBuild(t, "build") /\ UNCHANGED <<index, indexedAt>>

(* The index holds the newest of the files that the build came across: all *)
(* that were there when it began, and some of those published since.       *)
Build(t, at) ==
  /\ \E seen \in [Submissions -> SUBSET (1..MaxReports)] :
       /\ \A s \in Submissions : base[t][s] \subseteq seen[s] /\ seen[s] \subseteq ReportsOf(s)
       /\ index' = [s \in Submissions |-> Newest(seen[s])]
  /\ indexedAt' = at /\ lock' = NoThread
  /\ base' = [base EXCEPT ![t] = [s \in Submissions |-> {}]]
  /\ stamp' = [stamp EXCEPT ![t] = 0]
  /\ UNCHANGED <<clock, files, launcher, slots, accepted, since, own>>

(* _refresh_if_needed notes the time at which the build began.             *)
RefreshIfNeeded(t) == pc[t] = "build" /\ Build(t, stamp[t]) /\ GoTo(t, "read")

ReadIndex(t) ==
  /\ pc[t] = "read"
  /\ LET r == index[req[t].sub] IN
       Answer(t, IF r # 0 THEN [Code("OK") EXCEPT !.report = r]
                 ELSE Code(IF req[t].kind = "launch" THEN "REPORT_WRITE_MISSING" ELSE "NOT_FOUND"))
  /\ Unchanged

-----------------------------------------------------------------------------
(* A synchronous review.                                                   *)

(* Mutant of LaunchBegins: the lock is not looked at.                      *)
LaunchBeginsAnyway(t) ==
  /\ Handling(t, "launch")
  /\ launcher' = t /\ GoTo(t, "review")
  /\ UNCHANGED <<clock, files, reader, slots, accepted, since, base, stamp, own>>

(* The launch lock is not waited for.                                      *)
LaunchBegins(t) ==
  /\ Handling(t, "launch")
  /\ IF launcher = NoThread
     THEN /\ launcher' = t /\ GoTo(t, "review")
          /\ UNCHANGED <<clock, files, reader, slots, accepted, since, base, stamp, own>>
     ELSE Answer(t, Code("REVIEW_IN_PROGRESS")) /\ Unchanged

(* The runner publishes a report, or the one it finds in the ledger again. *)
Publish(t) ==
  /\ pc[t] = "review" /\ own[t] = 0
  /\ \E r \in 1..MaxReports :
       /\ Write(req[t].sub, r)
       /\ own' = [own EXCEPT ![t] = r]
  /\ UNCHANGED <<clock, runs, reader, launcher, slots, accepted, pc, req, since, base, stamp,
                 answer>>

(* The submission cannot be reviewed, the launcher raises, the review      *)
(* fails, also after it has published; or it has succeeded.                *)
LaunchReturns(t, next) ==
  /\ pc[t] = "review"
  /\ launcher' = NoThread
  /\ \/ Answer(t, Code("REVIEW_FAILED"))
     \/ own[t] # 0 /\ GoTo(t, next)
  /\ UNCHANGED <<clock, files, reader, slots, accepted, since, base, stamp, own>>

(* Mutant of LaunchEnds: the index is left to its schedule.                *)
LaunchEndsWithoutRefresh(t) == LaunchReturns(t, "check")

LaunchEnds(t) == LaunchReturns(t, "refresh")

(* refresh notes the time at which the build ended.                        *)
RefreshBegins(t) ==
  /\ pc[t] = "refresh" /\ LockIsFree
  /\ BeginBuild(t, "rebuild") /\ UNCHANGED <<index, indexedAt>>

Refresh(t) == pc[t] = "rebuild" /\ Build(t, clock) /\ GoTo(t, "check")

-----------------------------------------------------------------------------
(* Runs.                                                                   *)

Verified(service, e, now) ==
  IF service = "agent" THEN VerifyReviewBundle(e, now) ELSE VerifyPlagiarismBundle(e, now)

(* The same envelope is the same run.                                      *)
Known(service, e) == \E i \in DOMAIN runs : runs[i].service = service /\ runs[i].env = e

CreateRun(t) ==
  LET service == req[t].kind
      e       == req[t].env
  IN
  /\ pc[t] = "handle" /\ service \in {"agent", "plagiarism"}
  /\ \/ /\ Verified(service, e, clock)
        /\ Answer(t, Code("ACCEPTED"))
        /\ runs' = IF Known(service, e) THEN runs
                   ELSE Append(runs, [service |-> service, sub |-> req[t].sub, env |-> e,
                                      state |-> "open"])
     \/ ~Verified(service, e, clock) /\ Answer(t, Code("INVALID_BUNDLE")) /\ UNCHANGED runs
     \/ Answer(t, Code("QUEUE_FULL")) /\ UNCHANGED runs
  /\ UNCHANGED <<clock, disk, reader, launcher, slots, accepted, since, base, stamp, own>>

LatestRun(t) ==
  /\ Handling(t, "latest")
  /\ \E service \in {"agent", "plagiarism"} :
       LET i == Latest(service, req[t].sub)
       IN  Answer(t, IF i = 0 THEN Code("NOT_FOUND") ELSE [Code("OK") EXCEPT !.run = i])
  /\ Unchanged

(* Mutant of StoredRequestIsValid: the window is checked once more.        *)
StoredRequestIsStillValid(r) == Verified(r.service, r.env, clock)

(* A worker verifies the stored request before it executes it.             *)
StoredRequestIsValid(r) == Verified(r.service, r.env, AnyTime)

(* A run completes; one that has failed, and perhaps is tried again, is as *)
(* open for the API as one that waits.                                     *)
RunEnds(i) ==
  /\ runs[i].state = "open"
  /\ runs' = [runs EXCEPT ![i].state =
                IF StoredRequestIsValid(runs[i]) THEN "completed" ELSE "invalid"]
  /\ UNCHANGED <<clock, disk, reader, launcher, slots, accepted, threads>>

-----------------------------------------------------------------------------

(* A batch, or an execution of a run, publishes a report.                  *)
BatchPublishes(s) ==
  /\ \E r \in (1..MaxReports) \ ReportsOf(s) : Write(s, r)
  /\ UNCHANGED <<clock, runs, reader, launcher, slots, accepted, threads>>

Tick ==
  /\ clock < MaxClock
  /\ \A t \in Threads : pc[t] \in {"build", "rebuild"} => clock - stamp[t] < MaxBuild
  /\ clock' = clock + 1
  /\ UNCHANGED <<files, reader, launcher, slots, accepted, threads>>

(* The index is empty, and counts as built at time 0 of a clock that has   *)
(* run for long: the first reader builds it.                               *)
Init ==
  /\ clock = 0
  /\ disk = [s \in Submissions |-> <<>>] /\ runs = <<>>
  /\ index = [s \in Submissions |-> 0] /\ indexedAt = -RefreshSeconds
  /\ lock = NoThread /\ launcher = NoThread
  /\ slots = MaxRequests /\ accepted = 0
  /\ pc = [t \in Threads |-> "idle"] /\ req = [t \in Threads |-> NoRequest]
  /\ since = [t \in Threads |-> NoStart]
  /\ base = [t \in Threads |-> [s \in Submissions |-> {}]]
  /\ stamp = [t \in Threads |-> 0] /\ own = [t \in Threads |-> 0]
  /\ answer = [t \in Threads |-> NoAnswer]

Step(t) ==
  \/ Fails(t) \/ Refuse(t) \/ Close(t)
  \/ GetReport(t) \/ Check(t) \/ TakeLock(t) \/ RefreshIfNeeded(t) \/ ReadIndex(t)
  \/ LaunchBegins(t) \/ Publish(t) \/ LaunchEnds(t) \/ RefreshBegins(t) \/ Refresh(t)
  \/ CreateRun(t) \/ LatestRun(t)

Next ==
  \/ \E t \in Threads : Accept(t) \/ Step(t)
  \/ \E i \in DOMAIN runs : RunEnds(i)
  \/ \E s \in Submissions : BatchPublishes(s)
  \/ Tick

Spec == Init /\ [][Next]_vars

(* Threads are scheduled; a client sends its body or goes away; a review   *)
(* ends (its model calls have timeouts).                                   *)
FairSpec == Spec /\ \A t \in Threads : WF_vars(Step(t))

-----------------------------------------------------------------------------
(* Properties.                                                             *)

(* Every variable has its type, and each lock is held by the one thread    *)
(* that is where it needs it.                                              *)
TypeOK ==
  /\ clock \in 0..MaxClock
  /\ \A s \in Submissions : /\ ReportsOf(s) \subseteq 1..MaxReports
                            /\ \A r \in ReportsOf(s) : disk[s][r] \in 0..clock
  /\ \A i \in DOMAIN runs :
       runs[i] \in [service : {"agent", "plagiarism"}, sub : Submissions, env : Envelopes,
                    state : {"open", "completed", "invalid"}]
  /\ index \in [Submissions -> 0..MaxReports] /\ indexedAt \in Int
  /\ req \in [Threads -> Requests \cup {NoRequest}]
  /\ \A t \in Threads :
       /\ (lock = t) <=> (pc[t] \in {"build", "rebuild"})
       /\ (launcher = t) <=> (pc[t] = "review")
       /\ base[t] \in [Submissions -> SUBSET (1..MaxReports)]
       /\ own[t] \in 0..MaxReports /\ stamp[t] \in 0..MaxClock
       /\ answer[t].report \in 0..MaxReports /\ answer[t].run \in 0..Len(runs)

(* No error path loses a request slot or gives one back twice, although    *)
(* it is taken by the listening thread and given back by another one.      *)
SlotsConserved == slots + Cardinality({t \in Threads : pc[t] # "idle"}) = MaxRequests

(* A synchronous review that succeeds answers with its own report or a     *)
(* newer one, never that its report is missing: whatever other threads do  *)
(* to the index between its refresh and its read.                          *)
LaunchShowsItsReport ==
  \A t \in Threads :
    pc[t] = "answered" /\ req[t].kind = "launch" =>
      /\ answer[t].code = "OK" => answer[t].report >= own[t]
      /\ answer[t].code # "REPORT_WRITE_MISSING"

(* Readers never go back in time: the index of a submission only gets      *)
(* newer, although it is rebuilt by any thread and read without a lock.    *)
IndexNeverGoesBack == [][\A s \in Submissions : index'[s] >= index[s]]_index

(* A reader sees every report that was published RefreshSeconds, and the   *)
(* time of a build, before its request, although it does not wait for a    *)
(* build as long as the index counts as fresh.                             *)
BoundedStaleness ==
  \A t \in Threads :
    pc[t] = "answered" /\ req[t].kind = "report" /\ answer[t].code \in {"OK", "NOT_FOUND"} =>
      answer[t].run # 0 \/ answer[t].report >= since[t].report

(* What was accepted within its window stays valid when a worker reads it  *)
(* back, however late; and no envelope starts two runs, be it posted       *)
(* again or to the other service.                                          *)
AcceptedRunsStayValid ==
  \A i \in DOMAIN runs :
    /\ runs[i].state # "invalid"
    /\ \A j \in DOMAIN runs : runs[i].env = runs[j].env => i = j

(* No lock is kept for ever, and every request ends: as requests are       *)
(* bounded, again and again none is under way.                             *)
RequestsEnd == []<>(\A t \in Threads : pc[t] = "idle")

(***************************************************************************)
(* What the documents say and the code does not do.                        *)
(***************************************************************************)

(* "The old report can be shown together with the new active run; only     *)
(* when the new run is completed does it replace the latest report"        *)
(* (docs/agent-review-design.md:327): a submission that had a completed    *)
(* run when the request came is answered with that run or a newer one that *)
(* is completed, whatever other runs it has.                               *)
OldReportStays ==
  \A t \in Threads :
    pc[t] = "answered" /\ answer[t].code \in {"OK", "NOT_FOUND"} =>
      answer[t].run >= since[t].run

=============================================================================
