----------------------- MODULE PlagiarismRunsProofs -----------------------
(***************************************************************************)
(* The safety of PlagiarismRuns, for every set of runs, submissions, keys  *)
(* and candidates, any number of threads, any queue, batch and attempt     *)
(* limit, and any number of answers, crashes and failing writes.           *)
(***************************************************************************)
EXTENDS PlagiarismRuns, FiniteSetTheorems, SequenceTheorems, WellFoundedInduction, TLAPS

-----------------------------------------------------------------------------
(* The inductive invariant.                                                *)

(* What a result may leave out: candidates whose pair no item tells of.    *)
Untold(r, told) ==
  {i \in DOMAIN Candidates[r] :
     \A x \in told.items : PairOf[x.key] # PairOf[Candidates[r][i]]}

Accounts(r, told) ==
  /\ told.reviewed + told.failed = Len(Candidates[r])
  /\ Cardinality(Untold(r, told)) <= told.failed

(* What a run directory and the index can say of a run.  The index says    *)
(* "failed" of a run of which the log says otherwise where a pass broke    *)
(* off behind its event.                                                   *)
RunInv(r) ==
  /\ disk[r].stage = "absent" => disk[r] = NoDisk
  /\ disk[r].stage \in {"absent", "partial"} =>
       disk[r].state = "none" /\ disk[r].attempts = 0
  /\ disk[r].stage = "unready" => disk[r].state = "queued"
  /\ Ready(r) => disk[r].state # "none"
  /\ disk[r].attempts <= MaxRunAttempts
  /\ disk[r].state = "queued" /\ ~disk[r].torn => disk[r].attempts < MaxRunAttempts
  /\ disk[r].state \in {"none", "queued", "preparing", "running"} => disk[r].result = "none"
  /\ disk[r].state = "completed" => disk[r].result = "good"
  /\ Cached(r) => disk[r].stage \in {"unready", "ready"}
  /\ view[r].state = "failed" =>
       /\ Ready(r) /\ disk[r].result # "partial"
       /\ \/ disk[r].state = "failed" /\ disk[r].code = view[r].code
          \/ disk[r].state \in {"queued", "completed"}
  /\ disk[r].result = "good" => Accounts(r, disk[r].report)

(* What the place of a thread says of the run it works on.                 *)
JobAt(label, r) ==
  CASE label = "taken"    -> disk[r].state = "queued" /\ ~disk[r].torn
    [] label = "prepared" -> disk[r].state = "preparing"
    [] label \in {"loading", "next", "asking", "record", "publish", "executed"} ->
         disk[r].state = "running"
    [] label = "finalized" -> disk[r].state = "finalizing" /\ disk[r].result = "none"
    [] label = "writing"   -> disk[r].state = "finalizing" /\ disk[r].result = "partial"
    [] label = "written"   -> disk[r].state = "finalizing" /\ disk[r].result = "good"
    [] label = "failing"   -> disk[r].state \in ActiveStates \cup {"queued", "completed"}
    [] OTHER               -> TRUE

WorkerInv(w) ==
  /\ At(w, "idle") <=> Job(w) = None
  /\ ~At(w, "idle") =>
       /\ Ready(Job(w)) /\ Cached(Job(w)) /\ view[Job(w)].state # "failed"
       /\ JobAt(thread[w].pc, Job(w))

(* The candidates before n of which no review has been published.          *)
Missing(r, n) == {i \in 1..(n - 1) : published[Candidates[r][i]] = {}}

(* What an execution has done so far, and the review it holds.             *)
ExecInv(w) ==
  LET t == thread[w] IN
  /\ t.pc \in {"taken", "prepared", "loading"} =>
       t.pos = 1 /\ t.reviewed = 0 /\ t.failed = 0
  /\ t.pc \in {"next", "asking", "record", "publish"} =>
       /\ t.pos <= Len(Candidates[t.run]) + 1
       /\ t.reviewed + t.failed = t.pos - 1
       /\ Cardinality(Missing(t.run, t.pos)) <= t.failed
  /\ t.pc \in {"asking", "record", "publish"} => t.pos <= Len(Candidates[t.run])
  /\ t.pc \in {"record", "publish"} => t.review \in Reviews /\ t.review.at <= calls
  /\ t.pc = "record" => t.review.conclusive
  /\ t.pc = "publish" /\ t.review.conclusive => ledger[Key(w)] = t.review
  /\ t.pc \in {"executed", "finalized", "writing"} => Accounts(t.run, t.report)
  /\ t.pc = "failing" => t.code # NoCode

(* What is published as final is the verdict of the ledger.                *)
LedgerInv ==
  \A k \in Keys :
    /\ ledger[k] # None => ledger[k].at <= calls
    /\ \A v \in published[k] : v.at <= calls /\ (v.conclusive => ledger[k] = v)

Waiting(r) ==
  /\ Ready(r) /\ disk[r].state = "queued" /\ ~disk[r].torn
  /\ Cached(r) /\ view[r].state # "failed"

QueueInv ==
  /\ \A i \in 1..Len(queue) : Waiting(queue[i])
  /\ \A i, j \in 1..Len(queue) : i # j => queue[i] # queue[j]
  /\ \A i \in 1..Len(queue), w \in Workers : Job(w) # queue[i]
  /\ \A v, w \in Workers : v # w /\ Job(v) # None => Job(v) # Job(w)

(* latest answers for a submission with a run of it, and no run of it that *)
(* the index holds is newer.                                               *)
IndexInv ==
  /\ \A s \in Submissions : latest[s] # None =>
       Target[latest[s]] = s /\ disk[latest[s]].stage # "absent"
  /\ \A r \in Runs : Cached(r) =>
       latest[Target[r]] # None /\ ~Newer(disk, r, latest[Target[r]])

(* The index holds what can be read, except for runs whose creation raised *)
(* since the process began.                                                *)
Indexed(r) == Ready(r) /\ Readable(r) => Cached(r) \/ CreationRaised(r)

PassInv ==
  /\ phase # "down" => \A r \in Runs : Indexed(r)
  /\ phase \in {"down", "recover"} => \A w \in Workers : At(w, "idle")
  /\ phase = "down" => queue = <<>> /\ todo = {} /\ (\A r \in Runs : view[r] = NoView)
                       /\ \A s \in Submissions : latest[s] = None
  /\ phase = "serve" => todo = {}
  /\ phase = "recover" =>
       \A r \in todo : /\ Unfinished(r)
                       /\ disk[r].state = "queued" => Cached(r)
                       /\ view[r].state # "failed"
                       /\ disk[r].result = "partial" => ~Cached(r)
                       /\ \A i \in 1..Len(queue) : queue[i] # r
  /\ phase = "reconcile" => \A r \in todo : Retried(r)

IInv ==
  /\ TypeOK
  /\ \A r \in Runs : RunInv(r)
  /\ \A w \in Workers : WorkerInv(w) /\ ExecInv(w)
  /\ LedgerInv /\ QueueInv /\ IndexInv /\ PassInv

-----------------------------------------------------------------------------
(* What the writes to a run directory do, field by field.                  *)

LEMMA AttemptsNat ==
  ASSUME TypeOK, NEW r \in Runs, NEW s
  PROVE  /\ Attempts(r, s) \in Nat /\ disk[r].attempts \in Nat
         /\ s = "preparing" => Attempts(r, s) = disk[r].attempts + 1
         /\ s # "preparing" => Attempts(r, s) = disk[r].attempts
BY DEF TypeOK, DiskRecords, Attempts

(* An event changes the log of its run, and nothing else of it.            *)
LEMMA WriteFacts ==
  ASSUME TypeOK, NEW r \in Runs, NEW s \in RunStates, NEW c \in Codes,
         WriteEvent(r, s, c)
  PROVE  /\ disk' \in [Runs -> DiskRecords]
         /\ \A q \in Runs : q # r => disk'[q] = disk[q]
         /\ disk'[r].state = s /\ disk'[r].code = c /\ ~disk'[r].torn
         /\ disk'[r].attempts = Attempts(r, s)
         /\ disk'[r].stage = disk[r].stage /\ disk'[r].created = disk[r].created
         /\ disk'[r].result = disk[r].result /\ disk'[r].report = disk[r].report
<1> DEFINE n == Attempts(r, s)
<1>1. disk' = [disk EXCEPT ![r] = [@ EXCEPT !.state = s, !.code = c, !.torn = FALSE,
                                            !.attempts = n]]
  BY DEF WriteEvent
<1>2. n \in Nat
  BY AttemptsNat
<1> HIDE DEF n
<1>3. disk[r] \in DiskRecords /\ disk \in [Runs -> DiskRecords]
  BY DEF TypeOK
<1>4. [disk[r] EXCEPT !.state = s, !.code = c, !.torn = FALSE, !.attempts = n] \in DiskRecords
  BY <1>2, <1>3 DEF DiskRecords
<1>5. /\ disk' \in [Runs -> DiskRecords]
      /\ \A q \in Runs : q # r => disk'[q] = disk[q]
      /\ disk'[r] = [disk[r] EXCEPT !.state = s, !.code = c, !.torn = FALSE, !.attempts = n]
  BY <1>1, <1>3, <1>4
<1>6. QED
  BY <1>3, <1>5 DEF DiskRecords, n

(* An append changes also the index entry of the run, if there is one that *)
(* can be refreshed.                                                       *)
LEMMA AppendFacts ==
  ASSUME TypeOK, NEW r \in Runs, NEW s \in RunStates, NEW c \in Codes,
         AppendEvent(r, s, c)
  PROVE  /\ disk' \in [Runs -> DiskRecords] /\ view' \in [Runs -> ViewRecords]
         /\ \A q \in Runs : q # r => disk'[q] = disk[q] /\ view'[q] = view[q]
         /\ disk'[r].state = s /\ disk'[r].code = c /\ ~disk'[r].torn
         /\ disk'[r].attempts = Attempts(r, s)
         /\ disk'[r].stage = disk[r].stage /\ disk'[r].created = disk[r].created
         /\ disk'[r].result = disk[r].result /\ disk'[r].report = disk[r].report
         /\ ~Cached(r) \/ RefreshFails(r) => view' = view
         /\ Cached(r) /\ ~RefreshFails(r) =>
              view'[r].state = s /\ (c # NoCode => view'[r].code = c)
         /\ latest' = latest
<1>1. Attempts(r, s) \in Nat
  BY AttemptsNat
<1>2. /\ disk' \in [Runs -> DiskRecords]
      /\ \A q \in Runs : q # r => disk'[q] = disk[q]
      /\ disk'[r].state = s /\ disk'[r].code = c /\ ~disk'[r].torn
      /\ disk'[r].attempts = Attempts(r, s)
      /\ disk'[r].stage = disk[r].stage /\ disk'[r].created = disk[r].created
      /\ disk'[r].result = disk[r].result /\ disk'[r].report = disk[r].report
      /\ latest' = latest
  BY WriteFacts DEF AppendEvent
<1>3. CASE ~Cached(r) \/ RefreshFails(r)
  BY <1>2, <1>3 DEF AppendEvent, RefreshIndex, TypeOK, RefreshFails
<1>4. CASE Cached(r) /\ ~RefreshFails(r)
  <2> DEFINE x == [state |-> s, code |-> IF c = NoCode THEN view[r].code ELSE c,
                   attempts |-> Attempts(r, s), result |-> disk[r].result]
  <2>1. view' = [view EXCEPT ![r] = x]
    BY <1>4 DEF AppendEvent, RefreshIndex
  <2>2. view[r].code \in Codes /\ disk[r].result \in {"none", "good"}
    BY <1>4 DEF TypeOK, ViewRecords, DiskRecords, RefreshFails
  <2>3. x \in ViewRecords
    BY <1>1, <2>2 DEF ViewRecords
  <2>4. x.state = s /\ (c # NoCode => x.code = c)
    OBVIOUS
  <2>5. view \in [Runs -> ViewRecords]
    BY DEF TypeOK
  <2> HIDE DEF x
  <2>6. /\ view' \in [Runs -> ViewRecords] /\ view'[r] = x
        /\ \A q \in Runs : q # r => view'[q] = view[q]
    BY <2>1, <2>3, <2>5
  <2>7. QED
    BY <1>2, <1>4, <2>4, <2>6 DEF RefreshFails
<1>5. QED
  BY <1>3, <1>4

LEMMA TornFacts ==
  ASSUME TypeOK, NEW r \in Runs, NEW s, TornEvent(r, s)
  PROVE  /\ disk' \in [Runs -> DiskRecords]
         /\ \A q \in Runs : q # r => disk'[q] = disk[q]
         /\ disk'[r].torn /\ disk'[r].attempts = Attempts(r, s)
         /\ disk'[r].state = disk[r].state /\ disk'[r].code = disk[r].code
         /\ disk'[r].stage = disk[r].stage /\ disk'[r].created = disk[r].created
         /\ disk'[r].result = disk[r].result /\ disk'[r].report = disk[r].report
<1> DEFINE n == Attempts(r, s)
<1>1. disk' = [disk EXCEPT ![r] = [@ EXCEPT !.torn = TRUE, !.attempts = n]]
  BY DEF TornEvent
<1>2. n \in Nat
  BY AttemptsNat
<1> HIDE DEF n
<1>3. disk[r] \in DiskRecords /\ disk \in [Runs -> DiskRecords]
  BY DEF TypeOK
<1>4. [disk[r] EXCEPT !.torn = TRUE, !.attempts = n] \in DiskRecords
  BY <1>2, <1>3 DEF DiskRecords
<1>5. /\ disk' \in [Runs -> DiskRecords]
      /\ \A q \in Runs : q # r => disk'[q] = disk[q]
      /\ disk'[r] = [disk[r] EXCEPT !.torn = TRUE, !.attempts = n]
  BY <1>1, <1>3, <1>4
<1>6. QED
  BY <1>3, <1>5 DEF DiskRecords, n

-----------------------------------------------------------------------------
(* What the steps of a thread do to it, field by field.                    *)

LEMMA NoneIsNothing == None \notin Runs /\ None \notin Reviews
BY PlagiarismConstants DEF Reviews

LEMMA ThreadFields ==
  ASSUME TypeOK, NEW w \in Workers
  PROVE  /\ thread[w] \in Threads
         /\ thread[w].pc \in PcLabels /\ thread[w].run \in Runs \cup {None}
         /\ thread[w].pos \in Nat \ {0} /\ thread[w].reviewed \in Nat /\ thread[w].failed \in Nat
         /\ thread[w].review \in Reviews \cup {None} /\ thread[w].report \in Reports
         /\ thread[w].code \in Codes
<1>1. thread[w] \in Threads
  BY DEF TypeOK
<1>2. QED
  BY <1>1 DEF Threads

LEMMA SetFacts ==
  ASSUME TypeOK, NEW w \in Workers, NEW t \in Threads, Set(w, t)
  PROVE  /\ thread' \in [Workers -> Threads] /\ thread'[w] = t
         /\ \A v \in Workers : v # w => thread'[v] = thread[v]
BY DEF TypeOK, Set

LEMMA GotoFacts ==
  ASSUME TypeOK, NEW w \in Workers, NEW label \in PcLabels, Goto(w, label)
  PROVE  /\ thread' \in [Workers -> Threads]
         /\ \A v \in Workers : v # w => thread'[v] = thread[v]
         /\ thread'[w].pc = label /\ thread'[w].run = thread[w].run
         /\ thread'[w].pos = thread[w].pos /\ thread'[w].reviewed = thread[w].reviewed
         /\ thread'[w].failed = thread[w].failed /\ thread'[w].review = thread[w].review
         /\ thread'[w].report = thread[w].report /\ thread'[w].code = thread[w].code
<1> DEFINE t == [thread[w] EXCEPT !.pc = label]
<1>1. thread[w] \in Threads
  BY ThreadFields
<1>2. /\ t \in Threads /\ t.pc = label /\ t.run = thread[w].run /\ t.pos = thread[w].pos
      /\ t.reviewed = thread[w].reviewed /\ t.failed = thread[w].failed
      /\ t.review = thread[w].review /\ t.report = thread[w].report /\ t.code = thread[w].code
  BY <1>1 DEF Threads
<1>3. Set(w, t)
  BY DEF Goto
<1> HIDE DEF t
<1>4. QED
  BY <1>2, <1>3, SetFacts

LEMMA IdleTyped == Idle \in Threads
<1>1. "none" \in Codes /\ 1 \in Nat \ {0} /\ 0 \in Nat /\ "idle" \in PcLabels
  BY DEF Codes, NoCode, PcLabels
<1>2. NoReport \in Reports
  BY DEF NoReport, Reports
<1>3. QED
  BY <1>1, <1>2 DEF Idle, Threads, NoCode

LEMMA RaiseFacts ==
  ASSUME TypeOK, NEW w \in Workers, NEW c \in Codes, Raise(w, c)
  PROVE  /\ thread' \in [Workers -> Threads]
         /\ \A v \in Workers : v # w => thread'[v] = thread[v]
         /\ thread'[w].pc = "failing" /\ thread'[w].run = thread[w].run /\ thread'[w].code = c
<1> DEFINE t == [Idle EXCEPT !.pc = "failing", !.run = Job(w), !.code = c]
<1>1. Job(w) \in Runs \cup {None} /\ "failing" \in PcLabels
  BY ThreadFields DEF Job, PcLabels
<1>2. t \in Threads /\ t.pc = "failing" /\ t.run = thread[w].run /\ t.code = c
  BY <1>1, IdleTyped DEF Threads, Job
<1>3. Set(w, t)
  BY DEF Raise
<1> HIDE DEF t
<1>4. QED
  BY <1>2, <1>3, SetFacts

(* A thread that has no run is as it was when the process began.           *)
LEMMA IdleFields ==
  /\ Idle.pc = "idle" /\ Idle.run = None /\ Idle.pos = 1 /\ Idle.reviewed = 0 /\ Idle.failed = 0
  /\ Idle.review = None /\ Idle.report = NoReport /\ Idle.code = NoCode
BY DEF Idle

-----------------------------------------------------------------------------
(* What a step leaves alone keeps its part of the invariant.               *)

LEMMA RunFrame ==
  ASSUME NEW r \in Runs, RunInv(r), disk'[r] = disk[r], view'[r] = view[r]
  PROVE  RunInv(r)'
BY DEF RunInv, Ready, Cached, Accounts, Untold

LEMMA WorkerFrame ==
  ASSUME NEW w \in Workers, WorkerInv(w), thread'[w] = thread[w],
         ~At(w, "idle") => disk'[Job(w)] = disk[Job(w)] /\ view'[Job(w)] = view[Job(w)]
  PROVE  WorkerInv(w)'
<1>1. Job(w)' = Job(w) /\ (\A label : At(w, label)' <=> At(w, label))
  BY DEF Job, At
<1>2. CASE At(w, "idle")
  BY <1>1, <1>2 DEF WorkerInv
<1>3. CASE ~At(w, "idle")
  BY <1>1, <1>3 DEF WorkerInv, JobAt, Ready, Cached, Job
<1>4. QED
  BY <1>2, <1>3

(* Reviews are added, and verdicts stay.                                   *)
ReviewsGrow ==
  /\ \A k \in Keys : /\ ledger[k] # None => ledger'[k] = ledger[k]
                     /\ published[k] \subseteq published'[k]
  /\ calls <= calls'

(* The candidates that have no review get fewer.                           *)
LEMMA MissingShrinks ==
  ASSUME NEW r \in Runs, NEW n \in Nat \ {0}, n <= Len(Candidates[r]) + 1,
         \A k \in Keys : published[k] \subseteq published'[k]
  PROVE  /\ IsFiniteSet(Missing(r, n)) /\ IsFiniteSet(Missing(r, n)')
         /\ Cardinality(Missing(r, n)) \in Nat /\ Cardinality(Missing(r, n)') \in Nat
         /\ Missing(r, n)' \subseteq Missing(r, n)
         /\ Cardinality(Missing(r, n)') <= Cardinality(Missing(r, n))
<1>1. Candidates[r] \in Seq(Keys)
  BY PlagiarismConstants
<1>2. \A i \in 1..(n - 1) : Candidates[r][i] \in Keys
  BY <1>1, ElementOfSeq, LenProperties
<1>3. IsFiniteSet(1..(n - 1))
  BY FS_Interval
<1>4. Missing(r, n)' \subseteq Missing(r, n) /\ Missing(r, n) \subseteq 1..(n - 1)
  BY <1>2 DEF Missing
<1>5. IsFiniteSet(Missing(r, n)) /\ IsFiniteSet(Missing(r, n)')
  BY <1>3, <1>4, FS_Subset
<1>6. QED
  BY <1>4, <1>5, FS_CardinalityType, FS_Subset

LEMMA ExecFrame ==
  ASSUME TypeOK, TypeOK', NEW w \in Workers, WorkerInv(w), ExecInv(w), thread'[w] = thread[w],
         ReviewsGrow
  PROVE  ExecInv(w)'
<1> DEFINE t == thread[w]
<1>1. /\ t.pos \in Nat \ {0} /\ t.reviewed \in Nat /\ t.failed \in Nat
      /\ t.run \in Runs \cup {None} /\ calls \in Nat /\ calls' \in Nat /\ calls <= calls'
  BY ThreadFields DEF TypeOK, ReviewsGrow
<1>2. t.pc \in {"next", "asking", "record", "publish"} => t.run \in Runs
  BY <1>1 DEF WorkerInv, At, Job
<1>3. t.pc \in {"next", "asking", "record", "publish"} =>
        Cardinality(Missing(t.run, t.pos)') <= t.failed
  BY <1>1, <1>2, MissingShrinks DEF ExecInv, ReviewsGrow
<1>4. t.pc \in {"record", "publish"} => t.review \in Reviews /\ t.review.at \in Nat
  BY DEF ExecInv, Reviews
<1>5. t.pc \in {"record", "publish"} => t.review \in Reviews /\ t.review.at <= calls'
  BY <1>1, <1>4 DEF ExecInv
<1>6. t.pc = "publish" => Key(w) \in Keys /\ Key(w)' = Key(w)
  <2>1. Candidates[t.run] \in Seq(Keys) \/ t.pc # "publish"
    BY <1>2, PlagiarismConstants
  <2>2. t.pc = "publish" => t.pos \in 1..Len(Candidates[t.run])
    BY <1>1, <2>1 DEF ExecInv
  <2>3. QED
    BY <2>1, <2>2, ElementOfSeq DEF Key, Job
<1>7. t.pc = "publish" /\ t.review.conclusive => ledger'[Key(w)] = t.review
  <2>1. None \notin Reviews
    BY NoneIsNothing
  <2>2. QED
    BY <1>4, <1>6, <2>1 DEF ExecInv, ReviewsGrow
<1>8. Missing(t.run, t.pos)' = {i \in 1..(t.pos - 1) : published'[Candidates[t.run][i]] = {}}
  BY DEF Missing
<1>9. QED
  BY <1>3, <1>5, <1>6, <1>7 DEF ExecInv, Missing, Accounts, Untold

(* The index answers as before while no run gets another time.             *)
LEMMA IndexFrame ==
  ASSUME TypeOK, IndexInv, latest' = latest,
         \A r \in Runs : disk[r].stage # "absent" =>
           disk'[r].stage # "absent" /\ disk'[r].created = disk[r].created,
         \A r \in Runs : Cached(r)' => Cached(r) /\ disk[r].stage # "absent"
  PROVE  IndexInv'
<1>1. \A s \in Submissions : latest[s] # None => latest[s] \in Runs
  BY DEF TypeOK
<1>2. \A r \in Runs : Target[r] \in Submissions
  BY PlagiarismConstants
<1>3. \A s \in Submissions : latest'[s] # None =>
        Target[latest'[s]] = s /\ disk'[latest'[s]].stage # "absent"
  BY <1>1 DEF IndexInv
<1>4. ASSUME NEW r \in Runs, Cached(r)'
      PROVE  latest'[Target[r]] # None /\ ~Newer(disk', r, latest'[Target[r]])
  <2>1. /\ latest[Target[r]] # None /\ ~Newer(disk, r, latest[Target[r]])
        /\ disk[r].stage # "absent" /\ disk[latest[Target[r]]].stage # "absent"
    BY <1>2, <1>4 DEF IndexInv
  <2>2. disk'[r].created = disk[r].created
        /\ disk'[latest[Target[r]]].created = disk[latest[Target[r]]].created
    BY <1>1, <1>2, <2>1
  <2>3. QED
    BY <2>1, <2>2 DEF Newer
<1>5. QED
  BY <1>3, <1>4 DEF IndexInv

LEMMA IndexStays ==
  ASSUME IndexInv, UNCHANGED <<disk, view, latest>>
  PROVE  IndexInv'
BY DEF IndexInv, Newer, Cached

(* No earlier failing write is forgotten.                                  *)
LEMMA IndexedStays ==
  ASSUME TypeOK, NEW r \in Runs, Indexed(r), disk'[r] = disk[r], Cached(r) => Cached(r)',
         faults' \in {faults, faults + 1}
  PROVE  Indexed(r)'
BY DEF Indexed, Ready, Readable, CreationRaised, TypeOK

-----------------------------------------------------------------------------
(* Steps of a thread.                                                      *)

(* A thread that has a run can report on it: the index has an entry.       *)
LEMMA Busy ==
  ASSUME IInv, NEW w \in Workers, ~At(w, "idle")
  PROVE  /\ TypeOK /\ Job(w) \in Runs /\ RunInv(Job(w)) /\ ExecInv(w)
         /\ Ready(Job(w)) /\ Cached(Job(w)) /\ view[Job(w)].state # "failed"
         /\ JobAt(thread[w].pc, Job(w))
         /\ Candidates[Job(w)] \in Seq(Keys) /\ Len(Candidates[Job(w)]) \in Nat
<1>1. TypeOK /\ Job(w) \in Runs
  BY ThreadFields DEF IInv, WorkerInv, Job
<1>2. Candidates[Job(w)] \in Seq(Keys) /\ Len(Candidates[Job(w)]) \in Nat
  BY <1>1, LenProperties, PlagiarismConstants
<1>3. QED
  BY <1>1, <1>2 DEF IInv, WorkerInv

(* A thread that changes only its own run, and lets go of that run or      *)
(* keeps it, disturbs neither other threads nor the queue nor a pass.      *)
LEMMA ThreadKeepsInv ==
  ASSUME IInv, NEW w \in Workers, NEW r \in Runs, Job(w) = r, ~At(w, "idle"), TypeOK',
         \A q \in Runs : q # r => disk'[q] = disk[q] /\ view'[q] = view[q],
         disk'[r].stage = "ready", Cached(r)',
         \A v \in Workers : v # w => thread'[v] = thread[v],
         Job(w)' \in {r, None},
         disk'[r].created = disk[r].created,
         RunInv(r)', WorkerInv(w)', ExecInv(w)', ReviewsGrow, LedgerInv',
         faults' \in {faults, faults + 1}, UNCHANGED <<latest, queue, phase, todo>>
  PROVE  IInv'
<1>1. r \in Runs /\ Ready(r) /\ Cached(r) /\ view[r].state # "failed" /\ TypeOK
  BY Busy
<1>3. \A q \in Runs : RunInv(q)'
  <2> SUFFICES ASSUME NEW q \in Runs PROVE RunInv(q)'
    OBVIOUS
  <2>1. CASE q = r
    BY <2>1
  <2>2. CASE q # r
    BY <2>2, RunFrame DEF IInv
  <2>3. QED
    BY <2>1, <2>2
<1>4. ASSUME NEW v \in Workers PROVE WorkerInv(v)' /\ ExecInv(v)'
  <2>1. CASE v = w
    BY <2>1
  <2>2. CASE v # w
    <3>1. ~At(v, "idle") => Job(v) \in Runs /\ Job(v) # r
      BY <2>2, <1>1, Busy, PlagiarismConstants DEF IInv, QueueInv, WorkerInv
    <3>2. WorkerInv(v)'
      BY <2>2, <3>1, WorkerFrame DEF IInv
    <3>3. ExecInv(v)'
      BY <2>2, <1>1, ExecFrame DEF IInv
    <3>4. QED
      BY <3>2, <3>3
  <2>3. QED
    BY <2>1, <2>2
<1>5. QueueInv'
  <2>1. \A i \in 1..Len(queue) : queue[i] \in Runs
    BY <1>1, ElementOfSeq DEF TypeOK
  <2>2. \A i \in 1..Len(queue) : queue[i] # r
    BY DEF IInv, QueueInv
  <2>3. \A i \in 1..Len(queue) : Waiting(queue[i])'
    BY <2>1, <2>2 DEF IInv, QueueInv, Waiting, Ready, Cached
  <2>4. \A i \in 1..Len(queue), v \in Workers : thread'[v].run # queue[i]
    <3>1. \A i \in 1..Len(queue), v \in Workers : thread[v].run # queue[i]
      BY DEF IInv, QueueInv, Job
    <3>2. QED
      BY <2>1, <2>2, <3>1, NoneIsNothing DEF Job
  <2>5. \A u, v \in Workers :
          u # v /\ thread'[u].run # None => thread'[u].run # thread'[v].run
    <3>1. \A u, v \in Workers :
            u # v /\ thread[u].run # None => thread[u].run # thread[v].run
      BY DEF IInv, QueueInv, Job
    <3>2. thread[w].run = r /\ r # None /\ thread'[w].run \in {r, None}
      BY NoneIsNothing DEF Job
    <3>3. \A v \in Workers : v # w => thread'[v].run = thread[v].run
      OBVIOUS
    <3>4. QED
      BY <3>1, <3>2, <3>3
  <2>6. QED
    <3>1. \A i, j \in 1..Len(queue) : i # j => queue[i] # queue[j]
      BY DEF IInv, QueueInv
    <3>2. QED
      BY <2>3, <2>4, <2>5, <3>1 DEF QueueInv, Job
<1>6. IndexInv'
  <2>1. \A q \in Runs : disk[q].stage # "absent" =>
          disk'[q].stage # "absent" /\ disk'[q].created = disk[q].created
    BY <1>1
  <2>2. \A q \in Runs : Cached(q)' => Cached(q) /\ disk[q].stage # "absent"
    <3>1. \A q \in Runs : Cached(q) => disk[q].stage # "absent"
      BY DEF IInv, RunInv
    <3>2. QED
      BY <1>1, <3>1 DEF Cached
  <2>3. QED
    BY <1>1, <2>1, <2>2, IndexFrame DEF IInv
<1>7. PassInv'
  <2>1. phase \notin {"down", "recover"}
    BY DEF IInv, PassInv
  <2>2. ASSUME phase = "reconcile", NEW q \in todo PROVE Retried(q)'
    <3>1. Retried(q) /\ q \in Runs /\ q # r
      BY <2>2, <1>1 DEF IInv, PassInv, Retried, TypeOK
    <3>2. disk'[q] = disk[q] /\ view'[q] = view[q]
      BY <3>1
    <3>3. QED
      BY <3>1, <3>2 DEF Retried
  <2>3. \A q \in Runs : Indexed(q)'
    <3> SUFFICES ASSUME NEW q \in Runs PROVE Indexed(q)'
      OBVIOUS
    <3>1. CASE q = r
      BY <3>1 DEF Indexed
    <3>2. CASE q # r
      <4>1. Indexed(q) /\ disk'[q] = disk[q] /\ view'[q] = view[q]
        BY <3>2, <2>1 DEF IInv, PassInv, TypeOK
      <4>2. QED
        BY <1>1, <4>1, IndexedStays DEF Cached
    <3>3. QED
      BY <3>1, <3>2
  <2>4. QED
    BY <2>1, <2>2, <2>3 DEF IInv, PassInv
<1>8. QED
  BY <1>1, <1>3, <1>4, <1>5, <1>6, <1>7 DEF IInv

LEMMA ReviewsStay ==
  ASSUME IInv, UNCHANGED <<ledger, published, calls>>
  PROVE  ReviewsGrow /\ LedgerInv'
<1>1. calls \in Nat /\ LedgerInv
  BY DEF IInv, TypeOK
<1>2. QED
  BY <1>1 DEF ReviewsGrow, LedgerInv

LEMMA PreparingKeeps ==
  ASSUME IInv, NEW w \in Workers, Preparing(w)
  PROVE  IInv'
<1>1. PICK r \in Runs : r = Job(w)
  BY Busy DEF Preparing, At
<1>2. /\ TypeOK /\ At(w, "taken") /\ ~At(w, "idle") /\ RunInv(r) /\ ExecInv(w)
      /\ Ready(r) /\ Cached(r) /\ JobAt("taken", r)
  BY <1>1, Busy DEF Preparing, At
<1>3. /\ AppendEvent(r, "preparing", NoCode) /\ "preparing" \in RunStates /\ NoCode \in Codes
      /\ Goto(w, "prepared") /\ "prepared" \in PcLabels
  BY <1>1 DEF Preparing, RunStates, ActiveStates, Codes, PcLabels
<1>4. disk[r].state = "queued" /\ disk[r].result = "none" /\ disk[r].attempts < MaxRunAttempts
  BY <1>2 DEF JobAt, RunInv
<1>5. ~RefreshFails(r)
  BY <1>4 DEF RefreshFails
<1>6. TypeOK'
  BY <1>2, <1>3, AppendFacts, GotoFacts DEF Preparing, TypeOK, pass, reviews, bounds
<1>7. RunInv(r)'
  <2>1. disk'[r].attempts <= MaxRunAttempts
    BY <1>2, <1>3, <1>4, AppendFacts, AttemptsNat, PlagiarismConstants
  <2>2. QED
    BY <1>2, <1>3, <1>4, <1>5, <2>1, AppendFacts DEF RunInv, Ready, Cached
<1>8. WorkerInv(w)'
  BY <1>1, <1>2, <1>3, <1>4, <1>5, AppendFacts, GotoFacts, NoneIsNothing
     DEF WorkerInv, JobAt, At, Job, Ready, Cached
<1>9. ExecInv(w)'
  BY <1>2, <1>3, GotoFacts DEF ExecInv, At
<1>10. ReviewsGrow /\ LedgerInv' /\ UNCHANGED <<queue, phase, todo, faults>>
  BY ReviewsStay DEF Preparing, reviews, bounds, pass
<1>11. disk'[r].stage = "ready" /\ Cached(r)' /\ Job(w)' = r
  BY <1>1, <1>2, <1>3, <1>5, AppendFacts, GotoFacts DEF Ready, Cached, Job
<1>12. QED
  BY <1>1, <1>2, <1>3, <1>6, <1>7, <1>8, <1>9, <1>10, <1>11, AppendFacts, GotoFacts, ThreadKeepsInv

LEMMA RunningKeeps ==
  ASSUME IInv, NEW w \in Workers, Running(w)
  PROVE  IInv'
<1>1. PICK r \in Runs : r = Job(w)
  BY Busy DEF Running, At
<1>2. /\ TypeOK /\ At(w, "prepared") /\ ~At(w, "idle") /\ RunInv(r) /\ ExecInv(w)
      /\ Ready(r) /\ Cached(r) /\ JobAt("prepared", r)
  BY <1>1, Busy DEF Running, At
<1>3. /\ AppendEvent(r, "running", NoCode) /\ "running" \in RunStates /\ NoCode \in Codes
      /\ Goto(w, "loading") /\ "loading" \in PcLabels
  BY <1>1 DEF Running, RunStates, ActiveStates, Codes, PcLabels
<1>4. disk[r].state = "preparing" /\ disk[r].result = "none"
  BY <1>2 DEF JobAt, RunInv
<1>5. ~RefreshFails(r)
  BY <1>4 DEF RefreshFails
<1>6. TypeOK'
  BY <1>2, <1>3, AppendFacts, GotoFacts DEF Running, TypeOK, pass, reviews, bounds
<1>7. RunInv(r)'
  BY <1>2, <1>3, <1>4, <1>5, AppendFacts, AttemptsNat DEF RunInv, Ready, Cached
<1>8. WorkerInv(w)'
  BY <1>1, <1>2, <1>3, <1>4, <1>5, AppendFacts, GotoFacts, NoneIsNothing
     DEF WorkerInv, JobAt, At, Job, Ready, Cached
<1>9. ExecInv(w)'
  BY <1>2, <1>3, GotoFacts DEF ExecInv, At
<1>10. ReviewsGrow /\ LedgerInv' /\ UNCHANGED <<queue, phase, todo, faults>>
  BY ReviewsStay DEF Running, reviews, bounds, pass
<1>11. disk'[r].stage = "ready" /\ Cached(r)' /\ Job(w)' = r
  BY <1>1, <1>2, <1>3, <1>5, AppendFacts, GotoFacts DEF Ready, Cached, Job
<1>12. QED
  BY <1>1, <1>2, <1>3, <1>6, <1>7, <1>8, <1>9, <1>10, <1>11, AppendFacts, GotoFacts, ThreadKeepsInv

LEMMA FinalizingKeeps ==
  ASSUME IInv, NEW w \in Workers, Finalizing(w)
  PROVE  IInv'
<1>1. PICK r \in Runs : r = Job(w)
  BY Busy DEF Finalizing, At
<1>2. /\ TypeOK /\ At(w, "executed") /\ ~At(w, "idle") /\ RunInv(r) /\ ExecInv(w)
      /\ Ready(r) /\ Cached(r) /\ JobAt("executed", r)
  BY <1>1, Busy DEF Finalizing, At
<1>3. /\ AppendEvent(r, "finalizing", NoCode) /\ "finalizing" \in RunStates /\ NoCode \in Codes
      /\ Goto(w, "finalized") /\ "finalized" \in PcLabels
  BY <1>1 DEF Finalizing, RunStates, ActiveStates, Codes, PcLabels
<1>4. disk[r].state = "running" /\ disk[r].result = "none"
  BY <1>2 DEF JobAt, RunInv
<1>5. ~RefreshFails(r)
  BY <1>4 DEF RefreshFails
<1>6. TypeOK'
  BY <1>2, <1>3, AppendFacts, GotoFacts DEF Finalizing, TypeOK, pass, reviews, bounds
<1>7. RunInv(r)'
  BY <1>2, <1>3, <1>4, <1>5, AppendFacts, AttemptsNat DEF RunInv, Ready, Cached
<1>8. WorkerInv(w)'
  BY <1>1, <1>2, <1>3, <1>4, <1>5, AppendFacts, GotoFacts, NoneIsNothing
     DEF WorkerInv, JobAt, At, Job, Ready, Cached
<1>9. ExecInv(w)'
  <2>1. /\ thread'[w].pc = "finalized" /\ thread'[w].run = thread[w].run
        /\ thread'[w].report = thread[w].report
    BY <1>2, <1>3, GotoFacts
  <2>2. Accounts(thread'[w].run, thread'[w].report)
    BY <1>2, <2>1 DEF ExecInv, At
  <2>3. QED
    BY <2>1, <2>2 DEF ExecInv, Accounts, Untold
<1>10. ReviewsGrow /\ LedgerInv' /\ UNCHANGED <<queue, phase, todo, faults>>
  BY ReviewsStay DEF Finalizing, reviews, bounds, pass
<1>11. disk'[r].stage = "ready" /\ Cached(r)' /\ Job(w)' = r
  BY <1>1, <1>2, <1>3, <1>5, AppendFacts, GotoFacts DEF Ready, Cached, Job
<1>12. QED
  BY <1>1, <1>2, <1>3, <1>6, <1>7, <1>8, <1>9, <1>10, <1>11, AppendFacts, GotoFacts, ThreadKeepsInv

LEMMA CompletedKeeps ==
  ASSUME IInv, NEW w \in Workers, Completed(w)
  PROVE  IInv'
<1>1. PICK r \in Runs : r = Job(w)
  BY Busy DEF Completed, At
<1>2. /\ TypeOK /\ At(w, "written") /\ ~At(w, "idle") /\ RunInv(r) /\ ExecInv(w)
      /\ Ready(r) /\ Cached(r) /\ JobAt("written", r)
  BY <1>1, Busy DEF Completed, At
<1>3. /\ AppendEvent(r, "completed", NoCode) /\ "completed" \in RunStates /\ NoCode \in Codes
      /\ Set(w, Idle) /\ Idle \in Threads
  BY <1>1, IdleTyped DEF Completed, RunStates, Codes
<1>4. disk[r].state = "finalizing" /\ disk[r].result = "good"
  BY <1>2 DEF JobAt, RunInv
<1>5. ~RefreshFails(r)
  BY <1>4 DEF RefreshFails
<1>6. TypeOK'
  BY <1>2, <1>3, AppendFacts, SetFacts DEF Completed, TypeOK, pass, reviews, bounds
<1>7. RunInv(r)'
  <2>1. disk'[r].attempts <= MaxRunAttempts
    BY <1>2, <1>3, AppendFacts, AttemptsNat DEF RunInv
  <2>2. Accounts(r, disk'[r].report) /\ disk'[r].result = "good"
    BY <1>2, <1>3, <1>4, AppendFacts DEF RunInv
  <2>3. QED
    BY <1>2, <1>3, <1>4, <1>5, <2>1, <2>2, AppendFacts
       DEF RunInv, Ready, Cached, Accounts, Untold
<1>8. WorkerInv(w)' /\ ExecInv(w)' /\ Job(w)' = None
  BY <1>2, <1>3, SetFacts, IdleFields DEF WorkerInv, ExecInv, At, Job
<1>9. ReviewsGrow /\ LedgerInv' /\ UNCHANGED <<queue, phase, todo, faults>>
  BY ReviewsStay DEF Completed, reviews, bounds, pass
<1>10. disk'[r].stage = "ready" /\ Cached(r)'
  BY <1>2, <1>3, <1>5, AppendFacts DEF Ready, Cached
<1>11. QED
  BY <1>1, <1>2, <1>3, <1>6, <1>7, <1>8, <1>9, <1>10, AppendFacts, SetFacts, ThreadKeepsInv

(* The event "failed" can only fail to reach the index where result.json   *)
(* is incomplete; then the thread ends, and the index keeps its entry.     *)
LEMMA FailedKeeps ==
  ASSUME IInv, NEW w \in Workers, Failed(w)
  PROVE  IInv'
<1>1. PICK r \in Runs : r = Job(w)
  BY Busy DEF Failed, At
<1> DEFINE c == thread[w].code
<1>2. /\ TypeOK /\ At(w, "failing") /\ ~At(w, "idle") /\ RunInv(r) /\ ExecInv(w)
      /\ Ready(r) /\ Cached(r) /\ view[r].state # "failed" /\ JobAt("failing", r)
  BY <1>1, Busy DEF Failed, At
<1>3. AppendEvent(r, "failed", c) /\ "failed" \in RunStates /\ c \in Codes /\ c # NoCode
  BY <1>1, <1>2, ThreadFields DEF Failed, RunStates, ExecInv, At
<1>4. disk[r].state \in ActiveStates \cup {"queued", "completed"}
  BY <1>2 DEF JobAt, ActiveStates
<1>5. /\ RefreshFails(r) => Goto(w, "dead")
      /\ ~RefreshFails(r) => Set(w, Idle)
      /\ "dead" \in PcLabels /\ Idle \in Threads
  BY <1>1, IdleTyped DEF Failed, PcLabels
<1>6. thread' \in [Workers -> Threads] /\ \A v \in Workers : v # w => thread'[v] = thread[v]
  BY <1>2, <1>5, SetFacts, GotoFacts
<1>7. TypeOK'
  BY <1>2, <1>3, <1>6, AppendFacts DEF Failed, TypeOK, pass, reviews, bounds
<1>8. RunInv(r)'
  <2>1. disk'[r].attempts <= MaxRunAttempts
    BY <1>2, <1>3, AppendFacts, AttemptsNat DEF RunInv
  <2>2. disk'[r].result = "good" => Accounts(r, disk'[r].report)
    BY <1>2, <1>3, AppendFacts DEF RunInv
  <2>3. CASE RefreshFails(r)
    BY <1>2, <1>3, <2>1, <2>2, <2>3, AppendFacts
       DEF RunInv, Ready, Cached, RefreshFails, Accounts, Untold
  <2>4. CASE ~RefreshFails(r)
    BY <1>2, <1>3, <2>1, <2>2, <2>4, AppendFacts
       DEF RunInv, Ready, Cached, RefreshFails, Accounts, Untold
  <2>5. QED
    BY <2>3, <2>4
<1>9. WorkerInv(w)' /\ ExecInv(w)' /\ Job(w)' \in {r, None}
  <2>1. CASE RefreshFails(r)
    <3>1. thread'[w].pc = "dead" /\ thread'[w].run = r
      BY <1>1, <1>2, <1>5, <2>1, GotoFacts DEF Job
    <3>2. QED
      BY <1>1, <1>2, <1>3, <2>1, <3>1, AppendFacts, NoneIsNothing
         DEF WorkerInv, JobAt, ExecInv, At, Job, Ready, Cached
  <2>2. CASE ~RefreshFails(r)
    BY <1>2, <1>5, <2>2, SetFacts, IdleFields DEF WorkerInv, ExecInv, At, Job
  <2>3. QED
    BY <2>1, <2>2
<1>10. ReviewsGrow /\ LedgerInv' /\ UNCHANGED <<queue, phase, todo, faults>>
  BY ReviewsStay DEF Failed, reviews, bounds, pass
<1>11. disk'[r].stage = "ready" /\ Cached(r)'
  BY <1>2, <1>3, AppendFacts DEF Ready, Cached
<1>12. QED
  BY <1>1, <1>2, <1>3, <1>6, <1>7, <1>8, <1>9, <1>10, <1>11, AppendFacts, ThreadKeepsInv

(* A step that touches no run directory and no index.                      *)
LEMMA LocalStepKeepsInv ==
  ASSUME IInv, NEW w \in Workers, NEW r \in Runs, Job(w) = r, ~At(w, "idle"), TypeOK',
         \A v \in Workers : v # w => thread'[v] = thread[v],
         thread'[w].run = r, thread'[w].pc # "idle", JobAt(thread'[w].pc, r),
         ExecInv(w)', ReviewsGrow, LedgerInv',
         faults' \in {faults, faults + 1}, UNCHANGED Outside
  PROVE  IInv'
<1>1. UNCHANGED <<disk, view, latest, queue, phase, todo>>
  BY DEF Outside, index, pass
<1>2. Ready(r) /\ Cached(r) /\ view[r].state # "failed" /\ RunInv(r)
  BY Busy
<1>3. RunInv(r)' /\ disk'[r].stage = "ready" /\ Cached(r)'
  BY <1>1, <1>2, RunFrame DEF Ready, Cached
<1>4. WorkerInv(w)' /\ Job(w)' = r
  BY <1>1, <1>2, NoneIsNothing DEF WorkerInv, At, Job, JobAt, Ready, Cached
<1>5. QED
  BY <1>1, <1>3, <1>4, ThreadKeepsInv

LEMMA RaiseKeeps ==
  ASSUME IInv, NEW w \in Workers, NEW c \in Codes, c # NoCode, Raise(w, c),
         ~At(w, "idle"), disk[Job(w)].state \in ActiveStates \cup {"queued", "completed"},
         UNCHANGED <<Outside, reviews, calls>>, crashes' \in Nat,
         faults' \in Nat /\ faults' \in {faults, faults + 1}
  PROVE  IInv'
<1>1. PICK r \in Runs : r = Job(w)
  BY Busy
<1>2. TypeOK
  BY DEF IInv
<1>3. TypeOK'
  BY <1>2, RaiseFacts DEF TypeOK, Outside, index, pass, reviews
<1>4. thread'[w].pc = "failing" /\ thread'[w].run = r /\ thread'[w].code = c
  BY <1>1, <1>2, RaiseFacts DEF Job
<1>5. JobAt(thread'[w].pc, r) /\ ExecInv(w)'
  BY <1>1, <1>4 DEF JobAt, ExecInv
<1>6. ReviewsGrow /\ LedgerInv'
  BY ReviewsStay DEF reviews
<1>7. \A v \in Workers : v # w => thread'[v] = thread[v]
  BY <1>2, RaiseFacts
<1>8. UNCHANGED Outside
  OBVIOUS
<1>9. QED
  BY <1>1, <1>3, <1>4, <1>5, <1>6, <1>7, <1>8, LocalStepKeepsInv

LEMMA ExecutionFailedIsCode ==
  "PLAGIARISM_EXECUTION_FAILED" \in Codes /\ "PLAGIARISM_EXECUTION_FAILED" # NoCode
BY DEF Codes, RetryableFailures, NoCode

LEMMA RequestInvalidKeeps ==
  ASSUME IInv, NEW w \in Workers, RequestInvalid(w)
  PROVE  IInv'
<1>1. ~At(w, "idle") /\ disk[Job(w)].state \in ActiveStates
  BY Busy DEF RequestInvalid, At, JobAt, ActiveStates
<1>2. UNCHANGED <<Outside, reviews, calls>> /\ crashes' \in Nat /\ faults' \in Nat
      /\ faults' \in {faults, faults + 1}
  BY DEF RequestInvalid, Outside, bounds, IInv, TypeOK
<1>3. QED
  BY <1>1, <1>2, RaiseKeeps, ExecutionFailedIsCode DEF RequestInvalid

(* The file is there, but incomplete.                                      *)
LEMMA CreateResultKeeps ==
  ASSUME IInv, NEW w \in Workers, CreateResult(w)
  PROVE  IInv'
<1>1. PICK r \in Runs : r = Job(w)
  BY Busy DEF CreateResult, At
<1>2. /\ TypeOK /\ At(w, "finalized") /\ ~At(w, "idle") /\ RunInv(r) /\ ExecInv(w)
      /\ Ready(r) /\ Cached(r) /\ view[r].state # "failed" /\ JobAt("finalized", r)
  BY <1>1, Busy DEF CreateResult, At
<1>3. disk[r].state = "finalizing" /\ disk[r].result = "none"
  BY <1>2 DEF JobAt
<1>4. disk' = [disk EXCEPT ![r].result = "partial"] /\ Goto(w, "writing") /\ "writing" \in PcLabels
  BY <1>1, <1>3 DEF CreateResult, PcLabels
<1>5. /\ disk' \in [Runs -> DiskRecords]
      /\ \A q \in Runs : q # r => disk'[q] = disk[q]
      /\ disk'[r].stage = disk[r].stage /\ disk'[r].state = disk[r].state
      /\ disk'[r].code = disk[r].code /\ disk'[r].attempts = disk[r].attempts
      /\ disk'[r].result = "partial" /\ disk'[r].torn = disk[r].torn
      /\ disk'[r].created = disk[r].created
  BY <1>2, <1>4 DEF TypeOK, DiskRecords
<1>6. UNCHANGED <<view, latest, queue, phase, todo, requeued, ledger, published,
                  calls, crashes, faults>>
  BY DEF CreateResult, index, pass, reviews, bounds
<1>7. TypeOK'
  BY <1>2, <1>4, <1>5, <1>6, GotoFacts DEF TypeOK
<1>8. RunInv(r)'
  BY <1>2, <1>3, <1>5, <1>6 DEF RunInv, Ready, Cached
<1>9. thread'[w].pc = "writing" /\ thread'[w].run = r /\ thread'[w].report = thread[w].report
  BY <1>1, <1>2, <1>4, GotoFacts DEF Job
<1>10. WorkerInv(w)'
  BY <1>2, <1>3, <1>5, <1>6, <1>9, NoneIsNothing DEF WorkerInv, JobAt, At, Job, Ready, Cached
<1>11. ExecInv(w)'
  <2>1. Accounts(thread'[w].run, thread'[w].report)
    BY <1>1, <1>2, <1>9 DEF ExecInv, At, Job
  <2>2. QED
    BY <1>9, <2>1 DEF ExecInv, Accounts, Untold
<1>12. ReviewsGrow /\ LedgerInv'
  BY <1>6, ReviewsStay
<1>13. disk'[r].stage = "ready" /\ Cached(r)' /\ Job(w)' = r
  BY <1>2, <1>5, <1>6, <1>9 DEF Ready, Cached, Job
<1>14. QED
  BY <1>1, <1>2, <1>4, <1>5, <1>6, <1>7, <1>8, <1>10, <1>11, <1>12, <1>13, GotoFacts,
     ThreadKeepsInv

(* A written report accounts for all candidates: that is what the thread   *)
(* has counted.                                                            *)
LEMMA ReportWritten ==
  ASSUME IInv, NEW w \in Workers, NEW r \in Runs, r = Job(w), WriteReport(w),
         UNCHANGED view
  PROVE  /\ disk' \in [Runs -> DiskRecords]
         /\ \A q \in Runs : q # r => disk'[q] = disk[q]
         /\ disk'[r].stage = "ready" /\ disk'[r].state = "finalizing"
         /\ disk'[r].created = disk[r].created
         /\ disk'[r].result = "good" /\ RunInv(r)'
<1> DEFINE told == thread[w].report
<1>1. /\ TypeOK /\ RunInv(r) /\ ExecInv(w) /\ Ready(r) /\ Cached(r)
      /\ view[r].state # "failed" /\ JobAt("writing", r)
  BY Busy DEF At, WriteReport
<1>2. disk[r].state = "finalizing" /\ told \in Reports
  BY <1>1, ThreadFields DEF JobAt
<1>3. Accounts(r, told)
  BY <1>1 DEF ExecInv, At, Job, WriteReport
<1>4. disk' = [disk EXCEPT ![r] = [@ EXCEPT !.result = "good", !.report = told]]
  BY DEF WriteReport
<1> HIDE DEF told
<1>5. disk[r] \in DiskRecords /\ disk \in [Runs -> DiskRecords]
  BY <1>1 DEF TypeOK
<1>6. [disk[r] EXCEPT !.result = "good", !.report = told] \in DiskRecords
  BY <1>2, <1>5 DEF DiskRecords
<1>7. /\ disk' \in [Runs -> DiskRecords]
      /\ \A q \in Runs : q # r => disk'[q] = disk[q]
      /\ disk'[r] = [disk[r] EXCEPT !.result = "good", !.report = told]
  BY <1>4, <1>5, <1>6
<1>8. /\ disk'[r].stage = disk[r].stage /\ disk'[r].state = disk[r].state
      /\ disk'[r].code = disk[r].code /\ disk'[r].attempts = disk[r].attempts
      /\ disk'[r].torn = disk[r].torn /\ disk'[r].created = disk[r].created
      /\ disk'[r].result = "good" /\ disk'[r].report = told
  BY <1>5, <1>7 DEF DiskRecords
<1>9. RunInv(r)'
  BY <1>1, <1>2, <1>3, <1>8 DEF RunInv, Ready, Cached, Accounts, Untold
<1>10. QED
  BY <1>1, <1>2, <1>7, <1>8, <1>9 DEF Ready

LEMMA CloseResultKeeps ==
  ASSUME IInv, NEW w \in Workers, CloseResult(w)
  PROVE  IInv'
<1>1. PICK r \in Runs : r = Job(w)
  BY Busy DEF CloseResult, WriteReport, At
<1>2. TypeOK /\ At(w, "writing") /\ ~At(w, "idle") /\ Cached(r) /\ view[r].state # "failed"
  BY <1>1, Busy DEF CloseResult, WriteReport, At
<1>3. /\ UNCHANGED <<view, latest, queue, phase, todo, requeued, ledger, published,
                     calls, crashes, faults>>
      /\ Goto(w, "written") /\ "written" \in PcLabels
  BY DEF CloseResult, index, pass, reviews, bounds, PcLabels
<1>4. /\ disk' \in [Runs -> DiskRecords]
      /\ \A q \in Runs : q # r => disk'[q] = disk[q]
      /\ disk'[r].stage = "ready" /\ disk'[r].state = "finalizing"
      /\ disk'[r].created = disk[r].created
      /\ disk'[r].result = "good" /\ RunInv(r)'
  BY <1>1, <1>2, <1>3, ReportWritten DEF CloseResult
<1>5. TypeOK'
  BY <1>2, <1>3, <1>4, GotoFacts DEF TypeOK
<1>6. thread'[w].pc = "written" /\ thread'[w].run = r
  BY <1>1, <1>2, <1>3, GotoFacts DEF Job
<1>7. WorkerInv(w)' /\ ExecInv(w)' /\ Job(w)' = r /\ Cached(r)'
  BY <1>2, <1>3, <1>4, <1>6, NoneIsNothing
     DEF WorkerInv, ExecInv, JobAt, At, Job, Ready, Cached
<1>8. ReviewsGrow /\ LedgerInv'
  BY <1>3, ReviewsStay
<1>9. QED
  BY <1>1, <1>2, <1>3, <1>4, <1>5, <1>7, <1>8, GotoFacts, ThreadKeepsInv

(* The write raises: the thread takes it for a failure of the execution,   *)
(* even behind a report that is complete.                                  *)
LEMMA ResultFailsKeeps ==
  ASSUME IInv, NEW w \in Workers, ResultFails(w)
  PROVE  IInv'
<1> DEFINE c == "PLAGIARISM_EXECUTION_FAILED"
<1>1. ~At(w, "idle") /\ disk[Job(w)].state \in ActiveStates \cup {"queued", "completed"}
  BY Busy DEF ResultFails, WriteReport, At, JobAt, ActiveStates
<1>2. /\ UNCHANGED <<view, latest, queue, phase, todo, requeued, ledger, published, calls, crashes>>
      /\ crashes' \in Nat /\ faults' \in Nat /\ faults' \in {faults, faults + 1}
      /\ Raise(w, c) /\ c \in Codes /\ c # NoCode /\ TypeOK
  BY ExecutionFailedIsCode DEF ResultFails, index, pass, reviews, IInv, TypeOK
<1>3. CASE UNCHANGED disk
  BY <1>1, <1>2, <1>3, RaiseKeeps DEF Outside, index, pass, reviews
<1>4. CASE WriteReport(w)
  <2>1. PICK r \in Runs : r = Job(w)
    BY <1>1, Busy
  <2>2. /\ disk' \in [Runs -> DiskRecords]
        /\ \A q \in Runs : q # r => disk'[q] = disk[q]
        /\ disk'[r].stage = "ready" /\ disk'[r].state = "finalizing"
        /\ disk'[r].created = disk[r].created /\ RunInv(r)'
    BY <1>2, <1>4, <2>1, ReportWritten
  <2>3. /\ thread' \in [Workers -> Threads]
        /\ \A v \in Workers : v # w => thread'[v] = thread[v]
        /\ thread'[w].pc = "failing" /\ thread'[w].run = r /\ thread'[w].code = c
    BY <1>2, <2>1, RaiseFacts DEF Job
  <2>4. TypeOK'
    BY <1>2, <2>2, <2>3 DEF TypeOK
  <2>5. Cached(r) /\ view[r].state # "failed"
    BY <1>1, <2>1, Busy
  <2>6. WorkerInv(w)' /\ ExecInv(w)' /\ Job(w)' = r /\ Cached(r)'
    BY <1>2, <2>2, <2>3, <2>5, NoneIsNothing
       DEF WorkerInv, ExecInv, JobAt, At, Job, Ready, Cached, ActiveStates
  <2>7. ReviewsGrow /\ LedgerInv'
    BY <1>2, ReviewsStay
  <2>8. QED
    BY <1>1, <1>2, <2>1, <2>2, <2>3, <2>4, <2>6, <2>7, ThreadKeepsInv
<1>5. QED
  BY <1>3, <1>4 DEF ResultFails

(* An append that raises leaves its run and its thread where a failure of  *)
(* the execution could have left them.                                     *)
LEMMA AppendFailsKeeps ==
  ASSUME IInv, NEW w \in Workers, AppendFails(w)
  PROVE  IInv'
<1>1. TypeOK /\ thread[w].pc \in {"taken", "prepared", "executed", "written", "failing"}
  BY DEF AppendFails, PendingEvent, IInv
<1>2. PICK r \in Runs : r = Job(w)
  BY <1>1, Busy DEF At
<1>3. /\ ~At(w, "idle") /\ RunInv(r) /\ Ready(r) /\ Cached(r) /\ view[r].state # "failed"
      /\ JobAt(thread[w].pc, r)
  BY <1>1, <1>2, Busy DEF At
<1> DEFINE s == PendingEvent[thread[w].pc]
           c == thread[w].code
<1>4. /\ UNCHANGED disk \/ TornEvent(r, s) \/ WriteEvent(r, s, c)
      /\ UNCHANGED <<view, latest, queue, phase, todo, requeued, ledger, published,
                     calls, crashes>>
  BY <1>2 DEF AppendFails, EventFails, index, pass, reviews
<1>5. /\ s \in {"preparing", "running", "finalizing", "completed", "failed"}
      /\ s \in RunStates /\ c \in Codes
      /\ s = "preparing" <=> thread[w].pc = "taken"
      /\ s = "running" <=> thread[w].pc = "prepared"
      /\ s = "completed" <=> thread[w].pc = "written"
  BY <1>1, ThreadFields DEF PendingEvent, RunStates, ActiveStates
<1>6. disk[r].state \in ActiveStates \cup {"queued", "completed"}
  BY <1>1, <1>3 DEF JobAt, ActiveStates
<1>7. Attempts(r, s) <= MaxRunAttempts
  <2>1. thread[w].pc = "taken" => disk[r].attempts < MaxRunAttempts
    BY <1>3 DEF JobAt, RunInv
  <2>2. QED
    BY <1>1, <1>3, <1>5, <2>1, AttemptsNat, PlagiarismConstants DEF RunInv
<1> HIDE DEF s, c
<1>8. /\ disk' \in [Runs -> DiskRecords]
      /\ \A q \in Runs : q # r => disk'[q] = disk[q]
      /\ disk'[r].stage = disk[r].stage /\ disk'[r].created = disk[r].created
      /\ disk'[r].result = disk[r].result /\ disk'[r].report = disk[r].report
      /\ \/ disk'[r] = disk[r]
         \/ /\ disk'[r].torn /\ disk'[r].attempts = Attempts(r, s)
            /\ disk'[r].state = disk[r].state
         \/ disk'[r].state = s /\ ~disk'[r].torn /\ disk'[r].attempts = Attempts(r, s)
  BY <1>1, <1>4, <1>5, TornFacts, WriteFacts DEF TypeOK
<1>9. /\ thread' \in [Workers -> Threads]
      /\ \A v \in Workers : v # w => thread'[v] = thread[v]
      /\ thread'[w].pc \in {"dead", "failing"} /\ thread'[w].run = r
      /\ thread'[w].pc = "failing" => thread[w].pc # "failing" /\ thread'[w].code # NoCode
  <2>1. CASE thread[w].pc = "failing"
    <3>1. Goto(w, "dead") /\ "dead" \in PcLabels
      BY <2>1 DEF AppendFails, At, PcLabels
    <3>2. QED
      BY <1>1, <1>2, <3>1, GotoFacts DEF Job
  <2>2. CASE thread[w].pc # "failing"
    <3>1. Raise(w, "PLAGIARISM_EXECUTION_FAILED")
      BY <2>2 DEF AppendFails, At
    <3>2. QED
      BY <1>1, <1>2, <2>2, <3>1, RaiseFacts, ExecutionFailedIsCode DEF Job
  <2>3. QED
    BY <2>1, <2>2
<1>10. faults' = faults + 1 /\ faults' \in Nat
  BY <1>1 DEF AppendFails, TypeOK
<1>11. TypeOK'
  BY <1>1, <1>4, <1>8, <1>9, <1>10 DEF TypeOK
<1>12. RunInv(r)'
  <2>1. disk[r].result = "good" \/ s # "completed"
    BY <1>3, <1>5 DEF JobAt
  <2>2. s \in {"preparing", "running"} => disk[r].result = "none"
    BY <1>3, <1>5 DEF JobAt, RunInv
  <2>3. disk'[r].result = "good" => Accounts(r, disk'[r].report)
    BY <1>3, <1>8 DEF RunInv
  <2>4. QED
    BY SMTT(30), <1>3, <1>4, <1>5, <1>6, <1>7, <1>8, <2>1, <2>2, <2>3
       DEF RunInv, Ready, Cached, ActiveStates, Accounts, Untold
<1>13. WorkerInv(w)' /\ ExecInv(w)' /\ Job(w)' = r
  <2>1. thread[w].pc # "failing" => disk'[r].state \in ActiveStates \cup {"queued", "completed"}
    BY <1>1, <1>5, <1>6, <1>8 DEF ActiveStates, PendingEvent, s
  <2>2. QED
    BY <1>3, <1>4, <1>8, <1>9, <2>1, NoneIsNothing
       DEF WorkerInv, ExecInv, JobAt, At, Job, Ready, Cached
<1>14. ReviewsGrow /\ LedgerInv'
  BY <1>4, ReviewsStay
<1>15. disk'[r].stage = "ready" /\ Cached(r)' /\ Cached(r)
  BY <1>3, <1>4, <1>8 DEF Ready, Cached
<1>16. QED
  BY <1>2, <1>3, <1>4, <1>8, <1>9, <1>10, <1>11, <1>12, <1>13, <1>14, <1>15, ThreadKeepsInv

(* The queue has no run twice: what is taken is no longer in it.           *)
LEMMA TakeKeeps ==
  ASSUME IInv, NEW w \in Workers, Take(w)
  PROVE  IInv'
<1> DEFINE r == Head(queue)
           t == [Idle EXCEPT !.pc = "taken", !.run = r]
<1>1. /\ TypeOK /\ At(w, "idle") /\ queue # <<>> /\ queue' = Tail(queue) /\ Set(w, t)
      /\ UNCHANGED <<disk, view, latest, phase, todo, requeued, ledger, published,
                     calls, crashes, faults>>
  BY DEF Take, IInv, index, pass, reviews, bounds
<1>2. queue \in Seq(Runs) /\ Len(queue) \in Nat \ {0}
  BY <1>1, EmptySeq, LenProperties DEF TypeOK
<1>3. /\ queue' \in Seq(Runs) /\ Len(queue') = Len(queue) - 1 /\ r = queue[1]
      /\ \A i \in 1..Len(queue') : queue'[i] = queue[i + 1]
  BY <1>1, <1>2, HeadTailProperties
<1>4. r \in Runs /\ 1 \in 1..Len(queue)
  BY <1>2, <1>3, ElementOfSeq
<1>5. t \in Threads /\ t.pc = "taken" /\ t.run = r /\ t.pos = 1 /\ t.reviewed = 0 /\ t.failed = 0
  <2>1. "taken" \in PcLabels /\ r \in Runs \cup {None}
    BY <1>4 DEF PcLabels
  <2>2. t \in Threads
    BY <2>1, IdleTyped DEF Threads
  <2>3. QED
    BY <2>2 DEF Idle
<1>6. Waiting(r) /\ \A i \in 1..Len(queue') : queue'[i] # r
  <2>1. \A i \in 1..Len(queue') : i + 1 \in 1..Len(queue) /\ i + 1 # 1
    BY <1>2, <1>3
  <2>2. QED
    BY <1>3, <1>4, <2>1 DEF IInv, QueueInv
<1> HIDE DEF t, r
<1>7. /\ thread' \in [Workers -> Threads] /\ thread'[w] = t
      /\ \A v \in Workers : v # w => thread'[v] = thread[v]
  BY <1>1, <1>5, SetFacts
<1>8. TypeOK'
  <2>1. Len(queue') <= MaxQueued
    BY <1>1, <1>2, <1>3, PlagiarismConstants DEF TypeOK
  <2>2. QED
    BY <1>1, <1>3, <1>7, <2>1 DEF TypeOK
<1>9. RunInv(r)
  BY <1>4 DEF IInv
<1>10. \A q \in Runs : RunInv(q)'
  BY <1>1, RunFrame DEF IInv
<1>11. ReviewsGrow /\ LedgerInv'
  BY <1>1, ReviewsStay
<1>12. ASSUME NEW v \in Workers PROVE WorkerInv(v)' /\ ExecInv(v)'
  <2>1. CASE v = w
    <3>1. view[r].state # "failed"
      BY <1>6, <1>9 DEF Waiting, RunInv
    <3>2. thread'[v].pc = "taken" /\ thread'[v].run = r /\ thread'[v].pos = 1
          /\ thread'[v].reviewed = 0 /\ thread'[v].failed = 0
      BY <1>5, <1>7, <2>1
    <3>3. WorkerInv(v)'
      BY <1>1, <1>4, <1>6, <3>1, <3>2, NoneIsNothing
         DEF WorkerInv, At, Job, JobAt, Ready, Cached, Waiting
    <3>4. ExecInv(v)'
      BY <3>2 DEF ExecInv
    <3>5. QED
      BY <3>3, <3>4
  <2>2. CASE v # w
    <3>1. WorkerInv(v)'
      BY <1>1, <1>7, <2>2, WorkerFrame DEF IInv
    <3>2. ExecInv(v)'
      BY <1>1, <1>7, <1>8, <1>11, <2>2, ExecFrame DEF IInv
    <3>3. QED
      BY <3>1, <3>2
  <2>3. QED
    BY <2>1, <2>2
<1>13. QueueInv'
  <2>1. \A i \in 1..Len(queue') : i + 1 \in 1..Len(queue)
    BY <1>2, <1>3
  <2>2. \A i \in 1..Len(queue') : Waiting(queue'[i])
    BY <1>3, <2>1 DEF IInv, QueueInv
  <2>3. \A i \in 1..Len(queue') : Waiting(queue[i])'
    BY <1>1, <2>2 DEF Waiting, Ready, Cached
  <2>4. \A i, j \in 1..Len(queue') : i # j => queue'[i] # queue'[j]
    <3>1. \A i, j \in 1..Len(queue') : i # j => i + 1 # j + 1
      OBVIOUS
    <3>2. QED
      BY <1>3, <2>1, <3>1 DEF IInv, QueueInv
  <2>5. \A i \in 1..Len(queue'), v \in Workers : thread'[v].run # queue'[i]
    BY <1>3, <1>5, <1>6, <1>7, <2>1 DEF IInv, QueueInv, Job
  <2>6. \A v \in Workers : thread[v].run # r
    BY <1>3, <1>4 DEF IInv, QueueInv, Job, r
  <2>7. \A u, v \in Workers : u # v /\ thread'[u].run # None => thread'[u].run # thread'[v].run
    BY <1>5, <1>7, <2>6 DEF IInv, QueueInv, Job
  <2>8. QED
    BY <2>3, <2>4, <2>5, <2>7 DEF QueueInv, Job
<1>14. IndexInv'
  BY <1>1, IndexStays DEF IInv
<1>15. PassInv'
  <2>1. phase \in {"reconcile", "serve"} /\ (\A x \in todo : phase = "reconcile" => Retried(x))
    BY DEF IInv, PassInv, Take, Up
  <2>2. \A q \in Runs : Indexed(q)'
    BY <1>1, <2>1, IndexedStays DEF IInv, PassInv, Cached
  <2>3. QED
    BY <1>1, <2>1, <2>2 DEF IInv, PassInv, Retried
<1>16. QED
  BY <1>8, <1>10, <1>11, <1>12, <1>13, <1>14, <1>15 DEF IInv

-----------------------------------------------------------------------------
(* Steps of an execution.                                                  *)

(* The key that an execution has come to.                                  *)
LEMMA KeyOfPosition ==
  ASSUME IInv, NEW w \in Workers, ~At(w, "idle"), thread[w].pos <= Len(Candidates[Job(w)])
  PROVE  Key(w) \in Keys /\ thread[w].pos \in 1..Len(Candidates[Job(w)])
<1>1. Candidates[Job(w)] \in Seq(Keys) /\ Len(Candidates[Job(w)]) \in Nat /\ TypeOK
  BY Busy
<1>2. thread[w].pos \in 1..Len(Candidates[Job(w)])
  BY <1>1, ThreadFields
<1>3. QED
  BY <1>1, <1>2, ElementOfSeq DEF Key

(* Going on by one candidate, at most this one is added to what is missing.*)
LEMMA NextMissing ==
  ASSUME NEW r \in Runs, NEW n \in Nat \ {0}, n <= Len(Candidates[r])
  PROVE  Cardinality(Missing(r, n + 1)) <= Cardinality(Missing(r, n)) + 1
<1>1. Len(Candidates[r]) \in Nat
  BY PlagiarismConstants, LenProperties
<1>2. IsFiniteSet(1..(n - 1)) /\ Missing(r, n) \subseteq 1..(n - 1)
  BY FS_Interval DEF Missing
<1>3. IsFiniteSet(Missing(r, n))
  BY <1>2, FS_Subset
<1>4. /\ IsFiniteSet(Missing(r, n) \cup {n})
      /\ Cardinality(Missing(r, n) \cup {n}) <= Cardinality(Missing(r, n)) + 1
      /\ Cardinality(Missing(r, n) \cup {n}) \in Nat /\ Cardinality(Missing(r, n)) \in Nat
  <2> DEFINE M == Missing(r, n)
  <2>1. IsFiniteSet(M)
    BY <1>3
  <2> HIDE DEF M
  <2>2. /\ IsFiniteSet(M \cup {n})
        /\ Cardinality(M \cup {n}) = IF n \in M THEN Cardinality(M) ELSE Cardinality(M) + 1
    BY <2>1, FS_AddElement
  <2>3. Cardinality(M) \in Nat /\ Cardinality(M \cup {n}) \in Nat
    BY <2>1, <2>2, FS_CardinalityType
  <2>4. Cardinality(M \cup {n}) <= Cardinality(M) + 1
    BY <2>2, <2>3
  <2>5. QED
    BY <2>2, <2>3, <2>4 DEF M
<1>5. Missing(r, n + 1) \subseteq Missing(r, n) \cup {n}
  BY DEF Missing
<1>6. /\ IsFiniteSet(Missing(r, n + 1)) /\ Cardinality(Missing(r, n + 1)) \in Nat
      /\ Cardinality(Missing(r, n + 1)) <= Cardinality(Missing(r, n) \cup {n})
  BY <1>4, <1>5, FS_Subset, FS_CardinalityType
<1>7. QED
  BY <1>4, <1>6

(* Going on, with one more candidate counted.                              *)
LEMMA NextCandidateFacts ==
  ASSUME TypeOK, NEW w \in Workers
  PROVE  LET t == thread[w]
             n == NextCandidate(t)
             x == [n EXCEPT !.failed = @ + 1]
             y == [n EXCEPT !.reviewed = @ + 1]
         IN  /\ x \in Threads /\ y \in Threads
             /\ x.pc = "next" /\ x.run = t.run /\ x.pos = t.pos + 1
             /\ x.reviewed = t.reviewed /\ x.failed = t.failed + 1
             /\ y.pc = "next" /\ y.run = t.run /\ y.pos = t.pos + 1
             /\ y.reviewed = t.reviewed + 1 /\ y.failed = t.failed
<1> DEFINE t == thread[w]
           n == NextCandidate(t)
<1>1. t \in Threads /\ t.pos \in Nat \ {0} /\ t.reviewed \in Nat /\ t.failed \in Nat
  BY ThreadFields
<1>2. "next" \in PcLabels /\ None \in Reviews \cup {None} /\ t.pos + 1 \in Nat \ {0}
  BY <1>1 DEF PcLabels
<1> HIDE DEF t
<1>3. n = [t EXCEPT !.pc = "next", !.pos = t.pos + 1, !.review = None]
  BY DEF NextCandidate
<1>4. /\ n \in Threads /\ n.pc = "next" /\ n.run = t.run /\ n.pos = t.pos + 1
      /\ n.reviewed = t.reviewed /\ n.failed = t.failed
  BY <1>1, <1>2, <1>3 DEF Threads
<1> HIDE DEF n
<1>5. n.failed + 1 \in Nat /\ n.reviewed + 1 \in Nat
  BY <1>1, <1>4
<1>6. /\ [n EXCEPT !.failed = n.failed + 1] \in Threads
      /\ [n EXCEPT !.reviewed = n.reviewed + 1] \in Threads
  BY <1>4, <1>5 DEF Threads
<1>7. QED
  BY <1>4, <1>6 DEF n, t, Threads

LEMMA LoadKeeps ==
  ASSUME IInv, NEW w \in Workers, Load(w)
  PROVE  IInv'
<1>1. /\ ~At(w, "idle") /\ At(w, "loading") /\ TypeOK /\ ExecInv(w)
      /\ UNCHANGED <<Outside, reviews, calls, crashes, faults>>
      /\ crashes' \in Nat /\ faults' \in Nat
  BY DEF Load, At, IInv, TypeOK, bounds
<1>2. PICK r \in Runs : r = Job(w)
  BY <1>1, Busy
<1>3. disk[r].state = "running" /\ Len(Candidates[r]) \in Nat
  BY <1>1, <1>2, Busy DEF JobAt, At
<1>4. CASE Goto(w, "next")
  <2>1. /\ thread' \in [Workers -> Threads]
        /\ \A v \in Workers : v # w => thread'[v] = thread[v]
        /\ thread'[w].pc = "next" /\ thread'[w].run = r
        /\ thread'[w].pos = 1 /\ thread'[w].reviewed = 0 /\ thread'[w].failed = 0
    BY <1>1, <1>2, <1>4, GotoFacts DEF PcLabels, ExecInv, At, Job
  <2>2. TypeOK'
    BY <1>1, <2>1 DEF TypeOK, Outside, index, pass, reviews
  <2>3. {i \in 1..(1 - 1) : published'[Candidates[r][i]] = {}} = {} /\ Cardinality({}) = 0
    BY FS_EmptySet
  <2>4. ExecInv(w)'
    <3>1. Cardinality(Missing(thread[w].run, thread[w].pos)') <= thread'[w].failed
      BY <1>1, <1>2, <2>1, <2>3 DEF Missing, Job, ExecInv, At
    <3>2. Cardinality({i \in 1..(thread'[w].pos - 1) :
                         published'[Candidates[thread'[w].run][i]] = {}}) <= thread'[w].failed
      BY <2>1, <2>3
    <3>3. QED
      BY <1>3, <2>1, <3>2 DEF ExecInv, Missing
  <2>5. ReviewsGrow /\ LedgerInv'
    BY <1>1, ReviewsStay DEF reviews
  <2>6. JobAt(thread'[w].pc, r)
    BY <1>3, <2>1 DEF JobAt
  <2>7. UNCHANGED Outside
    BY <1>1
  <2>8. QED
    BY <1>1, <1>2, <2>1, <2>2, <2>4, <2>5, <2>6, <2>7, LocalStepKeepsInv
<1>5. CASE \E c \in ExecutorFailures : Raise(w, c)
  <2>1. PICK c \in ExecutorFailures : Raise(w, c)
    BY <1>5
  <2>2. c \in Codes /\ c # NoCode
    BY PlagiarismConstants DEF Codes, NoCode
  <2>3. disk[Job(w)].state \in ActiveStates
    BY <1>2, <1>3 DEF ActiveStates
  <2>4. QED
    BY <1>1, <2>1, <2>2, <2>3, RaiseKeeps
<1>6. QED
  BY <1>4, <1>5 DEF Load

LEMMA LookupKeeps ==
  ASSUME IInv, NEW w \in Workers, Lookup(w)
  PROVE  IInv'
<1>1. /\ ~At(w, "idle") /\ At(w, "next") /\ TypeOK /\ ExecInv(w)
      /\ UNCHANGED <<Outside, ledger, published, calls, crashes, faults>>
  BY DEF Lookup, At, IInv, bounds, reviews
<1>2. PICK r \in Runs : r = Job(w)
  BY <1>1, Busy
<1>3. /\ disk[r].state = "running" /\ Candidates[r] \in Seq(Keys)
      /\ Len(Candidates[r]) \in Nat
  BY <1>1, <1>2, Busy DEF JobAt, At
<1>4. thread[w].pos <= Len(Candidates[r])
  BY <1>2, <1>3, LenProperties DEF Lookup
<1>5. Key(w) \in Keys
  BY <1>1, <1>2, <1>4, KeyOfPosition
<1> DEFINE t == thread'[w]
<1>6. /\ thread' \in [Workers -> Threads]
      /\ \A v \in Workers : v # w => thread'[v] = thread[v]
      /\ t.run = r /\ t.pos = thread[w].pos
      /\ t.reviewed = thread[w].reviewed /\ t.failed = thread[w].failed
      /\ \/ t.pc = "asking"
         \/ t.pc = "publish" /\ t.review = ledger[Key(w)] /\ ledger[Key(w)] # None
  <2>1. CASE ledger[Key(w)] = None
    <3>1. Goto(w, "asking") /\ "asking" \in PcLabels
      BY <2>1 DEF Lookup, PcLabels
    <3>2. QED
      BY <1>1, <1>2, <3>1, GotoFacts DEF Job
  <2>2. CASE ledger[Key(w)] # None
    <3> DEFINE x == [thread[w] EXCEPT !.pc = "publish", !.review = ledger[Key(w)]]
    <3>1. Set(w, x)
      BY <2>2 DEF Lookup
    <3>2. thread[w] \in Threads /\ "publish" \in PcLabels /\ ledger[Key(w)] \in Reviews
      BY <1>1, <1>5, <2>2, ThreadFields DEF PcLabels, TypeOK
    <3>3. /\ x \in Threads /\ x.pc = "publish" /\ x.run = thread[w].run
          /\ x.pos = thread[w].pos /\ x.reviewed = thread[w].reviewed
          /\ x.failed = thread[w].failed /\ x.review = ledger[Key(w)]
      BY <3>2 DEF Threads
    <3> HIDE DEF x
    <3>4. QED
      BY <1>1, <1>2, <2>2, <3>1, <3>3, SetFacts DEF Job
  <2>3. QED
    BY <2>1, <2>2
<1>7. TypeOK'
  BY <1>1, <1>6 DEF TypeOK, Outside, index, pass
<1>8. Key(w)' = Key(w)
  BY <1>2, <1>6 DEF Key, Job
<1>9. t.pc = "publish" => t.review \in Reviews /\ t.review.at <= calls
  BY <1>1, <1>5, <1>6 DEF TypeOK, IInv, LedgerInv
<1>10. ExecInv(w)'
  <2>1. /\ thread[w].pos <= Len(Candidates[r]) + 1
        /\ thread[w].reviewed + thread[w].failed = thread[w].pos - 1
        /\ Cardinality(Missing(r, thread[w].pos)) <= thread[w].failed
    BY <1>1, <1>2 DEF ExecInv, At, Job
  <2>2. Missing(r, thread[w].pos) = {i \in 1..(t.pos - 1) : published'[Candidates[t.run][i]] = {}}
    BY <1>1, <1>6 DEF Missing
  <2>3. Cardinality({i \in 1..(t.pos - 1) : published'[Candidates[t.run][i]] = {}}) <= t.failed
    BY <1>6, <2>1, <2>2
  <2>4. QED
    BY <1>1, <1>4, <1>6, <1>8, <1>9, <2>1, <2>3 DEF ExecInv, Missing
<1>11. ReviewsGrow /\ LedgerInv'
  BY <1>1, ReviewsStay
<1>12. t.run = r /\ t.pc # "idle" /\ JobAt(t.pc, r)
  BY <1>3, <1>6 DEF JobAt
<1>13. UNCHANGED Outside
  BY <1>1
<1>14. QED
  BY <1>1, <1>2, <1>6, <1>7, <1>10, <1>11, <1>12, <1>13, LocalStepKeepsInv

(* The answer is newer than all reviews; only a conclusive one is kept.    *)
LEMMA AnswerKeeps ==
  ASSUME IInv, NEW w \in Workers, Answer(w)
  PROVE  IInv'
<1>1. /\ ~At(w, "idle") /\ At(w, "asking") /\ TypeOK /\ ExecInv(w) /\ calls' = calls + 1
      /\ UNCHANGED <<Outside, ledger, published, crashes, faults>>
  BY DEF Answer, At, IInv, reviews
<1>2. PICK r \in Runs : r = Job(w)
  BY <1>1, Busy
<1>3. disk[r].state = "running" /\ Len(Candidates[r]) \in Nat
  BY <1>1, <1>2, Busy DEF JobAt, At
<1>4. PICK a \in [conclusive : BOOLEAN, text : Texts, at : {calls'}] :
        Set(w, [thread[w] EXCEPT !.pc = AfterAnswer(a), !.review = a])
  BY DEF Answer
<1>5. calls \in Nat /\ calls' \in Nat /\ a.at = calls' /\ a.conclusive \in BOOLEAN /\ a \in Reviews
  BY <1>1 DEF TypeOK, Reviews
<1> DEFINE x == [thread[w] EXCEPT !.pc = AfterAnswer(a), !.review = a]
<1>6. /\ x \in Threads /\ x.pc = AfterAnswer(a) /\ x.run = thread[w].run
      /\ x.pos = thread[w].pos /\ x.reviewed = thread[w].reviewed
      /\ x.failed = thread[w].failed /\ x.review = a
  <2>1. AfterAnswer(a) \in PcLabels
    BY DEF AfterAnswer, PcLabels
  <2>2. thread[w] \in Threads
    BY <1>1, ThreadFields
  <2>3. QED
    BY <1>5, <2>1, <2>2 DEF Threads
<1> HIDE DEF x
<1> DEFINE t == thread'[w]
<1>7. /\ thread' \in [Workers -> Threads] /\ t = x
      /\ \A v \in Workers : v # w => thread'[v] = thread[v]
  BY <1>1, <1>4, <1>6, SetFacts DEF x
<1>8. TypeOK'
  BY <1>1, <1>5, <1>7 DEF TypeOK, Outside, index, pass
<1>9. /\ t.pc \in {"record", "publish"} /\ (t.pc = "record" <=> a.conclusive)
      /\ t.run = r /\ t.pos = thread[w].pos /\ t.reviewed = thread[w].reviewed
      /\ t.failed = thread[w].failed /\ t.review = a
  BY <1>2, <1>6, <1>7 DEF AfterAnswer, Job
<1>10. ExecInv(w)'
  <2>1. /\ thread[w].pos <= Len(Candidates[r])
        /\ thread[w].pos <= Len(Candidates[r]) + 1
        /\ thread[w].reviewed + thread[w].failed = thread[w].pos - 1
        /\ Cardinality(Missing(r, thread[w].pos)) <= thread[w].failed
    BY <1>1, <1>2 DEF ExecInv, At, Job
  <2>2. Missing(r, thread[w].pos) = {i \in 1..(t.pos - 1) : published'[Candidates[t.run][i]] = {}}
    BY <1>1, <1>9 DEF Missing
  <2>3. Cardinality({i \in 1..(t.pos - 1) : published'[Candidates[t.run][i]] = {}}) <= t.failed
    BY <1>9, <2>1, <2>2
  <2>4. QED
    BY <1>5, <1>9, <2>1, <2>3 DEF ExecInv, Missing
<1>11. ReviewsGrow
  BY <1>1, <1>5 DEF ReviewsGrow
<1>12. LedgerInv'
  <2>1. \A k \in Keys : (ledger[k] # None => ledger[k].at \in Nat)
                        /\ \A v \in published[k] : v.at \in Nat
    BY <1>1 DEF TypeOK, Reviews
  <2>2. QED
    BY <1>1, <1>5, <2>1 DEF IInv, LedgerInv
<1>13. t.run = r /\ t.pc # "idle" /\ JobAt(t.pc, r)
  BY <1>3, <1>9 DEF JobAt
<1>14. UNCHANGED Outside
  BY <1>1
<1>15. QED
  BY <1>1, <1>2, <1>7, <1>8, <1>10, <1>11, <1>12, <1>13, <1>14, LocalStepKeepsInv

LEMMA ReviewFailsKeeps ==
  ASSUME IInv, NEW w \in Workers, ReviewFails(w)
  PROVE  IInv'
<1>1. /\ ~At(w, "idle") /\ At(w, "asking") /\ TypeOK /\ ExecInv(w)
      /\ UNCHANGED <<Outside, ledger, published, calls, crashes, faults>>
  BY DEF ReviewFails, At, IInv, reviews, bounds
<1>2. PICK r \in Runs : r = Job(w)
  BY <1>1, Busy
<1>3. disk[r].state = "running" /\ Len(Candidates[r]) \in Nat
  BY <1>1, <1>2, Busy DEF JobAt, At
<1> DEFINE x == [NextCandidate(thread[w]) EXCEPT !.failed = @ + 1]
           n == thread[w].pos
<1>4. /\ x \in Threads /\ x.pc = "next" /\ x.run = thread[w].run
      /\ x.pos = n + 1 /\ x.reviewed = thread[w].reviewed
      /\ x.failed = thread[w].failed + 1
  BY <1>1, NextCandidateFacts
<1>5. Set(w, x)
  BY DEF ReviewFails
<1> HIDE DEF x
<1> DEFINE t == thread'[w]
<1>6. /\ thread' \in [Workers -> Threads] /\ t = x
      /\ \A v \in Workers : v # w => thread'[v] = thread[v]
  BY <1>1, <1>4, <1>5, SetFacts
<1>7. TypeOK'
  BY <1>1, <1>6 DEF TypeOK, Outside, index, pass
<1>8. ExecInv(w)'
  <2>1. /\ n <= Len(Candidates[r])
        /\ thread[w].reviewed + thread[w].failed = n - 1
        /\ Cardinality(Missing(r, n)) <= thread[w].failed
    BY <1>1, <1>2 DEF ExecInv, At, Job
  <2>2. n \in Nat \ {0} /\ thread[w].reviewed \in Nat /\ thread[w].failed \in Nat
    BY <1>1, ThreadFields
  <2>3. /\ Cardinality(Missing(r, n + 1)) <= Cardinality(Missing(r, n)) + 1
        /\ Cardinality(Missing(r, n)) \in Nat
    BY <1>1, <1>3, <2>1, <2>2, NextMissing, MissingShrinks
  <2>4. Cardinality(Missing(r, n + 1)) \in Nat
    BY <1>1, <1>3, <2>1, <2>2, MissingShrinks
  <2>5. Cardinality(Missing(r, n + 1)) <= thread[w].failed + 1
    BY <2>1, <2>2, <2>3, <2>4
  <2>6. t.pc = "next" /\ t.run = r /\ t.pos = n + 1 /\ t.reviewed = thread[w].reviewed
        /\ t.failed = thread[w].failed + 1
    BY <1>2, <1>4, <1>6 DEF Job
  <2>7. Missing(r, n + 1) = {i \in 1..(t.pos - 1) : published'[Candidates[t.run][i]] = {}}
    BY <1>1, <2>6 DEF Missing
  <2>8. Cardinality({i \in 1..(t.pos - 1) : published'[Candidates[t.run][i]] = {}}) <= t.failed
    BY <2>5, <2>6, <2>7
  <2>9. t.pos <= Len(Candidates[t.run]) + 1 /\ t.reviewed + t.failed = t.pos - 1
    <3> HIDE DEF n, t
    <3>1. n + 1 <= Len(Candidates[r]) + 1
      BY <1>3, <2>1, <2>2
    <3>2. thread[w].reviewed + (thread[w].failed + 1) = (n + 1) - 1
      BY <2>1, <2>2
    <3>3. QED
      BY <2>6, <3>1, <3>2
  <2>10. QED
    BY <2>6, <2>8, <2>9 DEF ExecInv, Missing
<1>9. ReviewsGrow /\ LedgerInv'
  BY <1>1, ReviewsStay
<1>10. t.run = r /\ t.pc # "idle" /\ JobAt(t.pc, r)
  BY <1>2, <1>3, <1>4, <1>6 DEF JobAt, Job
<1>11. UNCHANGED Outside
  BY <1>1
<1>12. QED
  BY <1>1, <1>2, <1>6, <1>7, <1>8, <1>9, <1>10, <1>11, LocalStepKeepsInv

(* A verdict is recorded where there is none; what has been published of   *)
(* the key is not conclusive then.                                         *)
LEMMA RecordKeeps ==
  ASSUME IInv, NEW w \in Workers, Record(w)
  PROVE  IInv'
<1>1. /\ ~At(w, "idle") /\ At(w, "record") /\ TypeOK /\ ExecInv(w)
      /\ UNCHANGED <<Outside, published, calls, crashes, faults>>
  BY DEF Record, At, IInv, bounds
<1>2. PICK r \in Runs : r = Job(w)
  BY <1>1, Busy
<1>3. disk[r].state = "running" /\ Len(Candidates[r]) \in Nat
  BY <1>1, <1>2, Busy DEF JobAt, At
<1> DEFINE k == Key(w)
           a == thread[w].review
<1>4. /\ thread[w].pos <= Len(Candidates[r]) /\ a \in Reviews /\ a.conclusive /\ a.at <= calls
  BY <1>1, <1>2 DEF ExecInv, At, Job
<1>5. k \in Keys
  BY <1>1, <1>2, <1>4, KeyOfPosition
<1>6. CASE MayRecord(k, a)
  <2>1. ledger' = [ledger EXCEPT ![k] = a] /\ Goto(w, "publish") /\ "publish" \in PcLabels
    BY <1>6 DEF Record, PcLabels
  <2> DEFINE t == thread'[w]
  <2>2. /\ thread' \in [Workers -> Threads]
        /\ \A v \in Workers : v # w => thread'[v] = thread[v]
        /\ t.pc = "publish" /\ t.run = r /\ t.pos = thread[w].pos
        /\ t.reviewed = thread[w].reviewed /\ t.failed = thread[w].failed /\ t.review = a
    BY <1>1, <1>2, <2>1, GotoFacts DEF Job
  <2>3. ledger[k] = None \/ ledger[k] = a
    BY <1>6 DEF MayRecord
  <2> HIDE DEF k, a
  <2>4. /\ ledger'[k] = a /\ \A x \in Keys : x # k => ledger'[x] = ledger[x]
        /\ ledger' \in [Keys -> {v \in Reviews : v.conclusive} \cup {None}]
    BY <1>1, <1>4, <1>5, <2>1 DEF TypeOK
  <2>5. TypeOK'
    BY <1>1, <2>2, <2>4 DEF TypeOK, Outside, index, pass
  <2>6. ReviewsGrow
    BY <1>1, <2>3, <2>4 DEF ReviewsGrow, TypeOK
  <2>7. LedgerInv'
    <3>1. \A v \in published[k] : ~v.conclusive \/ ledger[k] = v
      BY <1>5 DEF IInv, LedgerInv
    <3>2. published[k] \subseteq Reviews
      BY <1>1, <1>5 DEF TypeOK
    <3>3. \A v \in published[k] : v.at <= calls /\ (v.conclusive => v = a)
      BY <1>5, <2>3, <3>1, <3>2, NoneIsNothing DEF IInv, LedgerInv
    <3>4. QED
      BY <1>1, <1>4, <2>4, <3>3 DEF IInv, LedgerInv
  <2>8. Key(w)' = k
    BY <1>2, <2>2 DEF Key, Job, k
  <2>9. ExecInv(w)'
    <3>1. /\ thread[w].reviewed + thread[w].failed = thread[w].pos - 1
          /\ thread[w].pos <= Len(Candidates[r]) + 1
          /\ Cardinality(Missing(r, thread[w].pos)) <= thread[w].failed
      BY <1>1, <1>2 DEF ExecInv, At, Job
    <3>2. Missing(r, thread[w].pos) = {i \in 1..(t.pos - 1) : published'[Candidates[t.run][i]] = {}}
      BY <1>1, <2>2 DEF Missing
    <3>3. Cardinality({i \in 1..(t.pos - 1) : published'[Candidates[t.run][i]] = {}}) <= t.failed
      BY <2>2, <3>1, <3>2
    <3>4. QED
      BY <1>1, <1>4, <2>2, <2>4, <2>8, <3>1, <3>3 DEF ExecInv, Missing
  <2>10. t.run = r /\ t.pc # "idle" /\ JobAt(t.pc, r)
    BY <1>3, <2>2 DEF JobAt
  <2>11. UNCHANGED Outside
    BY <1>1
  <2>12. QED
    BY <1>1, <1>2, <2>2, <2>5, <2>6, <2>7, <2>9, <2>10, <2>11, LocalStepKeepsInv
<1>7. CASE ~MayRecord(k, a)
  <2>1. Raise(w, "PLAGIARISM_EXECUTION_FAILED") /\ UNCHANGED <<Outside, reviews, calls>>
    BY <1>1, <1>7 DEF Record, reviews
  <2>2. crashes' \in Nat /\ faults' \in Nat /\ disk[Job(w)].state \in ActiveStates
    BY <1>1, <1>2, <1>3 DEF TypeOK, ActiveStates
  <2>3. QED
    BY <1>1, <2>1, <2>2, RaiseKeeps, ExecutionFailedIsCode
<1>8. QED
  BY <1>6, <1>7

(* Whatever is published, the candidate no longer misses its review.       *)
LEMMA PublishKeeps ==
  ASSUME IInv, NEW w \in Workers, Publish(w)
  PROVE  IInv'
<1>1. /\ ~At(w, "idle") /\ At(w, "publish") /\ TypeOK /\ ExecInv(w)
      /\ UNCHANGED <<Outside, ledger, calls, crashes, faults>>
  BY DEF Publish, At, IInv, bounds
<1>2. PICK r \in Runs : r = Job(w)
  BY <1>1, Busy
<1>3. /\ disk[r].state = "running" /\ Len(Candidates[r]) \in Nat
      /\ Candidates[r] \in Seq(Keys)
  BY <1>1, <1>2, Busy DEF JobAt, At
<1> DEFINE k == Key(w)
           a == thread[w].review
           n == thread[w].pos
<1>4. /\ n <= Len(Candidates[r]) /\ a \in Reviews /\ a.at <= calls
      /\ a.conclusive => ledger[k] = a
  BY <1>1, <1>2 DEF ExecInv, At, Job
<1>5. k \in Keys /\ n \in 1..Len(Candidates[r]) /\ k = Candidates[r][n]
  BY <1>1, <1>2, <1>4, KeyOfPosition DEF Key
<1>6. CASE \A u \in published[k] : SameName(u, a) => u = a
  <2> DEFINE x == [NextCandidate(thread[w]) EXCEPT !.reviewed = @ + 1]
             t == thread'[w]
  <2>1. published' = [published EXCEPT ![k] = @ \cup {a}] /\ Set(w, x)
    BY <1>6 DEF Publish
  <2>2. /\ x \in Threads /\ x.pc = "next" /\ x.run = thread[w].run
        /\ x.pos = n + 1 /\ x.reviewed = thread[w].reviewed + 1
        /\ x.failed = thread[w].failed
    BY <1>1, NextCandidateFacts
  <2> HIDE DEF x
  <2>3. /\ thread' \in [Workers -> Threads]
        /\ \A v \in Workers : v # w => thread'[v] = thread[v]
        /\ t.pc = "next" /\ t.run = r /\ t.pos = n + 1
        /\ t.reviewed = thread[w].reviewed + 1 /\ t.failed = thread[w].failed
    BY <1>1, <1>2, <2>1, <2>2, SetFacts DEF Job
  <2>4. /\ published'[k] = published[k] \cup {a}
        /\ \A y \in Keys : y # k => published'[y] = published[y]
        /\ published' \in [Keys -> SUBSET Reviews]
    BY <1>1, <1>4, <1>5, <2>1 DEF TypeOK
  <2>5. TypeOK'
    BY <1>1, <2>3, <2>4 DEF TypeOK, Outside, index, pass
  <2>6. ReviewsGrow
    BY <1>1, <2>4 DEF ReviewsGrow, TypeOK
  <2>7. LedgerInv'
    BY <1>1, <1>4, <2>4 DEF IInv, LedgerInv
  <2>8. ExecInv(w)'
    <3>1. /\ thread[w].reviewed + thread[w].failed = n - 1
          /\ Cardinality(Missing(r, n)) <= thread[w].failed
      BY <1>1, <1>2 DEF ExecInv, At, Job
    <3>2. thread[w].reviewed \in Nat /\ thread[w].failed \in Nat /\ n \in Nat \ {0}
      BY <1>1, ThreadFields
    <3> HIDE DEF n
    <3> DEFINE M == {i \in 1..((n + 1) - 1) : published'[Candidates[r][i]] = {}}
    <3>3. M \subseteq Missing(r, n)
      <4>1. \A i \in 1..n : i # n => i \in 1..(n - 1)
        BY <3>2
      <4>2. \A i \in 1..n : Candidates[r][i] \in Keys
        BY <1>3, <1>5, <3>2, ElementOfSeq
      <4>3. published'[Candidates[r][n]] # {}
        BY <1>5, <2>4
      <4>4. \A i \in 1..n : published'[Candidates[r][i]] = {} => published[Candidates[r][i]] = {}
        BY <4>2, <2>6 DEF ReviewsGrow
      <4>5. (n + 1) - 1 = n
        BY <3>2
      <4>6. QED
        BY <4>1, <4>3, <4>4, <4>5 DEF Missing
    <3>4. IsFiniteSet(Missing(r, n)) /\ Cardinality(Missing(r, n)) \in Nat
      <4>1. n <= Len(Candidates[r]) + 1
        BY <1>3, <1>4, <3>2
      <4>2. QED
        BY <2>6, <3>2, <4>1, MissingShrinks DEF ReviewsGrow
    <3>5. IsFiniteSet(M) /\ Cardinality(M) <= Cardinality(Missing(r, n)) /\ Cardinality(M) \in Nat
      BY <3>3, <3>4, FS_Subset, FS_CardinalityType
    <3>6. Cardinality(M) <= thread[w].failed
      BY <3>1, <3>2, <3>4, <3>5
    <3> HIDE DEF t
    <3>7. Cardinality({i \in 1..(t.pos - 1) : published'[Candidates[t.run][i]] = {}}) <= t.failed
      BY <2>3, <3>6
    <3>8. t.pos <= Len(Candidates[t.run]) + 1 /\ t.reviewed + t.failed = t.pos - 1
      <4>1. n + 1 <= Len(Candidates[r]) + 1
        BY <1>3, <1>4, <3>2
      <4>2. (thread[w].reviewed + 1) + thread[w].failed = (n + 1) - 1
        BY <3>1, <3>2
      <4>3. QED
        BY <2>3, <4>1, <4>2
    <3>9. QED
      BY <2>3, <3>7, <3>8 DEF ExecInv, Missing, t
  <2>9. t.run = r /\ t.pc # "idle" /\ JobAt(t.pc, r)
    BY <1>3, <2>3 DEF JobAt
  <2>10. UNCHANGED Outside
    BY <1>1
  <2>11. QED
    BY <1>1, <1>2, <2>3, <2>5, <2>6, <2>7, <2>8, <2>9, <2>10, LocalStepKeepsInv
<1>7. CASE ~\A u \in published[k] : SameName(u, a) => u = a
  <2>1. Raise(w, "PLAGIARISM_EXECUTION_FAILED") /\ UNCHANGED <<Outside, reviews, calls>>
    BY <1>1, <1>7 DEF Publish, reviews
  <2>2. crashes' \in Nat /\ faults' \in Nat /\ disk[Job(w)].state \in ActiveStates
    BY <1>1, <1>2, <1>3 DEF TypeOK, ActiveStates
  <2>3. QED
    BY <1>1, <2>1, <2>2, RaiseKeeps, ExecutionFailedIsCode
<1>8. QED
  BY <1>6, <1>7

-----------------------------------------------------------------------------
(* The report of an execution.                                             *)

(* A set of numbers up to N has a largest element.                         *)
LEMMA MaxExists ==
  ASSUME NEW N \in Nat, NEW S, S \subseteq 0..N, S # {}
  PROVE  \E m \in S : \A q \in S : q <= m
<1> DEFINE T == {N - m : m \in S}
<1>1. T \subseteq Nat /\ T # {}
  <2>1. PICK a \in S : TRUE
    OBVIOUS
  <2>2. N - a \in T
    BY <2>1
  <2>3. \A m \in S : m \in 0..N /\ N - m \in Nat
    OBVIOUS
  <2>4. QED
    BY <2>2, <2>3
<1>2. PICK x \in T : \A y \in T : ~ (<<y, x>> \in OpToRel(<, Nat))
  <2>1. IsWellFoundedOn(OpToRel(<, Nat), Nat)
    BY NatLessThanWellFounded
  <2>2. QED
    BY <1>1, <2>1, WFMin
<1>3. \A y \in T : ~(y < x)
  BY <1>1, <1>2 DEF OpToRel
<1>4. PICK m \in S : x = N - m
  BY <1>2
<1>5. \A q \in S : ~(N - q < N - m)
  BY <1>3, <1>4
<1>6. QED
  BY <1>4, <1>5

(* What the index of published reviews knows about a submission.           *)
About(s) ==
  UNION {[key : {k}, review : published[k]] : k \in {x \in Keys : s \in PairOf[x]}}

LEMMA AboutFacts ==
  ASSUME TypeOK, NEW s
  PROVE  /\ About(s) \subseteq [key : Keys, review : Reviews]
         /\ Items(s) \subseteq About(s)
         /\ \A x \in About(s) : x.key \in Keys /\ x.review \in published[x.key]
         /\ \A k \in Keys : \A v \in published[k] :
              s \in PairOf[k] => [key |-> k, review |-> v] \in About(s)
BY DEF About, Items, TypeOK

(* Each pair of the submission that has a review is told of: its reviews   *)
(* have a newest one, for no review is newer than the last answer.         *)
LEMMA ReviewedIsTold ==
  ASSUME TypeOK, LedgerInv, NEW s, NEW k \in Keys, s \in PairOf[k], published[k] # {}
  PROVE  \E x \in Items(s) : PairOf[x.key] = PairOf[k]
<1> DEFINE S == {x \in About(s) : PairOf[x.key] = PairOf[k]}
           N == {x.review.at : x \in S}
<1>1. \A x \in About(s) : x.review.at \in 0..calls
  <2>1. calls \in Nat /\ \A q \in Keys : published[q] \subseteq Reviews
    BY DEF TypeOK
  <2>2. QED
    BY <2>1, AboutFacts DEF LedgerInv, Reviews
<1>2. S # {}
  <2>1. PICK v \in published[k] : TRUE
    OBVIOUS
  <2>2. [key |-> k, review |-> v] \in About(s)
    BY AboutFacts
  <2>3. [key |-> k, review |-> v] \in S
    BY <2>2
  <2>4. QED
    BY <2>3
<1>3. N \subseteq 0..calls /\ N # {}
  BY <1>1, <1>2
<1>4. PICK m \in N : \A q \in N : q <= m
  BY <1>3, MaxExists DEF TypeOK
<1>5. PICK x \in S : x.review.at = m
  BY <1>4
<1>6. \A y \in About(s) : PairOf[y.key] = PairOf[x.key] => y.review.at <= x.review.at
  BY <1>4, <1>5
<1>7. x \in Items(s)
  BY <1>5, <1>6 DEF Items, About
<1>8. QED
  BY <1>5, <1>7

LEMMA ReturnKeeps ==
  ASSUME IInv, NEW w \in Workers, Return(w)
  PROVE  IInv'
<1>1. /\ ~At(w, "idle") /\ At(w, "next") /\ TypeOK /\ ExecInv(w) /\ LedgerInv
      /\ UNCHANGED <<Outside, ledger, published, calls, crashes, faults>>
  BY DEF Return, At, IInv, bounds, reviews
<1>2. PICK r \in Runs : r = Job(w)
  BY <1>1, Busy
<1>3. /\ disk[r].state = "running" /\ Len(Candidates[r]) \in Nat
      /\ Candidates[r] \in Seq(Keys)
  BY <1>1, <1>2, Busy DEF JobAt, At
<1> DEFINE told == [reviewed |-> thread[w].reviewed, failed |-> thread[w].failed,
                    items |-> Items(Target[r])]
           x == [thread[w] EXCEPT !.pc = "executed", !.report = told]
           t == thread'[w]
<1>4. Set(w, x)
  BY <1>2 DEF Return
<1>5. /\ thread[w].pos = Len(Candidates[r]) + 1
      /\ thread[w].reviewed + thread[w].failed = Len(Candidates[r])
      /\ Cardinality(Missing(r, thread[w].pos)) <= thread[w].failed
  <2>1. /\ thread[w].pos <= Len(Candidates[r]) + 1 /\ thread[w].pos > Len(Candidates[r])
        /\ thread[w].reviewed + thread[w].failed = thread[w].pos - 1
        /\ Cardinality(Missing(r, thread[w].pos)) <= thread[w].failed
    BY <1>1, <1>2 DEF ExecInv, At, Job, Return
  <2>2. thread[w].pos \in Nat /\ thread[w].reviewed \in Nat /\ thread[w].failed \in Nat
    BY <1>1, ThreadFields
  <2>3. QED
    BY <1>3, <2>1, <2>2
<1>6. told \in Reports
  <2>1. thread[w].reviewed \in Nat /\ thread[w].failed \in Nat
    BY <1>1, ThreadFields
  <2>2. Items(Target[r]) \in SUBSET [key : Keys, review : Reviews]
    BY <1>1, AboutFacts
  <2>3. QED
    BY <2>1, <2>2 DEF Reports
<1>7. Accounts(r, told)
  <2>1. Untold(r, told) \subseteq Missing(r, thread[w].pos)
    <3> SUFFICES ASSUME NEW i \in DOMAIN Candidates[r], published[Candidates[r][i]] # {}
                 PROVE  \E y \in Items(Target[r]) : PairOf[y.key] = PairOf[Candidates[r][i]]
      <4>1. DOMAIN Candidates[r] = 1..(thread[w].pos - 1)
        BY <1>3, <1>5, LenProperties
      <4>2. QED
        BY <4>1 DEF Untold, Missing
    <3>1. Candidates[r][i] \in Keys /\ Target[r] \in PairOf[Candidates[r][i]]
      BY <1>3, PlagiarismConstants
    <3>2. QED
      BY <1>1, <3>1, ReviewedIsTold
  <2>2. IsFiniteSet(Missing(r, thread[w].pos)) /\ Cardinality(Missing(r, thread[w].pos)) \in Nat
    BY <1>1, <1>3, <1>5, MissingShrinks, ThreadFields
  <2>3. Cardinality(Untold(r, told)) <= Cardinality(Missing(r, thread[w].pos))
        /\ Cardinality(Untold(r, told)) \in Nat
    BY <2>1, <2>2, FS_Subset, FS_CardinalityType
  <2>4. Cardinality(Untold(r, told)) <= thread[w].failed
    BY <1>1, <1>5, <2>2, <2>3, ThreadFields
  <2>5. QED
    BY <1>5, <2>4 DEF Accounts
<1> HIDE DEF told
<1>8. x \in Threads /\ x.pc = "executed" /\ x.run = thread[w].run /\ x.report = told
  <2>1. thread[w] \in Threads /\ "executed" \in PcLabels
    BY <1>1, ThreadFields DEF PcLabels
  <2>2. QED
    BY <1>6, <2>1 DEF Threads
<1> HIDE DEF x
<1>9. /\ thread' \in [Workers -> Threads]
      /\ \A v \in Workers : v # w => thread'[v] = thread[v]
      /\ t.pc = "executed" /\ t.run = r /\ t.report = told
  BY <1>1, <1>2, <1>4, <1>8, SetFacts DEF Job
<1>10. TypeOK'
  BY <1>1, <1>9 DEF TypeOK, Outside, index, pass
<1>11. ExecInv(w)'
  <2>1. Accounts(thread'[w].run, thread'[w].report)
    BY <1>7, <1>9
  <2>2. QED
    BY <1>9, <2>1 DEF ExecInv, Accounts, Untold
<1>12. ReviewsGrow /\ LedgerInv'
  BY <1>1, ReviewsStay
<1>13. t.run = r /\ t.pc # "idle" /\ JobAt(t.pc, r)
  BY <1>3, <1>9 DEF JobAt
<1>14. UNCHANGED Outside
  BY <1>1
<1>15. QED
  BY <1>1, <1>2, <1>9, <1>10, <1>11, <1>12, <1>13, <1>14, LocalStepKeepsInv

-----------------------------------------------------------------------------
(* The index after new runs have been read.                                *)

LEMMA NewerIsTransitive ==
  ASSUME NEW dirs, NEW p \in Runs, NEW q \in Runs, NEW r \in Runs,
         dirs[p].created \in Nat, dirs[q].created \in Nat, dirs[r].created \in Nat,
         ~Newer(dirs, p, q), ~Newer(dirs, q, r)
  PROVE  ~Newer(dirs, p, r)
<1>1. Rank[p] \in Nat /\ Rank[q] \in Nat /\ Rank[r] \in Nat
  BY PlagiarismConstants
<1>2. QED
  BY <1>1 DEF Newer

LEMMA RememberKeepsIndex ==
  ASSUME TypeOK, IndexInv, \A q \in Runs : RunInv(q),
         \A q \in Runs : disk[q].stage # "absent" =>
           disk'[q].stage # "absent" /\ disk'[q].created = disk[q].created,
         \A q \in Runs : disk'[q].created \in Nat,
         NEW read \in SUBSET Runs, Remember(read),
         \A q \in read : disk'[q].stage # "absent",
         \A q \in Runs : Cached(q)' => Cached(q) \/ q \in read
  PROVE  IndexInv' /\ latest' \in [Submissions -> Runs \cup {None}]
<1>1. \A s \in Submissions : latest[s] \in Runs \cup {None}
  BY DEF TypeOK
<1>2. ASSUME NEW s \in Submissions, NEW r \in Known(read, s)
      PROVE  r \in Runs /\ r # None /\ Target[r] = s /\ disk'[r].stage # "absent"
  <2>1. r \in read \/ (r = latest[s] /\ latest[s] # None)
    BY DEF Known
  <2>2. Target[r] = s /\ r \in Runs
    BY <1>1, <2>1 DEF Known
  <2>3. disk'[r].stage # "absent"
    BY <2>1, <2>2 DEF IndexInv
  <2>4. QED
    BY <2>2, <2>3, NoneIsNothing
<1>3. /\ latest' \in [Submissions -> Runs \cup {None}]
      /\ \A s \in Submissions :
           /\ Known(read, s) = {} => latest'[s] = None
           /\ Known(read, s) # {} =>
                /\ latest'[s] \in Known(read, s)
                /\ \A q \in Known(read, s) : ~Newer(disk', q, latest'[s])
  BY DEF Remember
<1>4. ASSUME NEW s \in Submissions, latest'[s] # None
      PROVE  Target[latest'[s]] = s /\ disk'[latest'[s]].stage # "absent"
  BY <1>2, <1>3, <1>4
<1>5. ASSUME NEW r \in Runs, Cached(r)'
      PROVE  latest'[Target[r]] # None /\ ~Newer(disk', r, latest'[Target[r]])
  <2> DEFINE s == Target[r]
             n == latest'[s]
  <2>1. s \in Submissions
    BY PlagiarismConstants
  <2>2. CASE r \in read
    <3>1. r \in Known(read, s)
      BY <2>2 DEF Known
    <3>2. QED
      BY <1>2, <1>3, <2>1, <3>1
  <2>3. CASE Cached(r)
    <3> DEFINE m == latest[s]
    <3>1. /\ m \in Runs /\ Target[m] = s /\ ~Newer(disk, r, m)
          /\ disk[r].stage # "absent" /\ disk[m].stage # "absent"
      BY <1>1, <2>1, <2>3 DEF IndexInv, RunInv
    <3>2. m \in Known(read, s)
      BY <3>1, NoneIsNothing DEF Known
    <3>3. n \in Runs /\ n # None /\ ~Newer(disk', m, n)
      BY <1>2, <1>3, <2>1, <3>2
    <3>4. ~Newer(disk', r, m)
      BY <3>1 DEF Newer
    <3> HIDE DEF m, n
    <3>5. ~Newer(disk', r, n)
      BY <3>1, <3>3, <3>4, NewerIsTransitive
    <3>6. QED
      BY <3>3, <3>5 DEF n
  <2>4. QED
    BY <1>5, <2>2, <2>3
<1>6. QED
  BY <1>3, <1>4, <1>5 DEF IndexInv

-----------------------------------------------------------------------------
(* Steps under the lock: one run changes, and no thread has it.            *)

LEMMA RestStays ==
  ASSUME IInv, TypeOK', NEW r \in Runs,
         \A q \in Runs : q # r => disk'[q] = disk[q] /\ view'[q] = view[q],
         \A w \in Workers : Job(w) # r,
         UNCHANGED <<thread, ledger, published, calls>>, RunInv(r)'
  PROVE  /\ \A q \in Runs : RunInv(q)'
         /\ \A w \in Workers : WorkerInv(w)' /\ ExecInv(w)'
         /\ LedgerInv'
<1>1. \A q \in Runs : RunInv(q)'
  <2> SUFFICES ASSUME NEW q \in Runs PROVE RunInv(q)'
    OBVIOUS
  <2>1. CASE q = r
    BY <2>1
  <2>2. CASE q # r
    BY <2>2, RunFrame DEF IInv
  <2>3. QED
    BY <2>1, <2>2
<1>2. ReviewsGrow /\ LedgerInv'
  BY ReviewsStay
<1>3. ASSUME NEW w \in Workers PROVE WorkerInv(w)' /\ ExecInv(w)'
  <2>1. WorkerInv(w)'
    BY Busy, WorkerFrame DEF IInv
  <2>2. ExecInv(w)'
    BY <1>2, ExecFrame DEF IInv
  <2>3. QED
    BY <2>1, <2>2
<1>4. QED
  BY <1>1, <1>2, <1>3

(* A queue without the run.                                                *)
LEMMA QueueStays ==
  ASSUME IInv, NEW r \in Runs,
         \A q \in Runs : q # r => disk'[q] = disk[q] /\ view'[q] = view[q],
         \A i \in 1..Len(queue) : queue[i] # r,
         UNCHANGED <<thread, queue>>
  PROVE  QueueInv'
<1>1. \A i \in 1..Len(queue) : queue[i] \in Runs
  BY ElementOfSeq DEF IInv, TypeOK
<1>2. QED
  BY <1>1 DEF IInv, QueueInv, Waiting, Ready, Cached, Job

(* A queue that the run is put into.                                       *)
LEMMA QueueGrows ==
  ASSUME IInv, NEW r \in Runs, HasRoom, queue' = Append(queue, r),
         \A q \in Runs : q # r => disk'[q] = disk[q] /\ view'[q] = view[q],
         \A i \in 1..Len(queue) : queue[i] # r, \A w \in Workers : Job(w) # r,
         Waiting(r)', UNCHANGED thread
  PROVE  /\ QueueInv' /\ queue' \in Seq(Runs) /\ Len(queue') <= MaxQueued
         /\ \A i \in 1..Len(queue') :
              queue'[i] = r \/ \E j \in 1..Len(queue) : queue'[i] = queue[j]
<1>1. queue \in Seq(Runs) /\ Len(queue) \in Nat
  BY LenProperties DEF IInv, TypeOK
<1>2. /\ queue' \in Seq(Runs) /\ Len(queue') = Len(queue) + 1
      /\ \A i \in 1..Len(queue) : queue'[i] = queue[i]
      /\ queue'[Len(queue) + 1] = r
  BY <1>1, AppendProperties
<1>3. \A i \in 1..Len(queue') : i \in 1..Len(queue) \/ i = Len(queue) + 1
  BY <1>1, <1>2
<1>4. \A i \in 1..Len(queue) : queue[i] \in Runs
  BY <1>1, ElementOfSeq
<1>5. \A i \in 1..Len(queue') :
        /\ disk'[queue'[i]].stage = "ready" /\ disk'[queue'[i]].state = "queued"
        /\ ~disk'[queue'[i]].torn
        /\ view'[queue'[i]].state # "none" /\ view'[queue'[i]].state # "failed"
  BY <1>2, <1>3, <1>4 DEF IInv, QueueInv, Waiting, Ready, Cached
<1>6. \A i, j \in 1..Len(queue') : i # j => queue'[i] # queue'[j]
  BY <1>2, <1>3 DEF IInv, QueueInv
<1>7. \A i \in 1..Len(queue'), w \in Workers : thread[w].run # queue'[i]
  BY <1>2, <1>3 DEF IInv, QueueInv, Job
<1>8. \A v, w \in Workers : v # w /\ thread[v].run # None => thread[v].run # thread[w].run
  BY DEF IInv, QueueInv, Job
<1>9. Len(queue') <= MaxQueued
  BY <1>1, <1>2, PlagiarismConstants DEF HasRoom
<1>10. QED
  BY <1>2, <1>3, <1>5, <1>6, <1>7, <1>8, <1>9 DEF QueueInv, Waiting, Ready, Cached, Job

(* Nobody has a run that waits in a recovery or has failed in the index.   *)
LEMMA NobodyHas ==
  ASSUME IInv, NEW r \in Runs,
         phase \in {"down", "recover"} \/ view[r].state = "failed" \/ ~Ready(r) \/ ~Cached(r),
         NEW w \in Workers
  PROVE  Job(w) # r
BY Busy, NoneIsNothing DEF IInv, WorkerInv, PassInv

LEMMA FailedWaitsNot ==
  ASSUME IInv, NEW r \in Runs,
         disk[r].state # "queued" \/ view[r].state = "failed" \/ ~Ready(r) \/ ~Cached(r),
         NEW i \in 1..Len(queue)
  PROVE  queue[i] # r
BY DEF IInv, QueueInv, Waiting

(* What a creation leaves in the directory, complete or not.               *)
LEMMA CreationFacts ==
  ASSUME IInv, NEW r \in Runs, HalfCreated(r) \/ MakeDirectory(r, "ready")
  PROVE  /\ phase = "serve" /\ HasRoom /\ disk[r].stage = "absent"
         /\ ~Ready(r) /\ ~Cached(r)
         /\ disk' \in [Runs -> DiskRecords]
         /\ \A q \in Runs : q # r => disk'[q] = disk[q]
         /\ \A q \in Runs : disk[q].stage # "absent" =>
              disk'[q].stage # "absent" /\ disk'[q].created = disk[q].created
         /\ \A q \in Runs : disk'[q].created \in Nat
         /\ disk'[r].stage \in {"partial", "unready", "ready"}
         /\ MakeDirectory(r, "ready") => disk'[r].stage = "ready"
         /\ disk'[r].stage = "partial" => disk'[r].state = "none"
         /\ disk'[r].stage # "partial" => disk'[r].state = "queued"
         /\ disk'[r].attempts = 0 /\ disk'[r].result = "none" /\ ~disk'[r].torn
<1>1. /\ TypeOK /\ RunInv(r) /\ disk \in [Runs -> DiskRecords]
      /\ phase = "serve" /\ HasRoom /\ disk[r].stage = "absent"
  BY DEF IInv, TypeOK, HalfCreated, MakeDirectory, Absent, Serving
<1>2. /\ ~Ready(r) /\ ~Cached(r)
      /\ disk[r] = NoDisk
  BY <1>1 DEF RunInv, Ready
<1>3. /\ NoDisk \in DiskRecords /\ NoDisk.state = "none" /\ NoDisk.attempts = 0
      /\ NoDisk.result = "none" /\ NoDisk.torn = FALSE
  BY <1>1, <1>2 DEF NoDisk
<1>4. CASE disk' = [disk EXCEPT ![r].stage = "partial"]
  <2> DEFINE d == [disk[r] EXCEPT !.stage = "partial"]
  <2>1. /\ d \in DiskRecords /\ d.stage = "partial" /\ d.state = "none"
        /\ d.attempts = 0 /\ d.result = "none" /\ ~d.torn
    BY <1>2, <1>3 DEF DiskRecords
  <2>2. disk' = [disk EXCEPT ![r] = d]
    BY <1>4
  <2> HIDE DEF d
  <2>3. /\ disk' \in [Runs -> DiskRecords] /\ disk'[r] = d
        /\ \A q \in Runs : q # r => disk'[q] = disk[q]
    BY <1>1, <2>1, <2>2
  <2>4. ~MakeDirectory(r, "ready")
    <3> SUFFICES ASSUME MakeDirectory(r, "ready") PROVE FALSE
      OBVIOUS
    <3>1. PICK t \in Times :
            disk' = [disk EXCEPT ![r] = [NoDisk EXCEPT !.stage = "ready", !.created = t,
                                                       !.state = "queued"]]
      BY DEF MakeDirectory
    <3>2. disk'[r].stage = "ready"
      BY <1>1, <3>1 DEF NoDisk
    <3>3. QED
      BY <2>1, <2>3, <3>2
  <2>5. \A q \in Runs : disk'[q].created \in Nat
    BY <2>3 DEF DiskRecords
  <2>6. QED
    BY <1>1, <1>2, <2>1, <2>3, <2>4, <2>5
<1>5. ASSUME NEW stage \in {"unready", "ready"}, MakeDirectory(r, stage)
      PROVE  /\ disk' \in [Runs -> DiskRecords]
             /\ \A q \in Runs : q # r => disk'[q] = disk[q]
             /\ disk'[r].stage = stage /\ disk'[r].state = "queued"
             /\ disk'[r].attempts = 0 /\ disk'[r].result = "none" /\ ~disk'[r].torn
  <2>1. PICK t \in Times :
          disk' = [disk EXCEPT ![r] = [NoDisk EXCEPT !.stage = stage, !.created = t,
                                                     !.state = "queued"]]
    BY <1>5 DEF MakeDirectory
  <2> DEFINE d == [NoDisk EXCEPT !.stage = stage, !.created = t, !.state = "queued"]
  <2>2. t \in Nat /\ "queued" \in RunStates \cup {"none"}
    BY PlagiarismConstants DEF RunStates
  <2>3. /\ d \in DiskRecords /\ d.stage = stage /\ d.state = "queued"
        /\ d.attempts = 0 /\ d.result = "none" /\ ~d.torn
    BY <1>3, <2>2 DEF DiskRecords
  <2>4. disk' = [disk EXCEPT ![r] = d]
    BY <2>1
  <2> HIDE DEF d
  <2>5. QED
    BY <1>1, <2>3, <2>4
<1>6. CASE \E stage \in {"unready", "ready"} : MakeDirectory(r, stage)
  <2>1. PICK stage \in {"unready", "ready"} : MakeDirectory(r, stage)
    BY <1>6
  <2>2. MakeDirectory(r, "ready") => disk'[r].stage = "ready"
    BY <1>5
  <2>3. \A q \in Runs : disk'[q].created \in Nat
    BY <1>5, <2>1 DEF DiskRecords
  <2>4. QED
    BY <1>1, <1>2, <1>5, <2>1, <2>2, <2>3
<1>7. QED
  BY <1>4, <1>6 DEF HalfCreated

LEMMA CreateKeeps ==
  ASSUME IInv, NEW r \in Runs, Create(r)
  PROVE  IInv'
<1>1. /\ TypeOK /\ MakeDirectory(r, "ready")
      /\ view' = [view EXCEPT ![r] = [NoView EXCEPT !.state = "queued"]]
      /\ Remember({r}) /\ queue' = Append(queue, r)
      /\ UNCHANGED <<thread, phase, todo, requeued, ledger, published, calls, crashes, faults>>
  BY DEF IInv, Create, pass, reviews, bounds
<1> DEFINE x == [NoView EXCEPT !.state = "queued"]
<1>2. x \in ViewRecords /\ x.state = "queued"
  BY DEF NoView, ViewRecords, NoCode, Codes, RunStates
<1>3. view' = [view EXCEPT ![r] = x]
  BY <1>1
<1> HIDE DEF x
<1>4. /\ view' \in [Runs -> ViewRecords] /\ view'[r].state = "queued"
      /\ \A q \in Runs : q # r => view'[q] = view[q]
  BY <1>1, <1>2, <1>3 DEF TypeOK
<1>5. /\ phase = "serve" /\ HasRoom /\ ~Ready(r) /\ disk' \in [Runs -> DiskRecords]
      /\ \A q \in Runs : q # r => disk'[q] = disk[q]
      /\ disk'[r].stage = "ready" /\ disk'[r].state = "queued"
      /\ disk'[r].attempts = 0 /\ disk'[r].result = "none" /\ ~disk'[r].torn
  BY <1>1, CreationFacts
<1>6. IndexInv' /\ latest' \in [Submissions -> Runs \cup {None}]
  <2>1. \A q \in Runs : Cached(q)' => Cached(q) \/ q \in {r}
    BY <1>4 DEF Cached
  <2>2. \A q \in {r} : disk'[q].stage # "absent"
    BY <1>5
  <2>3. IndexInv /\ (\A q \in Runs : RunInv(q)) /\ {r} \in SUBSET Runs
    BY DEF IInv
  <2>4. /\ \A q \in Runs : disk[q].stage # "absent" =>
             disk'[q].stage # "absent" /\ disk'[q].created = disk[q].created
        /\ \A q \in Runs : disk'[q].created \in Nat
    BY <1>1, CreationFacts
  <2>5. QED
    BY <1>1, <2>1, <2>2, <2>3, <2>4, RememberKeepsIndex
<1>7. QueueInv' /\ queue' \in Seq(Runs) /\ Len(queue') <= MaxQueued
  <2>1. Waiting(r)'
    BY <1>4, <1>5 DEF Waiting, Ready, Cached
  <2>2. QED
    BY <1>1, <1>4, <1>5, <2>1, QueueGrows, NobodyHas, FailedWaitsNot
<1>8. TypeOK'
  BY <1>1, <1>4, <1>5, <1>6, <1>7 DEF TypeOK
<1>9. RunInv(r)'
  BY <1>4, <1>5, PlagiarismConstants DEF RunInv, Ready, Cached
<1>10. PassInv'
  <2>1. \A q \in Runs : Indexed(q)'
    <3> SUFFICES ASSUME NEW q \in Runs PROVE Indexed(q)'
      OBVIOUS
    <3>1. CASE q = r
      BY <1>4, <3>1 DEF Indexed, Cached
    <3>2. CASE q # r
      BY <1>1, <1>4, <1>5, <3>2, IndexedStays DEF IInv, PassInv, Cached
    <3>3. QED
      BY <3>1, <3>2
  <2>2. QED
    BY <1>1, <1>5, <2>1 DEF IInv, PassInv
<1>11. QED
  BY <1>1, <1>4, <1>5, <1>6, <1>7, <1>8, <1>9, <1>10, RestStays, NobodyHas DEF IInv

(* A creation that raises behind _READY leaves a run as Create does, which *)
(* is only not indexed and not queued.                                     *)
LEMMA CreateFailsKeeps ==
  ASSUME IInv, NEW r \in Runs, CreateFails(r)
  PROVE  IInv'
<1>1. /\ TypeOK /\ faults' = faults + 1
      /\ (HalfCreated(r) \/ MakeDirectory(r, "ready"))
      /\ UNCHANGED <<view, latest, queue, thread, phase, todo, requeued, ledger, published,
                     calls, crashes>>
  BY DEF IInv, CreateFails, index, pass, reviews
<1>2. /\ phase = "serve" /\ ~Ready(r) /\ ~Cached(r) /\ disk' \in [Runs -> DiskRecords]
      /\ \A q \in Runs : q # r => disk'[q] = disk[q]
      /\ disk'[r].stage \in {"partial", "unready", "ready"}
      /\ disk'[r].stage = "partial" => disk'[r].state = "none"
      /\ disk'[r].stage # "partial" => disk'[r].state = "queued"
      /\ disk'[r].attempts = 0 /\ disk'[r].result = "none"
  BY <1>1, CreationFacts
<1>3. TypeOK'
  BY <1>1, <1>2 DEF TypeOK
<1>4. RunInv(r)'
  <2>1. view'[r].state = "none"
    BY <1>1, <1>2 DEF Cached
  <2>2. QED
    BY <1>2, <2>1, PlagiarismConstants DEF RunInv, Ready, Cached
<1>5. IndexInv'
  <2>1. \A q \in Runs : disk[q].stage # "absent" =>
             disk'[q].stage # "absent" /\ disk'[q].created = disk[q].created
    BY <1>1, CreationFacts
  <2>2. \A q \in Runs : Cached(q)' => Cached(q) /\ disk[q].stage # "absent"
    BY <1>1 DEF IInv, RunInv, Cached
  <2>3. QED
    BY <1>1, <2>1, <2>2, IndexFrame DEF IInv
<1>6. QueueInv'
  BY <1>1, <1>2, QueueStays, FailedWaitsNot
<1>7. PassInv'
  <2>1. \A q \in Runs : Indexed(q)'
    <3> SUFFICES ASSUME NEW q \in Runs PROVE Indexed(q)'
      OBVIOUS
    <3>1. CASE q = r
      <4>1. faults' > 0
        BY <1>1 DEF TypeOK
      <4>2. QED
        BY <1>2, <3>1, <4>1 DEF Indexed, Ready, CreationRaised
    <3>2. CASE q # r
      BY <1>1, <1>2, <3>2, IndexedStays DEF IInv, PassInv, Cached
    <3>3. QED
      BY <3>1, <3>2
  <2>2. QED
    BY <1>1, <1>2, <2>1 DEF IInv, PassInv
<1>8. QED
  BY <1>1, <1>2, <1>3, <1>4, <1>5, <1>6, <1>7, RestStays, NobodyHas DEF IInv

LEMMA GetKeeps ==
  ASSUME IInv, NEW r \in Runs, Get(r)
  PROVE  IInv'
<1>1. /\ TypeOK /\ phase = "serve" /\ ~Cached(r) /\ Readable(r)
      /\ view' = [view EXCEPT ![r] = ReadRun(disk[r])]
      /\ Remember({r})
      /\ UNCHANGED <<disk, queue, thread, phase, todo, requeued, ledger, published,
                     calls, crashes, faults>>
  BY DEF IInv, Get, Serving, pass, reviews, bounds
<1> DEFINE x == ReadRun(disk[r])
<1>2. x \in ViewRecords /\ x.state = disk[r].state /\ x.code = disk[r].code
  BY <1>1 DEF TypeOK, DiskRecords, ViewRecords, ReadRun, Readable
<1> HIDE DEF x
<1>3. /\ view' \in [Runs -> ViewRecords] /\ view'[r] = x
      /\ \A q \in Runs : q # r => disk'[q] = disk[q] /\ view'[q] = view[q]
  BY <1>1, <1>2 DEF TypeOK, x
<1>5. IndexInv' /\ latest' \in [Submissions -> Runs \cup {None}]
  <2>1. \A q \in Runs : Cached(q)' => Cached(q) \/ q \in {r}
    BY <1>3 DEF Cached
  <2>2. \A q \in Runs : disk'[q] = disk[q] /\ disk'[q].created \in Nat
    BY <1>1 DEF TypeOK, DiskRecords
  <2>3. \A q \in {r} : disk'[q].stage # "absent"
    BY <1>1 DEF Readable
  <2>4. IndexInv /\ \A q \in Runs : RunInv(q)
    BY DEF IInv
  <2>5. {r} \in SUBSET Runs
    OBVIOUS
  <2>6. QED
    BY <1>1, <2>1, <2>2, <2>3, <2>4, <2>5, RememberKeepsIndex
<1>6. QueueInv'
  BY <1>1, <1>3, QueueStays, FailedWaitsNot
<1>7. TypeOK'
  BY <1>1, <1>3, <1>5 DEF TypeOK
<1>8. RunInv(r)'
  <2>1. RunInv(r) /\ disk'[r] = disk[r] /\ disk[r].stage \in {"unready", "ready"}
        /\ disk[r].result # "partial"
    BY <1>1 DEF IInv, Readable
  <2>2. QED
    BY <1>2, <1>3, <2>1 DEF RunInv, Ready, Cached, Accounts, Untold
<1>9. PassInv'
  <2>1. \A q \in Runs : Cached(q) => Cached(q)'
    BY <1>1, <1>3 DEF Cached
  <2>2. \A q \in Runs : Indexed(q)'
    BY <1>1, <1>3, <2>1, IndexedStays DEF IInv, PassInv
  <2>3. QED
    BY <1>1, <2>2 DEF IInv, PassInv
<1>10. QED
  BY <1>1, <1>3, <1>5, <1>6, <1>7, <1>8, <1>9, RestStays, NobodyHas DEF IInv

(* The index is built of what can be read.                                 *)
LEMMA StartKeeps ==
  ASSUME IInv, Start
  PROVE  IInv'
<1> DEFINE read == {r \in Runs : Ready(r) /\ Readable(r)}
<1>1. /\ TypeOK /\ phase = "down" /\ phase' = "recover"
      /\ view' = [r \in Runs |-> IF r \in read THEN ReadRun(disk[r]) ELSE NoView]
      /\ Remember(read)
      /\ todo' = {r \in Runs : Unfinished(r)}
      /\ UNCHANGED <<disk, queue, thread, requeued, ledger, published, calls, crashes,
                     faults>>
  BY DEF IInv, Start, reviews, bounds
<1>2. /\ queue = <<>> /\ \A r \in Runs : view[r] = NoView
      /\ \A w \in Workers : At(w, "idle") /\ Job(w) = None
  BY <1>1 DEF IInv, PassInv, WorkerInv
<1>3. ASSUME NEW r \in read
      PROVE  /\ ReadRun(disk[r]) \in ViewRecords /\ ReadRun(disk[r]).state = disk[r].state
             /\ ReadRun(disk[r]).code = disk[r].code
             /\ disk[r].stage = "ready" /\ disk[r].result # "partial" /\ disk[r].state # "none"
  BY <1>1 DEF TypeOK, DiskRecords, ViewRecords, ReadRun, Readable, Ready, IInv, RunInv
<1>4. NoView \in ViewRecords /\ NoView.state = "none"
  BY DEF NoView, ViewRecords, NoCode, Codes
<1>5. /\ view' \in [Runs -> ViewRecords]
      /\ \A r \in Runs : r \in read => view'[r] = ReadRun(disk[r])
      /\ \A r \in Runs : r \notin read => view'[r].state = "none"
  BY <1>1, <1>3, <1>4
<1>7. IndexInv' /\ latest' \in [Submissions -> Runs \cup {None}]
  <2>1. \A q \in Runs : Cached(q)' => Cached(q) \/ q \in read
    BY <1>5 DEF Cached
  <2>2. \A q \in Runs : disk'[q] = disk[q] /\ disk'[q].created \in Nat
    BY <1>1 DEF TypeOK, DiskRecords
  <2>3. \A q \in read : disk'[q].stage # "absent"
    BY <1>1, <1>3
  <2>4. IndexInv /\ \A q \in Runs : RunInv(q)
    BY DEF IInv
  <2>5. read \in SUBSET Runs
    OBVIOUS
  <2> HIDE DEF read
  <2>6. QED
    BY <1>1, <2>1, <2>2, <2>3, <2>4, <2>5, RememberKeepsIndex
<1>8. TypeOK'
  BY <1>1, <1>5, <1>7 DEF TypeOK
<1>9. \A r \in Runs : RunInv(r)'
  <2> SUFFICES ASSUME NEW r \in Runs PROVE RunInv(r)'
    OBVIOUS
  <2>1. RunInv(r) /\ disk'[r] = disk[r]
    BY <1>1 DEF IInv
  <2>2. CASE r \in read
    BY <1>3, <1>5, <2>1, <2>2 DEF RunInv, Ready, Cached, Accounts, Untold
  <2>3. CASE r \notin read
    BY <1>5, <2>1, <2>3 DEF RunInv, Ready, Cached, Accounts, Untold
  <2>4. QED
    BY <2>2, <2>3
<1>10. ReviewsGrow /\ LedgerInv'
  BY <1>1, ReviewsStay
<1>11. ASSUME NEW w \in Workers PROVE WorkerInv(w)' /\ ExecInv(w)'
  <2>1. WorkerInv(w)'
    BY <1>1, <1>2, WorkerFrame DEF IInv
  <2>2. ExecInv(w)'
    BY <1>1, <1>8, <1>10, ExecFrame DEF IInv
  <2>3. QED
    BY <2>1, <2>2
<1>12. QueueInv'
  <2>1. 1..Len(queue) = {}
    BY <1>2
  <2>2. \A w \in Workers : Job(w)' = None
    BY <1>1, <1>2 DEF Job
  <2>3. QED
    BY <1>1, <2>1, <2>2 DEF QueueInv
<1>13. PassInv'
  <2>1. \A r \in Runs : Indexed(r)'
    BY <1>1, <1>3, <1>5 DEF Indexed, Ready, Readable, Cached
  <2>2. \A w \in Workers : At(w, "idle")'
    BY <1>1, <1>2 DEF At
  <2>3. ASSUME NEW r \in todo'
        PROVE  /\ Unfinished(r)' /\ view'[r].state # "failed"
               /\ disk'[r].state = "queued" => Cached(r)'
               /\ disk'[r].result = "partial" => ~Cached(r)'
    <3>1. r \in Runs /\ Unfinished(r) /\ RunInv(r) /\ disk'[r] = disk[r]
      BY <1>1, <2>3 DEF IInv
    <3>2. view'[r].state # "failed" /\ (disk[r].result = "partial" => view'[r].state = "none")
      BY <1>3, <1>5, <3>1 DEF Unfinished, ActiveStates
    <3>3. disk[r].state = "queued" => r \in read
      BY <3>1 DEF Unfinished, RunInv, Readable, Ready
    <3>4. disk[r].state = "queued" => view'[r].state # "none"
      BY <1>3, <1>5, <3>1, <3>3
    <3>5. QED
      BY <3>1, <3>2, <3>4 DEF Unfinished, Ready, Cached
  <2>4. \A i \in 1..Len(queue') : FALSE
    BY <1>1, <1>2
  <2>5. QED
    BY <1>1, <2>1, <2>2, <2>3, <2>4 DEF PassInv
<1>14. QED
  BY <1>7, <1>8, <1>9, <1>10, <1>11, <1>12, <1>13 DEF IInv

(* An event of a run that the index holds, unless result.json is cut short.*)
LEMMA EventKeepsIndex ==
  ASSUME IInv, NEW r \in Runs, Cached(r) <=> disk[r].result # "partial",
         NEW s \in RunStates, NEW c \in Codes, AppendEvent(r, s, c), UNCHANGED faults
  PROVE  /\ IndexInv'
         /\ phase # "down" => \A q \in Runs : Indexed(q)'
<1>1. TypeOK
  BY DEF IInv
<1>2. ~RefreshFails(r) /\ s # "none"
  BY DEF RefreshFails, RunStates, ActiveStates
<1>3. /\ disk'[r].stage = disk[r].stage /\ disk'[r].created = disk[r].created
      /\ disk'[r].result = disk[r].result /\ latest' = latest
      /\ \A q \in Runs : q # r => disk'[q] = disk[q] /\ view'[q] = view[q]
      /\ Cached(r) => view'[r].state = s
      /\ ~Cached(r) => view' = view
  BY <1>1, <1>2, AppendFacts
<1>4. \A q \in Runs : Cached(q)' <=> Cached(q)
  BY <1>2, <1>3 DEF Cached
<1>5. IndexInv'
  <2>1. \A q \in Runs : disk[q].stage # "absent" =>
          disk'[q].stage # "absent" /\ disk'[q].created = disk[q].created
    BY <1>3
  <2>2. \A q \in Runs : Cached(q)' => Cached(q) /\ disk[q].stage # "absent"
    BY <1>4 DEF IInv, RunInv
  <2>3. QED
    BY <1>1, <1>3, <2>1, <2>2, IndexFrame DEF IInv
<1>6. ASSUME phase # "down", NEW q \in Runs PROVE Indexed(q)'
  <2>1. CASE q = r
    BY <1>3, <1>4, <2>1 DEF Indexed, Readable
  <2>2. CASE q # r
    BY <1>1, <1>3, <1>4, <1>6, <2>2, IndexedStays DEF IInv, PassInv
  <2>3. QED
    BY <2>1, <2>2
<1>7. QED
  BY <1>5, <1>6

(* An event of a run that a recovery looks at.                             *)
LEMMA RecoverEventKeeps ==
  ASSUME IInv, NEW r \in todo, phase = "recover", NEW s \in {"completed", "failed"},
         NEW c \in Codes, AppendEvent(r, s, c), s = "failed" => c # NoCode,
         s = "completed" => disk[r].result = "good", todo' = todo \ {r},
         UNCHANGED <<queue, thread, phase, requeued, ledger, published, calls, crashes, faults>>
  PROVE  IInv'
<1>1. /\ TypeOK /\ r \in Runs /\ Ready(r) /\ disk[r].state \in ActiveStates \cup {"queued"}
      /\ RunInv(r) /\ view[r].state # "failed"
      /\ disk[r].result = "partial" => ~Cached(r)
      /\ \A i \in 1..Len(queue) : queue[i] # r
      /\ s \in RunStates
  BY DEF IInv, PassInv, TypeOK, RunStates, Unfinished
<1>2. TypeOK'
  BY <1>1, AppendFacts DEF TypeOK
<1>3. disk[r].result # "partial" => Cached(r)
  BY <1>1 DEF IInv, PassInv, Indexed, CreationRaised, Unfinished, Readable, Ready
<1>4. Cached(r) => view'[r].state = s /\ (s = "failed" => view'[r].code = c)
  BY <1>1, AppendFacts DEF RefreshFails
<1>5. ~Cached(r) => view'[r] = view[r]
  BY <1>1, AppendFacts
<1>6. RunInv(r)'
  <2>1. disk'[r].attempts = disk[r].attempts /\ disk'[r].state = s /\ disk'[r].code = c
        /\ disk'[r].stage = "ready" /\ disk'[r].result = disk[r].result
        /\ disk'[r].report = disk[r].report
    BY <1>1, AppendFacts, AttemptsNat DEF Ready
  <2>2. view'[r].state = "failed" =>
          disk'[r].state = "failed" /\ disk'[r].code = view'[r].code /\ disk'[r].result # "partial"
    BY <1>1, <1>4, <1>5, <2>1
  <2>3. QED
    BY <1>1, <2>1, <2>2 DEF RunInv, Ready, Cached, Accounts, Untold
<1>7. IndexInv' /\ \A q \in Runs : Indexed(q)'
  BY <1>1, <1>3, EventKeepsIndex
<1>8. PassInv'
  <2>1. \A q \in todo' : q \in todo /\ q \in Runs /\ disk'[q] = disk[q] /\ view'[q] = view[q]
    BY <1>1, AppendFacts DEF TypeOK
  <2>2. QED
    BY <1>7, <2>1 DEF IInv, PassInv, Unfinished, Ready, Cached, At
<1>9. QED
  BY <1>1, <1>2, <1>6, <1>7, <1>8, AppendFacts, RestStays, QueueStays, NobodyHas DEF IInv

LEMMA RecoverRunKeeps ==
  ASSUME IInv, NEW r \in Runs, RecoverRun(r)
  PROVE  IInv'
<1>1. /\ TypeOK /\ r \in todo /\ phase = "recover" /\ Unfinished(r)
      /\ disk[r].state = "queued" => Cached(r)
      /\ view[r].state # "failed"
      /\ \A i \in 1..Len(queue) : queue[i] # r
      /\ UNCHANGED <<thread, phase, requeued, ledger, published, calls, crashes, faults>>
  BY DEF IInv, PassInv, RecoverRun, reviews, bounds
<1>2. CASE RecoverFinished(r)
  <2>1. NoCode \in Codes /\ "PLAGIARISM_RESULT_RECORD_INVALID" \in Codes
        /\ "PLAGIARISM_RESULT_RECORD_INVALID" # NoCode
    BY DEF Codes, NoCode
  <2>2. todo' = todo \ {r} /\ UNCHANGED queue
    BY <1>2 DEF RecoverFinished
  <2>3. CASE disk[r].result = "good"
    <3>1. AppendEvent(r, "completed", NoCode)
      BY <1>2, <2>3 DEF RecoverFinished, RecoverPersistedResult
    <3>2. QED
      BY <1>1, <2>1, <2>2, <2>3, <3>1, RecoverEventKeeps
  <2>4. CASE disk[r].result # "good"
    <3>1. AppendEvent(r, "failed", "PLAGIARISM_RESULT_RECORD_INVALID")
      BY <1>2, <2>4 DEF RecoverFinished, RecoverPersistedResult
    <3>2. QED
      BY <1>1, <2>1, <2>2, <3>1, RecoverEventKeeps
  <2>5. QED
    BY <2>3, <2>4
<1>3. CASE RecoverLost(r)
  <2>1. "JOB_LOST" \in Codes /\ "JOB_LOST" # NoCode
    BY DEF Codes, RetryableFailures, NoCode
  <2>2. todo' = todo \ {r} /\ UNCHANGED queue /\ AppendEvent(r, "failed", "JOB_LOST")
    BY <1>3 DEF RecoverLost
  <2>3. QED
    BY <1>1, <2>1, <2>2, RecoverEventKeeps
<1>4. CASE RecoverQueued(r)
  <2>1. /\ disk[r].state = "queued" /\ todo' \subseteq todo
        /\ UNCHANGED <<disk, view, latest>>
        /\ \/ HasRoom /\ queue' = Append(queue, r) /\ r \notin todo'
           \/ UNCHANGED queue
    BY <1>4 DEF RecoverQueued, index
  <2>2. Waiting(r)' /\ RunInv(r)
    BY <1>1, <2>1 DEF IInv, Waiting, Unfinished, Ready, Cached
  <2>3. \A w \in Workers : Job(w) # r
    BY <1>1, NobodyHas
  <2>4. \A q \in Runs : q # r => disk'[q] = disk[q] /\ view'[q] = view[q]
    BY <2>1
  <2>5. /\ QueueInv' /\ queue' \in Seq(Runs) /\ Len(queue') <= MaxQueued
        /\ \A i \in 1..Len(queue') :
             queue'[i] \in todo' => \E j \in 1..Len(queue) : queue'[i] = queue[j]
    <3>1. CASE HasRoom /\ queue' = Append(queue, r) /\ r \notin todo'
      BY <1>1, <2>1, <2>2, <2>3, <2>4, <3>1, QueueGrows
    <3>2. CASE UNCHANGED queue
      BY <1>1, <2>4, <3>2, QueueStays DEF TypeOK
    <3>3. QED
      BY <2>1, <3>1, <3>2
  <2>6. TypeOK'
    BY <1>1, <2>1, <2>5 DEF TypeOK
  <2>7. RunInv(r)'
    BY <2>1, <2>2, RunFrame
  <2>8. IndexInv'
    BY <2>1, IndexStays DEF IInv
  <2>9. PassInv'
    <3>1. \A q \in Runs : Indexed(q)'
      BY <1>1, <2>1, IndexedStays DEF IInv, PassInv, Cached
    <3>2. QED
      BY <1>1, <2>1, <2>5, <3>1 DEF IInv, PassInv, Unfinished, Ready, Cached, At
  <2>10. QED
    BY <1>1, <2>3, <2>4, <2>5, <2>6, <2>7, <2>8, <2>9, RestStays DEF IInv
<1>5. QED
  BY <1>2, <1>3, <1>4 DEF RecoverRun

(* Passes that begin or end change nothing else.                           *)
LEMMA PassChanges ==
  ASSUME IInv, UNCHANGED <<disk, index, queue, thread, reviews, bounds>>,
         phase \in {"recover", "reconcile", "serve"}, phase' \in {"reconcile", "serve"},
         requeued' \in Nat, todo' \subseteq Runs,
         phase' = "serve" => todo' = {}, \A r \in todo' : Retried(r)
  PROVE  IInv'
<1>1. UNCHANGED <<disk, view, latest, queue, thread, ledger, published, calls, crashes,
                  faults>>
  BY DEF index, reviews, bounds
<1>2. TypeOK /\ TypeOK'
  BY <1>1 DEF IInv, TypeOK
<1>3. \A r \in Runs : RunInv(r)'
  BY <1>1, RunFrame DEF IInv
<1>4. ReviewsGrow /\ LedgerInv'
  BY <1>1, ReviewsStay
<1>5. \A w \in Workers : WorkerInv(w)' /\ ExecInv(w)'
  <2>1. \A w \in Workers : WorkerInv(w)'
    BY <1>1, WorkerFrame DEF IInv
  <2>2. \A w \in Workers : ExecInv(w)'
    BY <1>1, <1>2, <1>4, ExecFrame DEF IInv
  <2>3. QED
    BY <2>1, <2>2
<1>6. QueueInv'
  BY <1>1 DEF IInv, QueueInv, Waiting, Ready, Cached, Job
<1>7. IndexInv'
  BY <1>1, IndexStays DEF IInv
<1>8. PassInv'
  <2>1. \A q \in Runs : Indexed(q)'
    BY <1>1, <1>2, IndexedStays DEF IInv, PassInv, Cached
  <2>2. QED
    BY <1>1, <2>1 DEF IInv, PassInv, Retried
<1>9. QED
  BY <1>2, <1>3, <1>4, <1>5, <1>6, <1>7, <1>8 DEF IInv

LEMMA RecoverEndsKeeps ==
  ASSUME IInv, RecoverEnds
  PROVE  IInv'
BY PassChanges DEF RecoverEnds, ReconcileStarts

LEMMA ReconcileBeginsKeeps ==
  ASSUME IInv, ReconcileBegins
  PROVE  IInv'
BY PassChanges DEF ReconcileBegins, ReconcileStarts, Serving

LEMMA ReconcileEndsKeeps ==
  ASSUME IInv, ReconcileEnds
  PROVE  IInv'
BY PassChanges DEF ReconcileEnds, ReconcileStops

(* A failure that is retried is neither queued nor anybody's.              *)
LEMMA RetriedFacts ==
  ASSUME IInv, NEW r \in Runs, Retried(r)
  PROVE  /\ TypeOK /\ RunInv(r) /\ Ready(r) /\ Cached(r)
         /\ view[r].state = "failed" /\ view[r].code \in RetryableFailures
         /\ disk[r].state \in {"failed", "queued", "completed"}
         /\ disk[r].state = "failed" => disk[r].code = view[r].code
         /\ disk[r].result \in {"none", "good"}
         /\ disk[r].attempts \in Nat /\ disk[r].attempts <= MaxRunAttempts
         /\ disk[r].result = "none" => disk[r].attempts < MaxRunAttempts
         /\ \A i \in 1..Len(queue) : queue[i] # r
         /\ \A w \in Workers : Job(w) # r
<1>1. TypeOK /\ RunInv(r) /\ view[r].state = "failed" /\ disk[r] \in DiskRecords
  BY DEF IInv, TypeOK, Retried
<1>2. /\ disk[r].result \in {"none", "partial", "good"} /\ disk[r].attempts \in Nat
  BY <1>1 DEF DiskRecords
<1>3. /\ Cached(r) /\ Ready(r) /\ disk[r].result # "partial"
      /\ disk[r].state \in {"failed", "queued", "completed"}
      /\ disk[r].state = "failed" => disk[r].code = view[r].code
      /\ disk[r].attempts <= MaxRunAttempts
  BY <1>1 DEF RunInv, Cached
<1>4. /\ \A i \in 1..Len(queue) : queue[i] # r
      /\ \A w \in Workers : Job(w) # r
  BY <1>1, NobodyHas, FailedWaitsNot
<1>5. QED
  BY <1>1, <1>2, <1>3, <1>4 DEF Retried

LEMMA ReconcileRunKeeps ==
  ASSUME IInv, NEW r \in Runs, ReconcileRun(r)
  PROVE  IInv'
<1>1. /\ TypeOK /\ phase = "reconcile" /\ r \in todo /\ HasRoom /\ todo' = todo \ {r}
      /\ UNCHANGED <<thread, phase, ledger, published, calls, crashes, faults>>
      /\ Retried(r) /\ RunInv(r) /\ requeued \in Nat
  BY DEF IInv, PassInv, ReconcileRun, GoesOn, reviews, bounds, TypeOK
<1>2. /\ Ready(r) /\ Cached(r) /\ disk[r].result \in {"none", "good"} /\ ~RefreshFails(r)
      /\ disk[r].result = "none" => disk[r].attempts < MaxRunAttempts
      /\ \A i \in 1..Len(queue) : queue[i] # r
      /\ \A w \in Workers : Job(w) # r
  BY <1>1, RetriedFacts DEF RefreshFails
<1>3. \E s \in {"completed", "queued"} :
        /\ AppendEvent(r, s, NoCode) /\ requeued' \in Nat
        /\ s = "completed" => disk[r].result = "good" /\ UNCHANGED queue
        /\ s = "queued" => disk[r].result = "none" /\ queue' = Append(queue, r)
  <2>1. CASE ReconcileFinished(r)
    BY <1>1, <1>2, <2>1 DEF ReconcileFinished, RecoverPersistedResult
  <2>2. CASE ReconcileFailed(r)
    BY <1>1, <1>2, <2>2 DEF ReconcileFailed
  <2>3. QED
    BY <2>1, <2>2 DEF ReconcileRun
<1>4. PICK s \in {"completed", "queued"} :
        /\ AppendEvent(r, s, NoCode) /\ requeued' \in Nat
        /\ s = "completed" => disk[r].result = "good" /\ UNCHANGED queue
        /\ s = "queued" => disk[r].result = "none" /\ queue' = Append(queue, r)
  BY <1>3
<1>5. s \in RunStates /\ NoCode \in Codes
  BY DEF RunStates, Codes
<1>6. /\ disk' \in [Runs -> DiskRecords] /\ view' \in [Runs -> ViewRecords]
      /\ \A q \in Runs : q # r => disk'[q] = disk[q] /\ view'[q] = view[q]
      /\ disk'[r].state = s /\ ~disk'[r].torn /\ disk'[r].attempts = disk[r].attempts
      /\ disk'[r].stage = "ready" /\ disk'[r].result = disk[r].result
      /\ disk'[r].report = disk[r].report /\ view'[r].state = s
      /\ UNCHANGED latest
  BY <1>1, <1>2, <1>4, <1>5, AppendFacts, AttemptsNat DEF Ready
<1>7. QueueInv' /\ queue' \in Seq(Runs) /\ Len(queue') <= MaxQueued
  <2>1. CASE s = "completed"
    BY <1>1, <1>2, <1>4, <1>6, <2>1, QueueStays DEF TypeOK
  <2>2. CASE s = "queued"
    BY <1>1, <1>2, <1>4, <1>6, <2>2, QueueGrows DEF Waiting, Ready, Cached
  <2>3. QED
    BY <2>1, <2>2
<1>8. TypeOK'
  BY <1>1, <1>4, <1>6, <1>7 DEF TypeOK
<1>9. RunInv(r)'
  BY <1>1, <1>2, <1>4, <1>6 DEF RunInv, Ready, Cached, Accounts, Untold
<1>10. IndexInv' /\ \A q \in Runs : Indexed(q)'
  BY <1>1, <1>2, <1>4, <1>5, EventKeepsIndex
<1>11. PassInv'
  <2>1. \A q \in todo' : Retried(q) /\ disk'[q] = disk[q] /\ view'[q] = view[q]
    BY <1>1, <1>6 DEF IInv, PassInv, TypeOK
  <2>2. \A q \in todo' : Retried(q)'
    BY <2>1 DEF Retried
  <2>3. QED
    BY <1>1, <1>10, <2>2 DEF PassInv
<1>12. QED
  BY <1>1, <1>2, <1>6, <1>7, <1>8, <1>9, <1>10, <1>11, RestStays DEF IInv

(* An event cut short hides the log, and counts as an attempt if it was    *)
(* the first one of an attempt.                                            *)
LEMMA TornKeeps ==
  ASSUME TypeOK, NEW r \in Runs, RunInv(r), Ready(r), NEW s,
         TornEvent(r, s), Attempts(r, s) <= MaxRunAttempts,
         view'[r] = view[r] \/ view'[r] = NoView
  PROVE  RunInv(r)'
<1>1. /\ disk'[r].torn /\ disk'[r].attempts = Attempts(r, s)
      /\ disk'[r].state = disk[r].state /\ disk'[r].code = disk[r].code
      /\ disk'[r].stage = disk[r].stage /\ disk'[r].result = disk[r].result
      /\ disk'[r].report = disk[r].report
  BY TornFacts
<1>2. disk[r].result = "good" => Accounts(r, disk[r].report)' /\ Accounts(r, disk[r].report)
  BY <1>1 DEF RunInv, Accounts, Untold
<1>3. QED
  BY <1>1, <1>2 DEF RunInv, Ready, Cached, NoView

LEMMA ReconcileFailsKeeps ==
  ASSUME IInv, NEW r \in Runs, ReconcileFails(r)
  PROVE  IInv'
<1>1. /\ TypeOK /\ phase = "reconcile" /\ Retried(r)
      /\ phase' = "serve" /\ todo' = {} /\ requeued' = 0 /\ faults' = faults + 1
      /\ UNCHANGED <<view, latest, queue, thread, ledger, published, calls, crashes>>
  BY DEF IInv, PassInv, ReconcileFails, ReconcileStops, index, reviews
<1>2. /\ RunInv(r) /\ Ready(r) /\ Cached(r) /\ view[r].state = "failed"
      /\ disk[r].result \in {"none", "good"}
      /\ disk[r].attempts \in Nat /\ disk[r].attempts <= MaxRunAttempts
      /\ disk[r].result = "none" => disk[r].attempts < MaxRunAttempts
      /\ \A i \in 1..Len(queue) : queue[i] # r
      /\ \A w \in Workers : Job(w) # r
  BY <1>1, RetriedFacts
<1> DEFINE s == IF disk[r].result = "none" THEN "queued" ELSE "completed"
<1>3. /\ UNCHANGED disk \/ TornEvent(r, s) \/ WriteEvent(r, s, NoCode)
      /\ s \in RunStates /\ NoCode \in Codes
      /\ \/ s = "queued" /\ disk[r].result = "none"
         \/ s = "completed" /\ disk[r].result = "good"
      /\ Attempts(r, s) = disk[r].attempts
  BY <1>1, <1>2, AttemptsNat DEF ReconcileFails, EventFails, RunStates, Codes
<1> HIDE DEF s
<1>4. /\ disk' \in [Runs -> DiskRecords]
      /\ \A q \in Runs : q # r => disk'[q] = disk[q]
      /\ disk'[r].stage = disk[r].stage /\ disk'[r].created = disk[r].created
  BY <1>1, <1>3, TornFacts, WriteFacts DEF TypeOK
<1>5. RunInv(r)'
  <2>1. CASE TornEvent(r, s)
    BY <1>1, <1>2, <1>3, <2>1, TornKeeps
  <2>2. CASE UNCHANGED disk
    BY <1>1, <1>2, <2>2, RunFrame
  <2>3. CASE WriteEvent(r, s, NoCode)
    <3>1. /\ disk'[r].state = s /\ disk'[r].attempts = disk[r].attempts
          /\ disk'[r].result = disk[r].result /\ disk'[r].report = disk[r].report
      BY <1>1, <1>3, <2>3, WriteFacts
    <3>2. QED
      BY <1>1, <1>2, <1>3, <1>4, <3>1 DEF RunInv, Ready, Cached, Accounts, Untold
  <2>4. QED
    BY <1>3, <2>1, <2>2, <2>3
<1>6. TypeOK'
  BY <1>1, <1>4 DEF TypeOK
<1>7. IndexInv'
  <2>1. \A q \in Runs : disk[q].stage # "absent" =>
          disk'[q].stage # "absent" /\ disk'[q].created = disk[q].created
    BY <1>4
  <2>2. \A q \in Runs : Cached(q)' => Cached(q) /\ disk[q].stage # "absent"
    BY <1>1 DEF IInv, RunInv, Cached
  <2>3. QED
    BY <1>1, <2>1, <2>2, IndexFrame DEF IInv
<1>8. QueueInv'
  BY <1>1, <1>2, <1>4, QueueStays
<1>9. PassInv'
  <2>1. ASSUME NEW q \in Runs PROVE Indexed(q)'
    <3>1. CASE q = r
      BY <1>1, <1>2, <3>1 DEF Indexed, Cached
    <3>2. CASE q # r
      BY <1>1, <1>4, <3>2, IndexedStays DEF IInv, PassInv, Cached
    <3>3. QED
      BY <3>1, <3>2
  <2>2. QED
    BY <1>1, <2>1 DEF PassInv
<1>10. QED
  BY <1>1, <1>2, <1>4, <1>5, <1>6, <1>7, <1>8, <1>9, RestStays DEF IInv

-----------------------------------------------------------------------------
(* Deaths, and the theorems.                                               *)

LEMMA ThreadsIdle ==
  ASSUME thread' = [w \in Workers |-> Idle], NEW w \in Workers
  PROVE  WorkerInv(w)' /\ ExecInv(w)' /\ At(w, "idle")' /\ Job(w)' = None
<1>1. thread'[w].pc = "idle" /\ thread'[w].run = None
  BY IdleFields
<1>2. QED
  BY <1>1 DEF WorkerInv, ExecInv, At, Job

(* Of a process that dies only the directories and the reviews are left.   *)
LEMMA DiesKeeps ==
  ASSUME IInv, Dies, disk' \in [Runs -> DiskRecords], \A q \in Runs : RunInv(q)'
  PROVE  IInv'
<1>1. /\ TypeOK /\ crashes' = crashes + 1 /\ UNCHANGED <<ledger, published, calls, faults>>
      /\ view' = [q \in Runs |-> NoView] /\ latest' = [s \in Submissions |-> None]
      /\ queue' = <<>> /\ thread' = [w \in Workers |-> Idle]
      /\ phase' = "down" /\ todo' = {} /\ requeued' = 0
  BY DEF IInv, Dies, reviews
<1>2. NoView \in ViewRecords /\ NoView.state = "none"
  BY DEF NoView, ViewRecords, NoCode, Codes
<1>3. /\ view' \in [Runs -> ViewRecords]
      /\ \A q \in Runs : view'[q] = NoView /\ view'[q].state = "none"
  BY <1>1, <1>2
<1>4. queue' \in Seq(Runs) /\ Len(queue') = 0
  BY <1>1, EmptySeq
<1>5. thread' \in [Workers -> Threads]
  BY <1>1, IdleTyped
<1>6. TypeOK'
  BY <1>1, <1>3, <1>4, <1>5, PlagiarismConstants DEF TypeOK
<1>7. LedgerInv'
  BY <1>1, ReviewsStay
<1>8. QueueInv'
  <2>1. 1..Len(queue') = {}
    BY <1>4
  <2>2. QED
    BY <1>1, <2>1, ThreadsIdle DEF QueueInv
<1>9. \A s \in Submissions : latest'[s] = None
  BY <1>1
<1>10. IndexInv'
  BY <1>3, <1>9 DEF IndexInv, Cached
<1>11. PassInv'
  BY <1>1, <1>3, <1>9, ThreadsIdle DEF PassInv
<1>12. QED
  BY <1>1, <1>6, <1>7, <1>8, <1>10, <1>11, ThreadsIdle DEF IInv

LEMMA ForgottenRun ==
  ASSUME NEW r \in Runs, RunInv(r), disk'[r] = disk[r], view'[r] = NoView
  PROVE  RunInv(r)'
BY DEF RunInv, Ready, Cached, NoView, Accounts, Untold

LEMMA CrashKeeps ==
  ASSUME IInv, Crash
  PROVE  IInv'
<1>1. \A q \in Runs : RunInv(q)'
  BY ForgottenRun DEF IInv, Crash, Dies
<1>2. QED
  BY <1>1, DiesKeeps DEF Crash, IInv, TypeOK

LEMMA CrashInCreateKeeps ==
  ASSUME IInv, CrashInCreate
  PROVE  IInv'
<1>1. PICK r \in Runs : HalfCreated(r)
  BY DEF CrashInCreate
<1>2. \A q \in Runs : view'[q] = NoView
  BY DEF CrashInCreate, Dies
<1>3. RunInv(r)'
  BY <1>1, <1>2, CreationFacts, PlagiarismConstants DEF RunInv, Ready, Cached, NoView
<1>4. \A q \in Runs : q # r => RunInv(q)'
  BY <1>1, <1>2, CreationFacts, ForgottenRun DEF IInv
<1>5. QED
  BY <1>1, <1>3, <1>4, CreationFacts, DiesKeeps DEF CrashInCreate

(* The event a thread is about to append is within the attempt limit.      *)
LEMMA PendingAttempt ==
  ASSUME IInv, NEW w \in Workers, thread[w].pc \in DOMAIN PendingEvent
  PROVE  /\ Job(w) \in Runs /\ Ready(Job(w)) /\ PendingEvent[thread[w].pc] \in RunStates
         /\ Attempts(Job(w), PendingEvent[thread[w].pc]) <= MaxRunAttempts
<1>1. /\ TypeOK /\ thread[w].pc \in {"taken", "prepared", "executed", "written", "failing"}
      /\ ~At(w, "idle")
  BY DEF PendingEvent, IInv, At
<1>2. PICK r \in Runs : r = Job(w) /\ Ready(r) /\ JobAt(thread[w].pc, r) /\ RunInv(r)
  BY <1>1, Busy
<1>3. thread[w].pc = "taken" => disk[r].attempts < MaxRunAttempts
  BY <1>2 DEF JobAt, RunInv
<1>4. disk[r].attempts \in Nat /\ disk[r].attempts <= MaxRunAttempts
  BY <1>1, <1>2 DEF TypeOK, DiskRecords, RunInv
<1>5. /\ PendingEvent[thread[w].pc] = "preparing" => thread[w].pc = "taken"
      /\ PendingEvent[thread[w].pc] \in RunStates
  BY <1>1 DEF PendingEvent, RunStates, ActiveStates
<1>6. QED
  BY <1>1, <1>2, <1>3, <1>4, <1>5, AttemptsNat, PlagiarismConstants

LEMMA CrashInAppendKeeps ==
  ASSUME IInv, CrashInAppend
  PROVE  IInv'
<1> DEFINE Torn(r, s) == Ready(r) /\ TornEvent(r, s) /\ Attempts(r, s) <= MaxRunAttempts
<1>1. \E r \in Runs, s \in RunStates : Torn(r, s)
  <2>1. TypeOK /\ \A r \in Runs : RunInv(r)
    BY DEF IInv
  <2>2. ASSUME NEW w \in Workers, thread[w].pc \in DOMAIN PendingEvent,
               TornEvent(Job(w), PendingEvent[thread[w].pc])
        PROVE  \E r \in Runs, s \in RunStates : Torn(r, s)
    BY <2>2, PendingAttempt
  <2>3. ASSUME NEW r \in todo, Ready(r), NEW s \in {"failed", "queued"}, TornEvent(r, s)
        PROVE  \E q \in Runs, e \in RunStates : Torn(q, e)
    <3>1. r \in Runs /\ s \in RunStates
      BY <2>1 DEF TypeOK, RunStates
    <3>2. Attempts(r, s) <= MaxRunAttempts
      BY <2>1, <2>3, <3>1, AttemptsNat DEF RunInv
    <3>3. QED
      BY <2>3, <3>1, <3>2
  <2>4. \A r \in todo : phase \in {"recover", "reconcile"} => Ready(r)
    BY <2>1, RetriedFacts DEF IInv, PassInv, TypeOK, Unfinished
  <2>5. QED
    BY <2>2, <2>3, <2>4 DEF CrashInAppend
<1>2. PICK r \in Runs, s \in RunStates : Torn(r, s)
  BY <1>1
<1>3. TypeOK /\ Dies /\ \A q \in Runs : RunInv(q) /\ view'[q] = NoView
  BY DEF IInv, CrashInAppend, Dies
<1>4. disk' \in [Runs -> DiskRecords] /\ \A q \in Runs : q # r => disk'[q] = disk[q]
  BY <1>2, <1>3, TornFacts
<1>5. RunInv(r)'
  BY <1>2, <1>3, TornKeeps
<1>6. \A q \in Runs : q # r => RunInv(q)'
  BY <1>3, <1>4, ForgottenRun
<1>7. QED
  BY <1>3, <1>4, <1>5, <1>6, DiesKeeps

LEMMA InitEstablishes == Init => IInv
<1> SUFFICES ASSUME Init PROVE IInv
  OBVIOUS
<1>1. NoDisk \in DiskRecords /\ NoView \in ViewRecords /\ NoView.state = "none"
      /\ NoDisk.stage = "absent" /\ NoDisk.attempts = 0 /\ NoDisk.state = "none"
      /\ NoDisk.result = "none"
  <2>1. NoCode \in Codes
    BY DEF NoCode, Codes
  <2>2. NoReport \in Reports
    BY DEF NoReport, Reports
  <2>3. QED
    BY <2>1, <2>2 DEF NoDisk, NoView, DiskRecords, ViewRecords
<1>2. queue \in Seq(Runs) /\ Len(queue) = 0
  BY EmptySeq DEF Init
<1>3. TypeOK
  BY <1>1, <1>2, IdleTyped, PlagiarismConstants DEF Init, TypeOK
<1>4. \A r \in Runs : RunInv(r)
  BY <1>1, PlagiarismConstants DEF Init, RunInv, Ready, Cached
<1>5. \A w \in Workers : At(w, "idle") /\ Job(w) = None
  BY IdleFields DEF Init, At, Job
<1>6. \A w \in Workers : WorkerInv(w) /\ ExecInv(w)
  BY <1>5 DEF WorkerInv, ExecInv, At
<1>7. LedgerInv
  BY DEF Init, LedgerInv
<1>8. 1..Len(queue) = {}
  BY <1>2
<1>9. QueueInv /\ IndexInv
  BY <1>1, <1>5, <1>8 DEF Init, QueueInv, IndexInv, Cached
<1>10. PassInv
  BY <1>1, <1>5 DEF Init, PassInv
<1>11. QED
  BY <1>3, <1>4, <1>6, <1>7, <1>9, <1>10 DEF IInv

LEMMA StutteringKeeps ==
  ASSUME IInv, UNCHANGED vars
  PROVE  IInv'
<1>1. UNCHANGED <<disk, view, latest, queue, thread, phase, todo, requeued, ledger,
                  published, calls, crashes, faults>>
  BY DEF vars, index, pass, reviews, bounds
<1>2. TypeOK /\ TypeOK'
  BY <1>1 DEF IInv, TypeOK
<1>3. \A r \in Runs : RunInv(r)'
  BY <1>1, RunFrame DEF IInv
<1>4. ReviewsGrow /\ LedgerInv'
  BY <1>1, ReviewsStay
<1>5. ASSUME NEW w \in Workers PROVE WorkerInv(w)' /\ ExecInv(w)'
  <2>1. WorkerInv(w)'
    BY <1>1, WorkerFrame DEF IInv
  <2>2. ExecInv(w)'
    BY <1>1, <1>2, <1>4, ExecFrame DEF IInv
  <2>3. QED
    BY <2>1, <2>2
<1>6. QueueInv'
  BY <1>1 DEF IInv, QueueInv, Waiting, Ready, Cached, Job
<1>7. IndexInv'
  BY <1>1, IndexStays DEF IInv
<1>8. PassInv'
  <2>1. phase # "down" => \A q \in Runs : Indexed(q)'
    BY <1>1, <1>2, IndexedStays DEF IInv, PassInv, Cached
  <2>2. QED
    BY <1>1, <2>1 DEF IInv, PassInv, Unfinished, Ready, Cached, Retried, At
<1>9. QED
  BY <1>2, <1>3, <1>4, <1>5, <1>6, <1>7, <1>8 DEF IInv

LEMMA StepKeeps == IInv /\ [Next]_vars => IInv'
<1> SUFFICES ASSUME IInv, [Next]_vars PROVE IInv'
  OBVIOUS
<1>1. ASSUME NEW r \in Runs, Create(r) \/ Get(r) PROVE IInv'
  BY <1>1, CreateKeeps, GetKeeps
<1>2. ASSUME NEW w \in Workers, Frame(w) PROVE IInv'
  BY <1>2, TakeKeeps, PreparingKeeps, RunningKeeps, RequestInvalidKeeps, FinalizingKeeps,
     CreateResultKeeps, CloseResultKeeps, CompletedKeeps, FailedKeeps DEF Frame
<1>3. ASSUME NEW w \in Workers, Execute(w) PROVE IInv'
  BY <1>3, LoadKeeps, LookupKeeps, AnswerKeeps, ReviewFailsKeeps, RecordKeeps, PublishKeeps,
     ReturnKeeps DEF Execute
<1>4. ASSUME Pass PROVE IInv'
  BY <1>4, StartKeeps, RecoverEndsKeeps, ReconcileBeginsKeeps, ReconcileEndsKeeps,
     RecoverRunKeeps, ReconcileRunKeeps DEF Pass
<1>5. ASSUME Fault PROVE IInv'
  BY <1>5, CreateFailsKeeps, ReconcileFailsKeeps, AppendFailsKeeps, ResultFailsKeeps DEF Fault
<1>6. ASSUME Death PROVE IInv'
  BY <1>6, CrashKeeps, CrashInAppendKeeps, CrashInCreateKeeps DEF Death
<1>7. CASE UNCHANGED vars
  BY <1>7, StutteringKeeps
<1>8. QED
  BY <1>1, <1>2, <1>3, <1>4, <1>5, <1>6, <1>7 DEF Next

(* What the invariant says holds in every state.                           *)
THEOREM Invariance == Spec => []IInv
BY InitEstablishes, StepKeeps, PTL DEF Spec

(* Every variable has its type, for any number of runs, candidates and     *)
(* threads; the ledger holds conclusive reviews only.                      *)
THEOREM Typed == Spec => []TypeOK
<1>1. IInv => TypeOK
  BY DEF IInv
<1>2. QED
  BY <1>1, Invariance, PTL

(* A result tells of every candidate pair or counts it as failed, through  *)
(* conflicts, retries, deaths and recoveries (execute and _execute).       *)
THEOREM ReportsAccount == Spec => []ReportAccountsForCandidates
<1>1. IInv => ReportAccountsForCandidates
  BY DEF IInv, RunInv, Accounts, Untold, ReportAccountsForCandidates
<1>2. QED
  BY <1>1, Invariance, PTL

(* latest answers with the newest readable run of a submission, whatever   *)
(* the order in which _remember has met the runs.                          *)
THEOREM LatestAnswersNewest == Spec => []LatestIsNewest
<1>1. IInv => LatestIsNewest
  <2> SUFFICES ASSUME IInv, Serving, NEW r \in Runs, Ready(r), Readable(r), ~CreationRaised(r)
               PROVE  \/ latest[Target[r]] = r
                      \/ latest[Target[r]] # None /\ Newer(disk, latest[Target[r]], r)
    BY DEF LatestIsNewest
  <2> DEFINE n == latest[Target[r]]
  <2>1. Cached(r)
    BY DEF IInv, PassInv, Serving, Indexed
  <2>2. n # None /\ ~Newer(disk, r, n)
    BY <2>1 DEF IInv, IndexInv
  <2>3. n \in Runs
    BY <2>2, PlagiarismConstants DEF IInv, TypeOK
  <2>4. disk[n].created \in Nat /\ disk[r].created \in Nat /\ Rank[n] \in Nat /\ Rank[r] \in Nat
    BY <2>3, PlagiarismConstants DEF IInv, TypeOK, DiskRecords
  <2>5. n = r \/ Rank[n] # Rank[r]
    BY <2>3, PlagiarismConstants
  <2> HIDE DEF n
  <2>6. n = r \/ Newer(disk, n, r)
    BY <2>2, <2>4, <2>5 DEF Newer
  <2>7. QED
    BY <2>2, <2>6 DEF n
<1>2. QED
  BY <1>1, Invariance, PTL

-----------------------------------------------------------------------------
(* The service implements RunLifecycle.                                    *)

StatusMap == [r \in Runs |-> Status(r)]
TriesMap  == [r \in Runs |-> disk[r].attempts]

(* The moves that RunLifecycle allows one request.                         *)
Moved(q) ==
  \/ Status(q)' = Status(q) /\ disk'[q].attempts = disk[q].attempts
  \/ /\ Status(q) = "waiting" /\ Status(q)' \in {"waiting", "active"}
     /\ disk[q].attempts < MaxRunAttempts
     /\ disk'[q].attempts = disk[q].attempts + 1
  \/ /\ disk'[q].attempts = disk[q].attempts
     /\ \/ Status(q) = "absent" /\ Status(q)' = "waiting"
        \/ Status(q) = "active" /\ Status(q)' = "completed"
        \/ Status(q) \in {"waiting", "active"} /\ Status(q)' \in {"retryable", "rejected"}
        \/ /\ Status(q) = "retryable" /\ Status(q)' = "waiting"
           /\ disk[q].attempts < MaxRunAttempts
        \/ Status(q) = "retryable" /\ Status(q)' = "completed"

LEMMA MovesAreAllowed ==
  ASSUME TypeOK, TypeOK', \A q \in Runs : Moved(q)
  PROVE  [Lifecycle!Next]_<<StatusMap, TriesMap>>
<1>1. ASSUME NEW q \in Runs
      PROVE  /\ Lifecycle!Statuses =
                  {"absent", "waiting", "active", "retryable", "rejected", "completed"}
             /\ Status(q)' \in Lifecycle!Statuses /\ disk'[q].attempts \in Nat
  BY DEF Lifecycle!Statuses, Status, TypeOK, DiskRecords
<1>2. /\ StatusMap' \in [Runs -> Lifecycle!Statuses] /\ TriesMap' \in [Runs -> Nat]
      /\ \A q \in Runs : /\ StatusMap[q] = Status(q) /\ StatusMap'[q] = Status(q)'
                         /\ TriesMap[q] = disk[q].attempts
                         /\ TriesMap'[q] = disk'[q].attempts
  BY <1>1 DEF StatusMap, TriesMap
<1>3. ASSUME NEW q \in Runs
      PROVE  \/ Lifecycle!Accept(q) \/ Lifecycle!Attempt(q) \/ Lifecycle!Complete(q)
             \/ Lifecycle!Fail(q) \/ Lifecycle!Requeue(q) \/ Lifecycle!Salvage(q)
             \/ Lifecycle!Rests(q)
  <2>1. Moved(q)
    OBVIOUS
  <2>2. QED
    BY <1>2, <2>1
       DEF Moved, StatusMap, TriesMap, Lifecycle!Move, Lifecycle!Untried, Lifecycle!Failures,
           Lifecycle!Accept, Lifecycle!Attempt, Lifecycle!Complete, Lifecycle!Fail,
           Lifecycle!Requeue, Lifecycle!Salvage, Lifecycle!Rests
<1>4. QED
  BY <1>2, <1>3 DEF Lifecycle!Next, StatusMap, TriesMap

(* A run that a step leaves alone rests.                                   *)
LEMMA Rests ==
  ASSUME NEW r \in Runs, disk'[r] = disk[r], InDoubt(r)' <=> InDoubt(r)
  PROVE  Moved(r)
BY DEF Moved, Status, Ready

(* No thread with another run changes.                                     *)
LEMMA DoubtIsTheThreads ==
  ASSUME IInv, NEW w \in Workers, ~At(w, "idle"), NEW q \in Runs, q = Job(w),
         \A v \in Workers : v # w => thread'[v] = thread[v],
         Job(w)' \in {q, None}
  PROVE  /\ \A r \in Runs : r # q => (InDoubt(r)' <=> InDoubt(r))
         /\ InDoubt(q) <=> At(w, "failing")
         /\ InDoubt(q)' <=> At(w, "failing")' /\ Job(w)' = q
<1>1. \A v \in Workers : v # w => thread[v].run # q
  BY NoneIsNothing DEF IInv, QueueInv, Job
<1>2. ASSUME NEW r \in Runs, r # q PROVE InDoubt(r)' <=> InDoubt(r)
  BY <1>1, <1>2, NoneIsNothing DEF InDoubt, Job, At
<1>3. InDoubt(q) <=> At(w, "failing")
  BY <1>1 DEF InDoubt, Job, At
<1>4. InDoubt(q)' <=> At(w, "failing")' /\ Job(w)' = q
  BY <1>1 DEF InDoubt, Job, At
<1>5. QED
  BY <1>2, <1>3, <1>4

(* An event moves the status of its run to where its state belongs.        *)
LEMMA EventStatus ==
  ASSUME TypeOK, NEW q \in Runs, Ready(q), NEW s \in RunStates, NEW c \in Codes,
         WriteEvent(q, s, c)
  PROVE  /\ disk'[q].attempts = Attempts(q, s)
         /\ s = "queued" => Status(q)' = "waiting"
         /\ s \in ActiveStates => Status(q)' = "active"
         /\ s = "completed" => Status(q)' = IF InDoubt(q)' THEN "active" ELSE "completed"
         /\ s = "failed" => Status(q)' \in {"retryable", "rejected"}
<1>1. /\ disk'[q].state = s /\ disk'[q].code = c /\ disk'[q].stage = "ready"
      /\ disk'[q].attempts = Attempts(q, s)
  BY WriteFacts DEF Ready
<1>2. QED
  BY <1>1 DEF Status, Ready, ActiveStates

(* An event cut short moves nothing, but may count as an attempt.          *)
LEMMA TornStatus ==
  ASSUME TypeOK, NEW q \in Runs, NEW s, TornEvent(q, s), InDoubt(q)' <=> InDoubt(q)
  PROVE  /\ Status(q)' = Status(q)
         /\ disk'[q].attempts = Attempts(q, s)
<1>1. /\ disk'[q].state = disk[q].state /\ disk'[q].code = disk[q].code
      /\ disk'[q].stage = disk[q].stage /\ disk'[q].attempts = Attempts(q, s)
  BY TornFacts
<1>2. QED
  BY <1>1 DEF Status, Ready

(* The status of a run that is not in doubt, read off its log.             *)
LEMMA ReadyStatus ==
  ASSUME NEW q \in Runs, Ready(q)
  PROVE  /\ disk[q].state = "queued" => Status(q) = "waiting"
         /\ disk[q].state \in ActiveStates => Status(q) = "active"
         /\ disk[q].state = "completed" =>
              Status(q) = IF InDoubt(q) THEN "active" ELSE "completed"
BY DEF Status, Ready, ActiveStates

Simulated == [Lifecycle!Next]_<<StatusMap, TriesMap>>

LEMMA SameDiskSimulates ==
  ASSUME TypeOK, TypeOK', UNCHANGED disk, \A r \in Runs : InDoubt(r)' <=> InDoubt(r)
  PROVE  Simulated
BY Rests, MovesAreAllowed DEF Simulated

(* A step that touches the directory of one run.                           *)
LEMMA OneMoves ==
  ASSUME TypeOK, TypeOK', NEW q \in Runs, Moved(q),
         \A r \in Runs : r # q => disk'[r] = disk[r] /\ (InDoubt(r)' <=> InDoubt(r))
  PROVE  Simulated
<1>1. \A r \in Runs : Moved(r)
  BY Rests
<1>2. QED
  BY <1>1, MovesAreAllowed DEF Simulated

(* A request is accepted when its directory is complete, even if nobody    *)
(* answered it.                                                            *)
LEMMA CreationMoves ==
  ASSUME IInv, NEW q \in Runs, HalfCreated(q) \/ MakeDirectory(q, "ready")
  PROVE  Moved(q)
<1>1. /\ disk[q].stage = "absent" /\ disk[q].attempts = 0 /\ disk'[q].attempts = 0
      /\ disk'[q].stage \in {"partial", "unready", "ready"}
      /\ disk'[q].stage # "partial" => disk'[q].state = "queued"
  BY CreationFacts DEF IInv, RunInv
<1>2. QED
  BY <1>1 DEF Moved, Status, Ready, ActiveStates

LEMMA ApiSimulates ==
  ASSUME IInv, IInv', NEW q \in Runs, Create(q) \/ Get(q) \/ CreateFails(q)
  PROVE  Simulated
<1>1. TypeOK /\ TypeOK' /\ \A r \in Runs : InDoubt(r)' <=> InDoubt(r)
  BY DEF Create, Get, CreateFails, IInv, InDoubt, At, Job
<1>2. CASE Get(q)
  BY <1>1, <1>2, SameDiskSimulates DEF Get
<1>3. CASE Create(q) \/ CreateFails(q)
  <2>1. HalfCreated(q) \/ MakeDirectory(q, "ready")
    BY <1>3 DEF Create, CreateFails
  <2>2. QED
    BY <1>1, <2>1, CreationFacts, CreationMoves, OneMoves
<1>4. QED
  BY <1>2, <1>3

(* A thread that appends an event moves its own run.                       *)
LEMMA WorkerMoves ==
  ASSUME IInv, NEW w \in Workers, NEW q \in Runs, q = Job(w), ~At(w, "idle"),
         Ready(q), JobAt(thread[w].pc, q), RunInv(q),
         \/ Preparing(w) \/ Running(w) \/ Finalizing(w) \/ Completed(w) \/ Failed(w)
         \/ CreateResult(w) \/ CloseResult(w) \/ AppendFails(w) \/ ResultFails(w),
         InDoubt(q) <=> At(w, "failing"),
         InDoubt(q)' <=> At(w, "failing")' /\ Job(w)' = q
  PROVE  Moved(q)
<1>1. TypeOK /\ disk[q].attempts \in Nat /\ thread[w].code \in Codes
  BY ThreadFields DEF IInv, TypeOK, DiskRecords
<1>2. /\ NoCode \in Codes
      /\ {"preparing", "running", "finalizing", "completed", "failed"} \subseteq RunStates
      /\ {"preparing", "running", "finalizing"} = ActiveStates
  BY DEF Codes, RunStates, ActiveStates
<1>3. /\ Attempts(q, "preparing") = disk[q].attempts + 1
      /\ \A s \in {"running", "finalizing", "completed", "failed"} :
           Attempts(q, s) = disk[q].attempts
  BY <1>1, AttemptsNat
<1>4. /\ At(w, "taken") => Status(q) = "waiting" /\ disk[q].attempts < MaxRunAttempts
      /\ thread[w].pc \in {"prepared", "executed", "finalized", "writing", "written"} =>
           Status(q) = "active"
      /\ At(w, "failing") => Status(q) \in {"waiting", "active"}
  BY <1>2, ReadyStatus DEF JobAt, RunInv, At
<1>5. CASE Preparing(w)
  BY <1>1, <1>2, <1>3, <1>4, <1>5, EventStatus DEF Preparing, AppendEvent, Moved
<1>6. CASE Running(w) \/ Finalizing(w)
  BY <1>1, <1>2, <1>3, <1>4, <1>6, EventStatus DEF Running, Finalizing, AppendEvent, Moved, At
<1>7. CASE Completed(w)
  <2>1. ~InDoubt(q)'
    BY <1>1, <1>7, IdleTyped, SetFacts, IdleFields DEF Completed, At
  <2>2. QED
    BY <1>1, <1>2, <1>3, <1>4, <1>7, <2>1, EventStatus DEF Completed, AppendEvent, Moved, At
<1>8. CASE Failed(w)
  BY <1>1, <1>2, <1>3, <1>4, <1>8, EventStatus DEF Failed, AppendEvent, Moved
<1>9. CASE CreateResult(w) \/ CloseResult(w) \/ ResultFails(w)
  <2>1. /\ disk'[q].stage = disk[q].stage /\ disk'[q].state = disk[q].state
        /\ disk'[q].code = disk[q].code /\ disk'[q].attempts = disk[q].attempts
    <3>1. CASE UNCHANGED disk
      BY <3>1
    <3>2. CASE disk' = [disk EXCEPT ![q].result = "partial"]
      BY <1>1, <3>2 DEF TypeOK, DiskRecords
    <3>3. CASE disk' = [disk EXCEPT ![q] = [@ EXCEPT !.result = "good",
                                                     !.report = thread[w].report]]
      BY <1>1, <3>3 DEF TypeOK, DiskRecords
    <3>4. QED
      BY <1>9, <3>1, <3>2, <3>3 DEF CreateResult, CloseResult, ResultFails, WriteReport
  <2>2. disk[q].state = "finalizing"
    BY <1>9 DEF CreateResult, CloseResult, ResultFails, WriteReport, JobAt, At
  <2>3. Status(q) = "active" /\ Status(q)' = "active"
    BY <1>2, <2>1, <2>2 DEF Status, Ready
  <2>4. QED
    BY <2>1, <2>3 DEF Moved
<1>10. CASE AppendFails(w)
  <2>1. thread[w].pc \in {"taken", "prepared", "executed", "written", "failing"}
    BY <1>10 DEF AppendFails, PendingEvent
  <2> DEFINE s == PendingEvent[thread[w].pc]
             c == thread[w].code
  <2>2. UNCHANGED disk \/ TornEvent(q, s) \/ WriteEvent(q, s, c)
    BY <1>10 DEF AppendFails, EventFails
  <2>3. /\ s \in {"preparing", "running", "finalizing", "completed", "failed"}
        /\ s \in RunStates /\ c \in Codes
        /\ s = "preparing" <=> At(w, "taken")
        /\ s = "completed" <=> At(w, "written")
        /\ s = "failed" <=> At(w, "failing")
    BY <1>1, <1>2, <2>1 DEF PendingEvent, At
  <2> HIDE DEF s, c
  <2>4. InDoubt(q)' <=> ~At(w, "failing")
    <3>1. CASE At(w, "failing")
      BY <1>1, <1>10, <3>1, GotoFacts DEF AppendFails, At, PcLabels
    <3>2. CASE ~At(w, "failing")
      BY <1>1, <1>10, <3>2, RaiseFacts, ExecutionFailedIsCode DEF AppendFails, At, Job
    <3>3. QED
      BY <3>1, <3>2
  <2>5. CASE WriteEvent(q, s, c)
    BY <1>1, <1>2, <1>3, <1>4, <2>1, <2>3, <2>4, <2>5, EventStatus DEF Moved, At
  <2>6. ASSUME disk'[q].stage = disk[q].stage, disk'[q].state = disk[q].state,
               disk'[q].code = disk[q].code
        PROVE  \/ Status(q)' = Status(q)
               \/ Status(q) = "active" /\ Status(q)' = "completed"
    <3>1. disk[q].state = "completed" => InDoubt(q)
      BY <1>2, <2>1 DEF JobAt, At
    <3>2. CASE disk[q].state = "completed"
      BY <1>2, <2>6, <3>1, <3>2 DEF Status, Ready
    <3>3. CASE disk[q].state # "completed"
      BY <2>6, <3>3 DEF Status, Ready
    <3>4. QED
      BY <3>2, <3>3
  <2>7. CASE UNCHANGED disk
    BY <2>6, <2>7 DEF Moved
  <2>8. CASE TornEvent(q, s)
    <3>1. At(w, "taken") => disk[q].state = "queued"
      BY DEF JobAt, At
    <3>2. \/ Status(q)' = Status(q)
          \/ Status(q) = "active" /\ Status(q)' = "completed"
      BY <1>1, <2>6, <2>8, TornFacts
    <3>3. disk'[q].attempts = Attempts(q, s)
      BY <1>1, <2>8, TornFacts
    <3>4. QED
      BY <1>3, <1>4, <2>3, <3>2, <3>3 DEF Moved
  <2>9. QED
    BY <2>2, <2>5, <2>7, <2>8
<1>11. QED
  BY <1>5, <1>6, <1>7, <1>8, <1>9, <1>10

(* The directories of other runs are left alone.                           *)
LEMMA OtherRunKept ==
  ASSUME TypeOK, NEW q \in Runs,
         \/ \E s, c : WriteEvent(q, s, c)
         \/ \E s : TornEvent(q, s)
         \/ \E s, c : AppendEvent(q, s, c)
         \/ \E s, c : EventFails(q, s, c)
  PROVE  \A r \in Runs : r # q => disk'[r] = disk[r]
BY DEF TypeOK, WriteEvent, TornEvent, AppendEvent, EventFails

(* Of a thread that has a run: what it leaves of it, and of the others.    *)
LEMMA OwnStep ==
  ASSUME TypeOK, NEW w \in Workers,
         \/ Frame(w) /\ ~Take(w)
         \/ AppendFails(w) \/ ResultFails(w) \/ Execute(w)
  PROVE  /\ ~At(w, "idle") /\ Job(w)' \in {Job(w), None}
         /\ \A v \in Workers : v # w => thread'[v] = thread[v]
<1>1. \A t : Set(w, t) => thread'[w] = t /\ \A v \in Workers : v # w => thread'[v] = thread[v]
  BY DEF Set, TypeOK
<1>2. \E t : Set(w, t) /\ t.run \in {Job(w), None}
  <2>1. Idle.run = None
    BY IdleFields
  <2>2. ASSUME NEW label, Goto(w, label) PROVE \E t : Set(w, t) /\ t.run = Job(w)
    BY <2>2, ThreadFields DEF Goto, Job, Threads
  <2>3. ASSUME NEW c, Raise(w, c) PROVE \E t : Set(w, t) /\ t.run = Job(w)
    <3> DEFINE t == [Idle EXCEPT !.pc = "failing", !.run = Job(w), !.code = c]
    <3>1. t.run = Job(w)
      BY IdleTyped DEF Threads
    <3>2. Set(w, t)
      BY <2>3 DEF Raise
    <3> HIDE DEF t
    <3>3. QED
      BY <3>1, <3>2
  <2>4. CASE Frame(w) /\ ~Take(w)
    BY <2>1, <2>2, <2>3, <2>4
       DEF Frame, Preparing, Running, RequestInvalid, Finalizing, CreateResult, CloseResult,
           Completed, Failed
  <2>5. CASE AppendFails(w) \/ ResultFails(w)
    BY <2>2, <2>3, <2>5 DEF AppendFails, ResultFails
  <2>6. CASE Execute(w)
    <3>1. thread[w] \in Threads
      BY ThreadFields
    <3>2. ASSUME NEW t, Set(w, t), t.run = thread[w].run
          PROVE  \E u : Set(w, u) /\ u.run = Job(w)
      BY <3>2 DEF Job
    <3>3. \A v : [thread[w] EXCEPT !.pc = "publish", !.review = v].run = thread[w].run
      BY <3>1 DEF Threads
    <3>4. \A l, v : [thread[w] EXCEPT !.pc = l, !.review = v].run = thread[w].run
      BY <3>1 DEF Threads
    <3>5. [NextCandidate(thread[w]) EXCEPT !.failed = @ + 1].run = thread[w].run
      BY <3>1 DEF NextCandidate, Threads
    <3>6. [NextCandidate(thread[w]) EXCEPT !.reviewed = @ + 1].run = thread[w].run
      BY <3>1 DEF NextCandidate, Threads
    <3>7. \A v : [thread[w] EXCEPT !.pc = "executed", !.report = v].run = thread[w].run
      BY <3>1 DEF Threads
    <3> DEFINE Steps == \/ \E label : Goto(w, label)
                        \/ \E c : Raise(w, c)
                        \/ \E t : Set(w, t) /\ t.run = thread[w].run
    <3>8. Steps
      <4>1. CASE Load(w) \/ Record(w)
        BY <4>1 DEF Load, Record
      <4>2. CASE Lookup(w)
        BY <3>3, <4>2 DEF Lookup
      <4>3. CASE Answer(w)
        BY <3>4, <4>3 DEF Answer
      <4>4. CASE ReviewFails(w)
        BY <3>5, <4>4 DEF ReviewFails
      <4>5. CASE Publish(w)
        BY <3>6, <4>5 DEF Publish
      <4>6. CASE Return(w)
        BY <3>7, <4>6 DEF Return
      <4>7. QED
        BY <2>6, <4>1, <4>2, <4>3, <4>4, <4>5, <4>6 DEF Execute
    <3>9. QED
      BY <2>2, <2>3, <3>2, <3>8
  <2>7. QED
    BY <2>4, <2>5, <2>6
<1>3. ~At(w, "idle")
  BY DEF Frame, Preparing, Running, RequestInvalid, Finalizing, CreateResult, CloseResult,
         Completed, Failed, AppendFails, ResultFails, WriteReport, PendingEvent, Execute, Load,
         Lookup, Answer, ReviewFails, Record, Publish, Return, At
<1>4. QED
  BY <1>1, <1>2, <1>3 DEF Job

LEMMA WorkerSimulates ==
  ASSUME IInv, IInv', NEW w \in Workers,
         Frame(w) \/ AppendFails(w) \/ ResultFails(w) \/ Execute(w)
  PROVE  Simulated
<1>1. TypeOK /\ TypeOK'
  BY DEF IInv
<1>2. CASE Take(w)
  <2>1. \A r \in Runs : InDoubt(r)' <=> InDoubt(r)
    <3>1. /\ thread[w].pc = "idle" /\ thread'[w].pc = "taken"
          /\ \A v \in Workers : v # w => thread'[v] = thread[v]
      BY <1>1, <1>2 DEF Take, Set, At, TypeOK, Idle
    <3>2. QED
      BY <3>1 DEF InDoubt, At, Job
  <2>2. QED
    BY <1>1, <1>2, <2>1, SameDiskSimulates DEF Take
<1>3. CASE ~Take(w)
  <2>1. /\ ~At(w, "idle") /\ Job(w)' \in {Job(w), None}
        /\ \A v \in Workers : v # w => thread'[v] = thread[v]
    BY <1>1, <1>3, OwnStep
  <2>2. PICK q \in Runs : /\ q = Job(w) /\ Ready(q) /\ JobAt(thread[w].pc, q) /\ RunInv(q)
    BY <2>1, Busy
  <2>3. /\ \A r \in Runs : r # q => (InDoubt(r)' <=> InDoubt(r))
        /\ InDoubt(q) <=> At(w, "failing")
        /\ InDoubt(q)' <=> At(w, "failing")' /\ Job(w)' = q
    BY <2>1, <2>2, DoubtIsTheThreads
  <2>4. CASE RequestInvalid(w) \/ Execute(w)
    <3>1. UNCHANGED disk
      BY <2>4 DEF RequestInvalid, Execute, Load, Lookup, Answer, ReviewFails, Record, Publish,
                  Return, Outside
    <3>2. disk[q].state \in {"preparing", "running"}
      BY <2>2, <2>4 DEF RequestInvalid, Execute, Load, Lookup, Answer, ReviewFails, Record,
                        Publish, Return, JobAt, At
    <3>3. Moved(q)
      BY <3>1, <3>2 DEF Moved, Status, Ready, ActiveStates
    <3>4. QED
      BY <1>1, <2>3, <3>1, <3>3, OneMoves
  <2>5. CASE ~(RequestInvalid(w) \/ Execute(w))
    <3>1. Moved(q)
      BY <1>3, <2>1, <2>2, <2>3, <2>5, WorkerMoves DEF Frame
    <3>2. \A r \in Runs : r # q => disk'[r] = disk[r]
      <4>1. CASE CreateResult(w) \/ CloseResult(w) \/ ResultFails(w)
        BY <1>1, <2>2, <4>1 DEF CreateResult, CloseResult, ResultFails, WriteReport, TypeOK
      <4>2. CASE \/ Preparing(w) \/ Running(w) \/ Finalizing(w) \/ Completed(w) \/ Failed(w)
                 \/ AppendFails(w)
        BY <1>1, <2>2, <4>2, OtherRunKept
           DEF Preparing, Running, Finalizing, Completed, Failed, AppendFails
      <4>3. QED
        BY <1>3, <2>5, <4>1, <4>2 DEF Frame
    <3>3. QED
      BY <1>1, <2>3, <3>1, <3>2, OneMoves
  <2>6. QED
    BY <2>4, <2>5
<1>4. QED
  BY <1>2, <1>3

(* The recovery settles interrupted runs, and no run is in doubt then.     *)
LEMMA RecoverRunSimulates ==
  ASSUME IInv, IInv', NEW q \in Runs, RecoverRun(q)
  PROVE  Simulated
<1>1. /\ TypeOK /\ TypeOK' /\ Ready(q)
      /\ \A r \in Runs : ~InDoubt(r) /\ ~InDoubt(r)'
  BY DEF IInv, PassInv, RecoverRun, Unfinished, InDoubt, At, Job
<1>2. ASSUME disk[q].state \in ActiveStates,
             NEW s \in {"completed", "failed"}, NEW c \in Codes, AppendEvent(q, s, c)
      PROVE  Simulated
  <2>1. Status(q) = "active" /\ s \in RunStates
    BY <1>1, <1>2, ReadyStatus DEF RunStates
  <2>2. /\ Status(q)' \in {"completed", "retryable", "rejected"}
        /\ disk'[q].attempts = disk[q].attempts
    BY <1>1, <1>2, <2>1, EventStatus, AttemptsNat DEF AppendEvent
  <2>3. Moved(q)
    BY <2>1, <2>2 DEF Moved
  <2>4. \A r \in Runs : r # q => disk'[r] = disk[r]
    BY <1>1, <1>2, OtherRunKept
  <2>5. QED
    BY <1>1, <2>3, <2>4, OneMoves
<1>3. {NoCode, "PLAGIARISM_RESULT_RECORD_INVALID", "JOB_LOST"} \subseteq Codes
  BY DEF Codes, RetryableFailures
<1>4. CASE RecoverFinished(q)
  BY <1>2, <1>3, <1>4
     DEF RecoverFinished, HasPersistedResult, RecoverPersistedResult, ActiveStates
<1>5. CASE RecoverLost(q)
  BY <1>2, <1>3, <1>5 DEF RecoverLost
<1>6. CASE RecoverQueued(q)
  BY <1>1, <1>6, SameDiskSimulates DEF RecoverQueued
<1>7. QED
  BY <1>4, <1>5, <1>6 DEF RecoverRun

(* What the reconciliation looks at has failed, or is what an interrupted  *)
(* reconciliation made of it.                                              *)
LEMMA ReconciledStatus ==
  ASSUME IInv, NEW q \in Runs, Retried(q)
  PROVE  /\ Ready(q) /\ ~InDoubt(q) /\ disk[q].result \in {"none", "good"}
         /\ disk[q].result = "none" =>
              /\ Status(q) \in {"retryable", "waiting"}
              /\ disk[q].attempts < MaxRunAttempts
         /\ disk[q].result = "good" => Status(q) \in {"retryable", "completed"}
<1>1. /\ RunInv(q) /\ Ready(q) /\ disk[q].result \in {"none", "good"}
      /\ view[q].code \in RetryableFailures
      /\ disk[q].state \in {"failed", "queued", "completed"}
      /\ disk[q].state = "failed" => disk[q].code = view[q].code
      /\ disk[q].result = "none" => disk[q].attempts < MaxRunAttempts
      /\ \A w \in Workers : Job(w) # q
  BY RetriedFacts
<1>2. ~InDoubt(q)
  BY <1>1 DEF InDoubt
<1>3. CASE disk[q].state = "failed"
  BY <1>1, <1>2, <1>3 DEF Status, Ready, ActiveStates
<1>4. CASE disk[q].state \in {"queued", "completed"}
  BY <1>1, <1>2, <1>4, ReadyStatus DEF RunInv
<1>5. QED
  BY <1>1, <1>2, <1>3, <1>4

LEMMA ReconciliationMoves ==
  ASSUME IInv, NEW q \in Runs, Retried(q), ~InDoubt(q)',
         \/ disk[q].result = "none" /\ WriteEvent(q, "queued", NoCode)
         \/ disk[q].result = "good" /\ WriteEvent(q, "completed", NoCode)
         \/ \E s \in {"queued", "completed"} : TornEvent(q, s)
         \/ UNCHANGED disk
  PROVE  Moved(q)
<1>1. /\ TypeOK /\ Ready(q) /\ ~InDoubt(q)
      /\ disk[q].result = "none" =>
           Status(q) \in {"retryable", "waiting"} /\ disk[q].attempts < MaxRunAttempts
      /\ disk[q].result = "good" => Status(q) \in {"retryable", "completed"}
      /\ NoCode \in Codes /\ {"completed", "queued"} \subseteq RunStates
      /\ Attempts(q, "queued") = disk[q].attempts
      /\ Attempts(q, "completed") = disk[q].attempts
  BY ReconciledStatus, AttemptsNat DEF IInv, Codes, RunStates
<1>2. CASE disk[q].result = "none" /\ WriteEvent(q, "queued", NoCode)
  BY <1>1, <1>2, EventStatus DEF Moved
<1>3. CASE disk[q].result = "good" /\ WriteEvent(q, "completed", NoCode)
  BY <1>1, <1>3, EventStatus DEF Moved
<1>4. CASE \E s \in {"queued", "completed"} : TornEvent(q, s)
  BY <1>1, <1>4, TornStatus DEF Moved
<1>5. CASE UNCHANGED disk
  BY <1>1, <1>5, Rests
<1>6. QED
  BY <1>2, <1>3, <1>4, <1>5

LEMMA ReconciliationSimulates ==
  ASSUME IInv, IInv', NEW q \in Runs, ReconcileRun(q) \/ ReconcileFails(q)
  PROVE  Simulated
<1>1. /\ TypeOK /\ TypeOK' /\ Retried(q)
      /\ \A r \in Runs : InDoubt(r)' <=> InDoubt(r)
  BY DEF IInv, PassInv, ReconcileRun, ReconcileFails, InDoubt, At, Job
<1>2. ~InDoubt(q)' /\ disk[q].result \in {"none", "good"}
  BY <1>1, ReconciledStatus
<1>3. CASE ReconcileRun(q)
  <2>1. \/ disk[q].result = "none" /\ AppendEvent(q, "queued", NoCode)
        \/ disk[q].result = "good" /\ AppendEvent(q, "completed", NoCode)
    BY <1>2, <1>3
       DEF ReconcileRun, ReconcileFinished, ReconcileFailed, RecoverPersistedResult
  <2>2. Moved(q)
    BY <1>1, <1>2, <2>1, ReconciliationMoves DEF AppendEvent
  <2>3. \A r \in Runs : r # q => disk'[r] = disk[r]
    BY <1>1, <2>1, OtherRunKept
  <2>4. QED
    BY <1>1, <2>2, <2>3, OneMoves
<1>4. CASE ReconcileFails(q)
  <2>1. Moved(q)
    BY <1>1, <1>2, <1>4, ReconciliationMoves DEF ReconcileFails, EventFails
  <2>2. \A r \in Runs : r # q => disk'[r] = disk[r]
    BY <1>1, <1>4, OtherRunKept DEF ReconcileFails
  <2>3. QED
    BY <1>1, <2>1, <2>2, OneMoves
<1>5. QED
  BY <1>3, <1>4

(* A death takes the doubt from completed runs: they are completed.        *)
LEMMA DoubtEnds ==
  ASSUME IInv, NEW r \in Runs, ~InDoubt(r)',
         disk'[r].stage = disk[r].stage, disk'[r].state = disk[r].state,
         disk'[r].code = disk[r].code, disk'[r].attempts = disk[r].attempts
  PROVE  Moved(r)
<1>1. CASE Ready(r) /\ disk[r].state = "completed"
  BY <1>1 DEF Moved, Status, Ready, ActiveStates
<1>2. CASE ~(Ready(r) /\ disk[r].state = "completed")
  BY <1>2 DEF Moved, Status, Ready
<1>3. QED
  BY <1>1, <1>2

LEMMA DeathSimulates ==
  ASSUME IInv, IInv', Death
  PROVE  Simulated
<1>1. TypeOK /\ TypeOK' /\ todo \subseteq Runs
  BY DEF IInv, TypeOK
<1>2. \A r \in Runs : ~InDoubt(r)'
  <2>1. \A w \in Workers : thread'[w] = Idle
    BY DEF Death, Crash, CrashInAppend, CrashInCreate, Dies
  <2>2. QED
    BY <2>1, IdleFields DEF InDoubt, At
<1>3. \A r \in Runs : disk'[r] = disk[r] => Moved(r)
  BY <1>2, DoubtEnds
<1>4. ASSUME NEW q \in Runs, Moved(q), \A r \in Runs : r # q => disk'[r] = disk[r]
      PROVE  Simulated
  BY <1>1, <1>3, <1>4, MovesAreAllowed DEF Simulated
<1>5. ASSUME NEW q \in Runs, NEW s, s # "preparing", TornEvent(q, s)
      PROVE  Simulated
  <2>1. Moved(q)
    BY <1>1, <1>2, <1>5, TornFacts, AttemptsNat, DoubtEnds
  <2>2. QED
    BY <1>1, <1>4, <1>5, <2>1, TornFacts
<1>6. CASE Crash
  BY <1>1, <1>3, <1>6, MovesAreAllowed DEF Crash, Simulated
<1>7. CASE CrashInCreate
  BY <1>4, <1>7, CreationFacts, CreationMoves DEF CrashInCreate
<1>8. CASE CrashInAppend
  <2>1. ASSUME NEW w \in Workers, thread[w].pc \in DOMAIN PendingEvent,
               TornEvent(Job(w), PendingEvent[thread[w].pc])
        PROVE  Simulated
    <3>1. /\ thread[w].pc \in {"taken", "prepared", "executed", "written", "failing"}
          /\ ~At(w, "idle")
      BY <2>1 DEF PendingEvent, At
    <3>2. PICK q \in Runs : /\ q = Job(w) /\ Ready(q) /\ JobAt(thread[w].pc, q) /\ RunInv(q)
      BY <3>1, Busy
    <3>3. CASE thread[w].pc = "taken"
      <4>1. PendingEvent[thread[w].pc] = "preparing"
        BY <3>3 DEF PendingEvent
      <4>2. /\ disk[q].state = "queued" /\ disk[q].attempts < MaxRunAttempts
            /\ Status(q) = "waiting"
        BY <3>2, <3>3, ReadyStatus DEF JobAt, RunInv
      <4>3. /\ disk'[q].stage = disk[q].stage /\ disk'[q].state = disk[q].state
            /\ disk'[q].attempts = disk[q].attempts + 1
        BY <1>1, <2>1, <3>2, <4>1, TornFacts, AttemptsNat
      <4>4. Moved(q)
        BY <3>2, <4>2, <4>3 DEF Moved, Status, Ready, ActiveStates
      <4>5. QED
        BY <1>1, <1>4, <2>1, <3>2, <4>4, TornFacts
    <3>4. CASE thread[w].pc # "taken"
      <4>1. PendingEvent[thread[w].pc] # "preparing"
        BY <3>1, <3>4 DEF PendingEvent
      <4>2. QED
        BY <1>5, <2>1, <3>2, <4>1
    <3>5. QED
      BY <3>3, <3>4
  <2>2. QED
    BY <1>1, <1>5, <1>8, <2>1 DEF CrashInAppend
<1>9. QED
  BY <1>6, <1>7, <1>8 DEF Death

LEMMA NextSimulates ==
  ASSUME IInv, IInv', [Next]_vars
  PROVE  Simulated
<1>1. TypeOK /\ TypeOK'
  BY DEF IInv
<1>2. CASE Pass
  <2>1. CASE Start \/ RecoverEnds \/ ReconcileBegins \/ ReconcileEnds
    <3>1. UNCHANGED disk /\ \A r \in Runs : InDoubt(r)' <=> InDoubt(r)
      BY <2>1 DEF Start, RecoverEnds, ReconcileBegins, ReconcileEnds, InDoubt, At, Job
    <3>2. QED
      BY <1>1, <3>1, SameDiskSimulates
  <2>2. QED
    BY <1>2, <2>1, RecoverRunSimulates, ReconciliationSimulates DEF Pass
<1>3. CASE UNCHANGED vars
  <2>1. UNCHANGED disk /\ \A r \in Runs : InDoubt(r)' <=> InDoubt(r)
    BY <1>3 DEF vars, InDoubt, At, Job
  <2>2. QED
    BY <1>1, <2>1, SameDiskSimulates
<1>4. CASE Fault
  BY <1>4, ApiSimulates, WorkerSimulates, ReconciliationSimulates DEF Fault
<1>5. QED
  BY <1>2, <1>3, <1>4, ApiSimulates, WorkerSimulates, DeathSimulates DEF Next

(* Whatever threads, conflicts, crashes and failing writes do, the log of  *)
(* a run only makes the moves of one bounded request.                      *)
THEOREM LifecycleIsImplemented == Spec => ImplementsLifecycle
<1>1. Init => Lifecycle!Init
  <2> SUFFICES ASSUME Init PROVE Lifecycle!Init
    OBVIOUS
  <2>1. \A r \in Runs : disk[r].stage = "absent" /\ disk[r].attempts = 0
    BY DEF Init, NoDisk
  <2>2. QED
    BY <2>1 DEF Lifecycle!Init, Status, Ready
<1>2. IInv /\ IInv' /\ [Next]_vars =>
        [Lifecycle!Next]_<<[r \in Runs |-> Status(r)], [r \in Runs |-> disk[r].attempts]>>
  BY NextSimulates DEF Simulated, StatusMap, TriesMap
<1>3. QED
  BY <1>1, <1>2, Invariance, PTL DEF Spec, ImplementsLifecycle, Lifecycle!Spec

-----------------------------------------------------------------------------
(* PlagiarismRuns implements VerdictRegister.                              *)

(* What is published of a key as final: the mapping of ImplementsRegister. *)
Finals(k) == {v \in published[k] : v.conclusive}

Reported == [k \in Keys |-> Finals(k)]

LEMMA SameFinals ==
  ASSUME UNCHANGED published
  PROVE  Reported' = Reported
  BY DEF Reported, Finals

LEMMA RecordImplements ==
  ASSUME IInv, NEW w \in Workers, Record(w)
  PROVE  [Register!Next]_<<ledger, Reported>>
<1>1. /\ ~At(w, "idle") /\ At(w, "record") /\ TypeOK /\ ExecInv(w) /\ UNCHANGED published
  BY DEF Record, At, IInv
<1> DEFINE k == Key(w)
           a == thread[w].review
<1>2. thread[w].pos <= Len(Candidates[Job(w)]) /\ a \in Reviews
  BY <1>1 DEF ExecInv, At, Job
<1>3. k \in Keys
  BY <1>1, <1>2, KeyOfPosition
<1>4. Reported' = Reported
  BY <1>1, SameFinals
<1>5. \/ UNCHANGED ledger
      \/ MayRecord(k, a) /\ ledger' = [ledger EXCEPT ![k] = a]
  BY DEF Record
<1> HIDE DEF k, a
<1>6. CASE UNCHANGED ledger
  BY <1>4, <1>6
<1>7. CASE MayRecord(k, a) /\ ledger' = [ledger EXCEPT ![k] = a]
  <2>1. ledger'[k] = a /\ (ledger[k] = a => ledger' = ledger)
    BY <1>1, <1>3, <1>7 DEF TypeOK
  <2>2. CASE ledger[k] = None
    BY <1>2, <1>3, <1>4, <1>7, <2>1, <2>2 DEF Register!Next, Register!Choose, Reported, Finals
  <2>3. QED
    BY <1>4, <1>7, <2>1, <2>2 DEF MayRecord
<1>8. QED
  BY <1>5, <1>6, <1>7

LEMMA PublishImplements ==
  ASSUME IInv, NEW w \in Workers, Publish(w)
  PROVE  [Register!Next]_<<ledger, Reported>>
<1>1. /\ ~At(w, "idle") /\ At(w, "publish") /\ TypeOK /\ ExecInv(w) /\ UNCHANGED ledger
  BY DEF Publish, At, IInv
<1>2. /\ thread[w].pos <= Len(Candidates[Job(w)]) /\ thread[w].review \in Reviews
      /\ thread[w].review.conclusive => ledger[Key(w)] = thread[w].review
  BY <1>1 DEF ExecInv, At, Job
<1>3. PICK k \in Keys, a \in Reviews :
        k = Key(w) /\ a = thread[w].review /\ (a.conclusive => ledger[k] = a)
  BY <1>1, <1>2, KeyOfPosition
<1>4. UNCHANGED published \/ published' = [published EXCEPT ![k] = @ \cup {a}]
  BY <1>3 DEF Publish
<1>5. CASE UNCHANGED published
  BY <1>1, <1>5, SameFinals
<1>6. CASE published' = [published EXCEPT ![k] = @ \cup {a}]
  <2>1. ASSUME NEW m \in Keys
        PROVE  published'[m] = IF m = k THEN published[m] \cup {a} ELSE published[m]
    BY <1>1, <1>3, <1>6 DEF TypeOK
  <2>2. CASE a.conclusive
    <3>1. ledger[k] = a /\ ledger[k] # None
      BY <1>3, <2>2, NoneIsNothing
    <3>2. ASSUME NEW m \in Keys
          PROVE  {v \in published'[m] : v.conclusive} =
                   IF m = k THEN Finals(m) \cup {a} ELSE Finals(m)
      BY <2>1, <2>2 DEF Finals
    <3>3. Reported' = [Reported EXCEPT ![k] = @ \cup {ledger[k]}]
      BY <3>1, <3>2 DEF Reported, Finals
    <3>4. Register!Report(k)
      BY <1>1, <3>1, <3>3 DEF Register!Report, Reported, Finals
    <3>5. QED
      BY <1>3, <3>4 DEF Register!Next
  <2>3. CASE ~a.conclusive
    <3>1. ASSUME NEW m \in Keys
          PROVE  {v \in published'[m] : v.conclusive} = Finals(m)
      BY <2>1, <2>3 DEF Finals
    <3>2. Reported' = Reported
      BY <3>1 DEF Reported, Finals
    <3>3. QED
      BY <1>1, <3>2
  <2>4. QED
    BY <2>2, <2>3
<1>7. QED
  BY <1>4, <1>5, <1>6

LEMMA StepImplements ==
  ASSUME IInv, [Next]_vars
  PROVE  [Register!Next]_<<ledger, Reported>>
<1>1. CASE UNCHANGED <<ledger, published>>
  BY <1>1, SameFinals
<1>2. ASSUME NEW r \in Runs, Create(r) \/ Get(r) PROVE UNCHANGED <<ledger, published>>
  BY <1>2 DEF Create, Get, reviews
<1>3. ASSUME NEW w \in Workers, Frame(w)
      PROVE  UNCHANGED <<ledger, published>>
  BY <1>3 DEF Frame, Take, Preparing, Running, RequestInvalid, Finalizing, CreateResult,
              CloseResult, Completed, Failed, reviews
<1>4. ASSUME NEW w \in Workers, Execute(w)
      PROVE  Record(w) \/ Publish(w) \/ UNCHANGED <<ledger, published>>
  BY <1>4 DEF Execute, Load, Lookup, Answer, ReviewFails, Return, reviews
<1>5. CASE Pass
  <2>1. UNCHANGED <<ledger, published>>
    BY <1>5 DEF Pass, Start, RecoverEnds, ReconcileBegins, ReconcileEnds, RecoverRun,
                ReconcileRun, reviews
  <2>2. QED
    BY <1>1, <2>1
<1>6. CASE Fault \/ Death \/ UNCHANGED vars
  <2>1. UNCHANGED <<ledger, published>>
    BY <1>6 DEF Fault, CreateFails, ReconcileFails, AppendFails, ResultFails, Death, Crash,
                CrashInAppend, CrashInCreate, Dies, vars, reviews
  <2>2. QED
    BY <1>1, <2>1
<1>7. QED
  BY <1>1, <1>2, <1>3, <1>4, <1>5, <1>6, RecordImplements, PublishImplements DEF Next

(* All threads and runs agree on the final verdict of a pair, in the       *)
(* ledger and in what is published (plagiarism_execution.py execute with   *)
(* report_store.py, which creates a file once).                            *)
THEOREM RegisterIsImplemented == Spec => ImplementsRegister
<1>1. Init => Register!Init
  <2>1. Init => Reported = [k \in Keys |-> {}]
    BY DEF Init, Reported, Finals
  <2>2. QED
    BY <2>1 DEF Init, Register!Init, Reported, Finals
<1>2. IInv /\ [Next]_vars => [Register!Next]_<<ledger, Reported>>
  BY StepImplements
<1>3. Reported = [k \in Keys |-> {v \in published[k] : v.conclusive}]
  BY DEF Reported, Finals
<1>4. QED
  BY <1>1, <1>2, <1>3, Invariance, PTL
     DEF Spec, ImplementsRegister, Register!Spec, Reported, Finals
=============================================================================
