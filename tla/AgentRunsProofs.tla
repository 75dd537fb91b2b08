-------------------------- MODULE AgentRunsProofs --------------------------
(***************************************************************************)
(* The safety of AgentRuns, for every set of runs, any number of threads,  *)
(* any queue, batch and attempt limit, and any number of crashes and       *)
(* failing writes.                                                         *)
(***************************************************************************)
EXTENDS AgentRuns, FiniteSetTheorems, TLAPS

-----------------------------------------------------------------------------
(* The inductive invariant.                                                *)

(* What a run directory and the index can say of a run.                    *)
RunInv(r) ==
  /\ disk[r].stage \in {"absent", "partial"} =>
       disk[r].state = "none" /\ disk[r].attempts = 0
  /\ disk[r].stage = "unready" => disk[r].state = "queued"
  /\ Ready(r) => disk[r].state # "none"
  /\ disk[r].attempts <= MaxRunAttempts
  /\ disk[r].state = "queued" /\ ~disk[r].torn => disk[r].attempts < MaxRunAttempts
  /\ disk[r].state \in {"none", "queued", "preparing", "running"} =>
       disk[r].result = "none"
  /\ disk[r].state = "completed" => disk[r].result = "good" /\ disk[r].code = NoCode
  /\ Cached(r) => disk[r].stage \in {"unready", "ready"}
  /\ view[r].state = "completed" => view[r].result = "good"
  /\ view[r].state = "failed" =>
       /\ Ready(r) /\ disk[r].result # "partial"
       /\ \/ disk[r].state = "failed" /\ disk[r].code = view[r].code
          \/ BrokenOff(r)
  /\ Cached(r) /\ ~disk[r].torn /\ disk[r].result # "partial" =>
       \/ view[r].state = disk[r].state /\ view[r].attempts = disk[r].attempts
       \/ Raised(r) \/ BrokenOff(r)

(* What the place of a thread says of the run it works on.                 *)
JobAt(label, r) ==
  CASE label = "taken"     -> disk[r].state = "queued"     /\ ~disk[r].torn
    [] label = "prepared"  -> disk[r].state = "preparing"
    [] label = "executing" -> disk[r].state = "running"
    [] label = "executed"  -> disk[r].state = "running"
    [] label = "finalized" -> disk[r].state = "finalizing" /\ disk[r].result = "none"
    [] label = "writing"   ->
         /\ disk[r].state = "finalizing" /\ disk[r].result = "partial"
         /\ ~disk[r].torn => view[r].state = disk[r].state /\ view[r].attempts = disk[r].attempts
    [] label = "written"   -> disk[r].state = "finalizing" /\ disk[r].result = "good"
    [] label = "failing"   -> disk[r].state \in ActiveStates \cup {"queued", "completed"}
    [] OTHER               -> TRUE

WorkerInv(w) ==
  /\ pc[w] = "idle" <=> job[w] = NoRun
  /\ pc[w] # "idle" =>
       /\ Ready(job[w]) /\ Cached(job[w])
       /\ view[job[w]].state # "failed"
       /\ JobAt(pc[w], job[w])
  /\ pc[w] = "failing" => code[w] # NoCode

(* What waits in the queue.                                                *)
Waiting(r) ==
  /\ Ready(r) /\ disk[r].state = "queued" /\ ~disk[r].torn
  /\ Cached(r) /\ view[r].state # "failed"

QueueInv ==
  /\ \A i \in 1 .. Len(queue) : Waiting(queue[i])
  /\ \A i, j \in 1 .. Len(queue) : i # j => queue[i] # queue[j]
  /\ \A i \in 1 .. Len(queue), w \in Workers : job[w] # queue[i]
  /\ \A v, w \in Workers : v # w /\ job[v] # NoRun => job[v] # job[w]

(* What the pass that holds the lock has still to do.                      *)
PassInv ==
  /\ phase \in {"down", "recover"} => \A w \in Workers : pc[w] = "idle"
  /\ phase = "down" => queue = <<>> /\ todo = {} /\ view = [r \in Runs |-> NoView]
  /\ phase = "serve" => todo = {}
  /\ phase = "recover" =>
       \A r \in todo : /\ Unfinished(r)
                       /\ disk[r].state = "queued" => Cached(r)
                       /\ view[r].state # "failed"
                       /\ disk[r].result = "partial" => ~Cached(r)
                       /\ \A i \in 1 .. Len(queue) : queue[i] # r
  /\ phase = "reconcile" => todo \subseteq Candidates

IInv ==
  /\ TypeOK
  /\ \A r \in Runs : RunInv(r)
  /\ \A w \in Workers : WorkerInv(w)
  /\ QueueInv
  /\ PassInv

-----------------------------------------------------------------------------
(* What the writes to a run directory do, field by field.                  *)

LEMMA AttemptsNat ==
  ASSUME TypeOK, NEW r \in Runs, NEW s
  PROVE  /\ Attempts(r, s) \in Nat
         /\ s = "preparing" => Attempts(r, s) = disk[r].attempts + 1
         /\ s # "preparing" => Attempts(r, s) = disk[r].attempts
BY DEF TypeOK, DiskRecords, Attempts

(* An event changes the log of its run.                                    *)
LEMMA WriteFacts ==
  ASSUME TypeOK, NEW r \in Runs, NEW s \in RunStates, NEW c \in Codes,
         WriteEvent(r, s, c)
  PROVE  /\ disk' \in [Runs -> DiskRecords]
         /\ \A q \in Runs : q # r => disk'[q] = disk[q]
         /\ disk'[r].state = s /\ disk'[r].code = c /\ ~disk'[r].torn
         /\ disk'[r].attempts = Attempts(r, s)
         /\ disk'[r].stage = disk[r].stage /\ disk'[r].result = disk[r].result
<1> DEFINE n == Attempts(r, s)
<1>1. disk' = [disk EXCEPT ![r] = [@ EXCEPT !.state = s, !.code = c, !.torn = FALSE,
                                            !.attempts = n]]
  BY DEF WriteEvent
<1>2. n \in Nat
  BY AttemptsNat
<1> HIDE DEF n
<1>3. /\ disk' \in [Runs -> DiskRecords]
      /\ \A q \in Runs : q # r => disk'[q] = disk[q]
      /\ disk'[r].state = s /\ disk'[r].code = c /\ ~disk'[r].torn
      /\ disk'[r].attempts = n
      /\ disk'[r].stage = disk[r].stage /\ disk'[r].result = disk[r].result
  BY ZenonT(40), <1>1, <1>2 DEF TypeOK, DiskRecords
<1>4. QED
  BY <1>3 DEF n

(* An append changes also the index entry of the run, if there is one that *)
(* can be refreshed.                                                       *)
LEMMA AppendFacts ==
  ASSUME TypeOK, NEW r \in Runs, NEW s \in RunStates, NEW c \in Codes,
         AppendEvent(r, s, c)
  PROVE  /\ disk' \in [Runs -> DiskRecords]
         /\ view' \in [Runs -> ViewRecords]
         /\ \A q \in Runs : q # r => disk'[q] = disk[q] /\ view'[q] = view[q]
         /\ disk'[r].state = s /\ disk'[r].code = c /\ ~disk'[r].torn
         /\ disk'[r].attempts = Attempts(r, s)
         /\ disk'[r].stage = disk[r].stage /\ disk'[r].result = disk[r].result
         /\ ~Cached(r) \/ RefreshFails(r) => view' = view
         /\ Cached(r) /\ ~RefreshFails(r) =>
              /\ view'[r].state = s
              /\ c # NoCode => view'[r].code = c
              /\ view'[r].attempts = Attempts(r, s)
              /\ view'[r].result = disk[r].result
<1>1. Attempts(r, s) \in Nat
  BY AttemptsNat
<1>2. /\ disk' \in [Runs -> DiskRecords]
      /\ \A q \in Runs : q # r => disk'[q] = disk[q]
      /\ disk'[r].state = s /\ disk'[r].code = c /\ ~disk'[r].torn
      /\ disk'[r].attempts = Attempts(r, s)
      /\ disk'[r].stage = disk[r].stage /\ disk'[r].result = disk[r].result
  BY WriteFacts DEF AppendEvent
<1>3. CASE ~Cached(r) \/ RefreshFails(r)
  BY <1>2, <1>3 DEF AppendEvent, RefreshIndex, TypeOK, RefreshFails
<1>4. CASE Cached(r) /\ ~RefreshFails(r)
  <2> DEFINE new == [state    |-> s,
                     code     |-> IF c = NoCode THEN view[r].code ELSE c,
                     attempts |-> Attempts(r, s),
                     result   |-> disk[r].result]
  <2>1. view' = [view EXCEPT ![r] = new]
    BY <1>4 DEF AppendEvent, RefreshIndex
  <2>2. view[r].code \in Codes /\ disk[r].result \in {"none", "good"}
    BY <1>4 DEF TypeOK, ViewRecords, DiskRecords, RefreshFails
  <2>3. new \in ViewRecords
    BY <1>1, <2>2 DEF ViewRecords
  <2>4. view \in [Runs -> ViewRecords]
    BY DEF TypeOK
  <2> HIDE DEF new
  <2>5. /\ view' \in [Runs -> ViewRecords]
        /\ \A q \in Runs : q # r => view'[q] = view[q]
        /\ view'[r] = new
    BY <2>1, <2>3, <2>4
  <2>6. QED
    BY <1>2, <1>4, <2>5 DEF new, RefreshFails
<1>5. QED
  BY <1>3, <1>4

LEMMA TornFacts ==
  ASSUME TypeOK, NEW r \in Runs, NEW s, TornEvent(r, s)
  PROVE  /\ disk' \in [Runs -> DiskRecords]
         /\ \A q \in Runs : q # r => disk'[q] = disk[q]
         /\ disk'[r].torn /\ disk'[r].attempts = Attempts(r, s)
         /\ disk'[r].state = disk[r].state /\ disk'[r].code = disk[r].code
         /\ disk'[r].stage = disk[r].stage /\ disk'[r].result = disk[r].result
<1> DEFINE n == Attempts(r, s)
<1>1. disk' = [disk EXCEPT ![r] = [@ EXCEPT !.torn = TRUE, !.attempts = n]]
  BY DEF TornEvent
<1>2. n \in Nat
  BY AttemptsNat
<1> HIDE DEF n
<1>3. /\ disk' \in [Runs -> DiskRecords]
      /\ \A q \in Runs : q # r => disk'[q] = disk[q]
      /\ disk'[r].torn /\ disk'[r].attempts = n
      /\ disk'[r].state = disk[r].state /\ disk'[r].code = disk[r].code
      /\ disk'[r].stage = disk[r].stage /\ disk'[r].result = disk[r].result
  BY <1>1, <1>2 DEF TypeOK, DiskRecords
<1>4. QED
  BY <1>3 DEF n

-----------------------------------------------------------------------------
(* Steps of a thread.                                                      *)

(* A run that a step leaves alone keeps its invariant.                     *)
LEMMA RunFrame ==
  ASSUME NEW r \in Runs, RunInv(r), disk'[r] = disk[r], view'[r] = view[r],
         Raised(r) => Raised(r)'
  PROVE  RunInv(r)'
BY DEF RunInv, Ready, Cached, BrokenOff

(* So does the place of a thread.                                          *)
LEMMA WorkerFrame ==
  ASSUME NEW w \in Workers, WorkerInv(w),
         pc'[w] = pc[w], job'[w] = job[w], code'[w] = code[w],
         pc[w] # "idle" => disk'[job[w]] = disk[job[w]] /\ view'[job[w]] = view[job[w]]
  PROVE  WorkerInv(w)'
BY DEF WorkerInv, JobAt, Ready, Cached

(* A thread that changes only its own run, and lets go of that run or      *)
(* keeps it, disturbs neither other threads nor the queue nor a pass.      *)
LEMMA ThreadKeepsInv ==
  ASSUME IInv, NEW w \in Workers, NEW r \in Runs, job[w] = r, pc[w] # "idle",
         TypeOK',
         \A q \in Runs : q # r => disk'[q] = disk[q] /\ view'[q] = view[q],
         RunInv(r)', WorkerInv(w)',
         \A v \in Workers :
           v # w => pc'[v] = pc[v] /\ job'[v] = job[v] /\ code'[v] = code[v],
         job'[w] \in {r, NoRun},
         UNCHANGED <<queue, phase, todo>>
  PROVE  IInv'
<1> USE DEF IInv
<1>1. \A q \in Runs : RunInv(q)'
  <2> SUFFICES ASSUME NEW q \in Runs, q # r PROVE RunInv(q)'
    OBVIOUS
  <2>1. Raised(q) => Raised(q)'
    BY DEF Raised
  <2>2. QED
    BY <2>1, RunFrame
<1>2. ASSUME NEW v \in Workers PROVE WorkerInv(v)'
  <2>1. CASE v = w
    BY <2>1
  <2>2. CASE v # w
    <3>1. pc[v] # "idle" => job[v] \in Runs /\ job[v] # r
      BY <2>2, RunServiceConstants DEF QueueInv, WorkerInv, TypeOK
    <3>2. QED
      BY <2>2, <3>1, WorkerFrame
  <2>3. QED
    BY <2>1, <2>2
<1>3. QueueInv'
  <2>1. \A i \in 1 .. Len(queue) : queue[i] \in Runs /\ queue[i] # r
    BY DEF QueueInv, TypeOK
  <2>2. \A i \in 1 .. Len(queue) : Waiting(queue[i])'
    BY <2>1 DEF QueueInv, Waiting, Ready, Cached
  <2>3. \A i \in 1 .. Len(queue), v \in Workers : job'[v] # queue[i]
    BY <2>1, RunServiceConstants DEF QueueInv
  <2>4. \A u, v \in Workers : u # v /\ job'[u] # NoRun => job'[u] # job'[v]
    BY RunServiceConstants DEF QueueInv
  <2>5. QED
    BY <2>2, <2>3, <2>4 DEF QueueInv
<1>4. PassInv'
  <2>1. phase \notin {"down", "recover"}
    BY DEF PassInv
  <2>2. phase = "reconcile" => todo \subseteq Candidates'
    <3> SUFFICES ASSUME phase = "reconcile", NEW q \in todo PROVE q \in Candidates'
      OBVIOUS
    <3>1. q \in Candidates
      BY DEF PassInv
    <3>2. q \in Runs /\ q # r
      BY <3>1 DEF Candidates, WorkerInv
    <3>3. disk'[q] = disk[q] /\ view'[q] = view[q]
      BY <3>2
    <3>4. QED
      BY <3>1, <3>3 DEF Candidates
  <2>3. QED
    BY <2>1, <2>2 DEF PassInv
<1>5. QED
  BY <1>1, <1>2, <1>3, <1>4

(* A thread with a run can report on it: the index has an entry for it.    *)
LEMMA Busy ==
  ASSUME IInv, NEW w \in Workers, pc[w] # "idle"
  PROVE  \E r \in Runs : /\ r = job[w]
                         /\ Ready(r) /\ Cached(r) /\ view[r].state # "failed"
                         /\ JobAt(pc[w], r) /\ RunInv(r)
BY DEF IInv, WorkerInv, TypeOK

LEMMA PreparingKeeps ==
  ASSUME IInv, NEW w \in Workers, Preparing(w)
  PROVE  IInv'
<1>1. TypeOK /\ pc[w] = "taken"
  BY DEF Preparing, IInv
<1>2. PICK r \in Runs : /\ r = job[w]
                        /\ Ready(r) /\ Cached(r) /\ view[r].state # "failed"
                        /\ JobAt(pc[w], r) /\ RunInv(r)
  BY <1>1, Busy
<1>3. AppendEvent(r, "preparing", NoCode) /\ "preparing" \in RunStates /\ NoCode \in Codes
  BY <1>2 DEF Preparing, RunStates, ActiveStates, Codes
<1>4. /\ disk[r].state = "queued" /\ disk[r].result = "none"
      /\ disk[r].attempts < MaxRunAttempts
  BY <1>1, <1>2 DEF JobAt, RunInv
<1>5. ~RefreshFails(r)
  BY <1>4 DEF RefreshFails
<1>6. TypeOK'
  BY <1>1, <1>3, AppendFacts DEF Preparing, Goto, TypeOK, PcLabels, Codes, bounds
<1>7. RunInv(r)'
  <2>1. disk[r].attempts \in Nat
    BY <1>1 DEF TypeOK, DiskRecords
  <2>2. disk'[r].attempts <= MaxRunAttempts
    BY <1>1, <1>3, <1>4, <2>1, AppendFacts, AttemptsNat, RunServiceConstants
  <2>3. QED
    BY <1>1, <1>2, <1>3, <1>4, <1>5, <2>2, AppendFacts DEF RunInv, Ready, Cached
<1>8. WorkerInv(w)'
  BY <1>1, <1>2, <1>3, <1>4, <1>5, AppendFacts, RunServiceConstants
     DEF Preparing, Goto, WorkerInv, JobAt, Ready, Cached, TypeOK
<1>9. /\ \A v \in Workers : v # w => pc'[v] = pc[v] /\ job'[v] = job[v] /\ code'[v] = code[v]
      /\ job'[w] \in {r, NoRun}
      /\ UNCHANGED <<queue, phase, todo>>
  BY <1>1, <1>2 DEF Preparing, Goto, TypeOK
<1>10. QED
  BY <1>1, <1>2, <1>3, <1>6, <1>7, <1>8, <1>9, AppendFacts, ThreadKeepsInv

LEMMA RunningKeeps ==
  ASSUME IInv, NEW w \in Workers, Running(w)
  PROVE  IInv'
<1>1. TypeOK /\ pc[w] = "prepared"
  BY DEF Running, IInv
<1>2. PICK r \in Runs : /\ r = job[w]
                        /\ Ready(r) /\ Cached(r) /\ view[r].state # "failed"
                        /\ JobAt(pc[w], r) /\ RunInv(r)
  BY <1>1, Busy
<1>3. AppendEvent(r, "running", NoCode) /\ "running" \in RunStates /\ NoCode \in Codes
  BY <1>2 DEF Running, RunStates, ActiveStates, Codes
<1>4. disk[r].state = "preparing" /\ disk[r].result = "none"
  BY <1>1, <1>2 DEF JobAt, RunInv
<1>5. ~RefreshFails(r)
  BY <1>4 DEF RefreshFails
<1>6. TypeOK'
  BY <1>1, <1>3, AppendFacts DEF Running, Goto, TypeOK, PcLabels, Codes, bounds
<1>7. RunInv(r)'
  BY SMTT(20), <1>1, <1>2, <1>3, <1>4, <1>5, AppendFacts, AttemptsNat, RunServiceConstants
     DEF RunInv, Ready, Cached, TypeOK, DiskRecords
<1>8. WorkerInv(w)'
  BY <1>1, <1>2, <1>3, <1>4, <1>5, AppendFacts, RunServiceConstants
     DEF Running, Goto, WorkerInv, JobAt, Ready, Cached, TypeOK
<1>9. /\ \A v \in Workers : v # w => pc'[v] = pc[v] /\ job'[v] = job[v] /\ code'[v] = code[v]
      /\ job'[w] \in {r, NoRun}
      /\ UNCHANGED <<queue, phase, todo>>
  BY <1>1, <1>2 DEF Running, Goto, TypeOK
<1>10. QED
  BY <1>1, <1>2, <1>3, <1>6, <1>7, <1>8, <1>9, AppendFacts, ThreadKeepsInv

LEMMA FinalizingKeeps ==
  ASSUME IInv, NEW w \in Workers, Finalizing(w)
  PROVE  IInv'
<1>1. TypeOK /\ pc[w] = "executed"
  BY DEF Finalizing, IInv
<1>2. PICK r \in Runs : /\ r = job[w]
                        /\ Ready(r) /\ Cached(r) /\ view[r].state # "failed"
                        /\ JobAt(pc[w], r) /\ RunInv(r)
  BY <1>1, Busy
<1>3. AppendEvent(r, "finalizing", NoCode) /\ "finalizing" \in RunStates /\ NoCode \in Codes
  BY <1>2 DEF Finalizing, RunStates, ActiveStates, Codes
<1>4. disk[r].state = "running" /\ disk[r].result = "none"
  BY <1>1, <1>2 DEF JobAt, RunInv
<1>5. ~RefreshFails(r)
  BY <1>4 DEF RefreshFails
<1>6. TypeOK'
  BY <1>1, <1>3, AppendFacts DEF Finalizing, Goto, TypeOK, PcLabels, Codes, bounds
<1>7. RunInv(r)'
  BY SMTT(20), <1>1, <1>2, <1>3, <1>4, <1>5, AppendFacts, AttemptsNat, RunServiceConstants
     DEF RunInv, Ready, Cached, TypeOK, DiskRecords
<1>8. WorkerInv(w)'
  BY <1>1, <1>2, <1>3, <1>4, <1>5, AppendFacts, RunServiceConstants
     DEF Finalizing, Goto, WorkerInv, JobAt, Ready, Cached, TypeOK
<1>9. /\ \A v \in Workers : v # w => pc'[v] = pc[v] /\ job'[v] = job[v] /\ code'[v] = code[v]
      /\ job'[w] \in {r, NoRun}
      /\ UNCHANGED <<queue, phase, todo>>
  BY <1>1, <1>2 DEF Finalizing, Goto, TypeOK
<1>10. QED
  BY <1>1, <1>2, <1>3, <1>6, <1>7, <1>8, <1>9, AppendFacts, ThreadKeepsInv

LEMMA CompletedKeeps ==
  ASSUME IInv, NEW w \in Workers, Completed(w)
  PROVE  IInv'
<1>1. TypeOK /\ pc[w] = "written"
  BY DEF Completed, IInv
<1>2. PICK r \in Runs : /\ r = job[w]
                        /\ Ready(r) /\ Cached(r) /\ view[r].state # "failed"
                        /\ JobAt(pc[w], r) /\ RunInv(r)
  BY <1>1, Busy
<1>3. AppendEvent(r, "completed", NoCode) /\ "completed" \in RunStates /\ NoCode \in Codes
  BY <1>2 DEF Completed, RunStates, ActiveStates, Codes
<1>4. disk[r].state = "finalizing" /\ disk[r].result = "good"
  BY <1>1, <1>2 DEF JobAt, RunInv
<1>5. ~RefreshFails(r)
  BY <1>4 DEF RefreshFails
<1>6. TypeOK'
  BY <1>1, <1>3, AppendFacts DEF Completed, NextItem, TypeOK, PcLabels, Codes, bounds
<1>7. RunInv(r)'
  BY SMTT(20), <1>1, <1>2, <1>3, <1>4, <1>5, AppendFacts, AttemptsNat, RunServiceConstants
     DEF RunInv, Ready, Cached, TypeOK, DiskRecords
<1>8. WorkerInv(w)'
  BY <1>1, <1>2, <1>3, <1>4, <1>5, AppendFacts, RunServiceConstants
     DEF Completed, NextItem, WorkerInv, JobAt, Ready, Cached, TypeOK
<1>9. /\ \A v \in Workers : v # w => pc'[v] = pc[v] /\ job'[v] = job[v] /\ code'[v] = code[v]
      /\ job'[w] \in {r, NoRun}
      /\ UNCHANGED <<queue, phase, todo>>
  BY <1>1, <1>2 DEF Completed, NextItem, TypeOK
<1>10. QED
  BY <1>1, <1>2, <1>3, <1>6, <1>7, <1>8, <1>9, AppendFacts, ThreadKeepsInv

(* The event "failed" can only fail to reach the index where result.json   *)
(* is incomplete; then the thread ends, and the index keeps its entry.     *)
LEMMA FailedKeeps ==
  ASSUME IInv, NEW w \in Workers, Failed(w)
  PROVE  IInv'
<1>1. TypeOK /\ pc[w] = "failing"
  BY DEF Failed, IInv
<1>2. PICK r \in Runs : /\ r = job[w]
                        /\ Ready(r) /\ Cached(r) /\ view[r].state # "failed"
                        /\ JobAt(pc[w], r) /\ RunInv(r)
  BY <1>1, Busy
<1>3. /\ AppendEvent(r, "failed", code[w]) /\ "failed" \in RunStates
      /\ code[w] \in Codes /\ code[w] # NoCode
  BY <1>1, <1>2 DEF Failed, RunStates, IInv, WorkerInv, TypeOK
<1>4. disk[r].state \in ActiveStates \cup {"queued", "completed"}
  BY <1>1, <1>2 DEF JobAt
<1>5. TypeOK'
  <2>1. pc' \in [Workers -> PcLabels] /\ job' \in [Workers -> Runs \cup {NoRun}]
    BY <1>1 DEF Failed, Goto, NextItem, TypeOK, PcLabels
  <2>2. code' \in [Workers -> Codes]
    BY <1>1 DEF Failed, Goto, NextItem, TypeOK, Codes
  <2>3. QED
    BY <1>1, <1>3, <2>1, <2>2, AppendFacts DEF Failed, TypeOK, bounds
<1>6. RunInv(r)'
  <2>1. disk'[r].attempts = disk[r].attempts
    BY <1>1, <1>3, AppendFacts, AttemptsNat
  <2>2. CASE RefreshFails(r)
    BY <1>1, <1>2, <1>3, <1>4, <2>1, <2>2, AppendFacts
       DEF RunInv, Ready, Cached, RefreshFails, ActiveStates
  <2>3. CASE ~RefreshFails(r)
    BY <1>1, <1>2, <1>3, <1>4, <2>1, <2>3, AppendFacts
       DEF RunInv, Ready, Cached, RefreshFails, ActiveStates
  <2>4. QED
    BY <2>2, <2>3
<1>7. WorkerInv(w)'
  <2>1. CASE RefreshFails(r)
    BY <1>1, <1>2, <1>3, <2>1, AppendFacts, RunServiceConstants
       DEF Failed, Goto, WorkerInv, JobAt, Ready, Cached, TypeOK
  <2>2. CASE ~RefreshFails(r)
    BY <1>1, <1>2, <2>2 DEF Failed, NextItem, WorkerInv, TypeOK
  <2>3. QED
    BY <2>1, <2>2
<1>8. /\ \A v \in Workers : v # w => pc'[v] = pc[v] /\ job'[v] = job[v] /\ code'[v] = code[v]
      /\ job'[w] \in {r, NoRun}
      /\ UNCHANGED <<queue, phase, todo>>
  BY <1>1, <1>2 DEF Failed, Goto, NextItem, TypeOK
<1>9. QED
  BY <1>1, <1>2, <1>3, <1>5, <1>6, <1>7, <1>8, AppendFacts, ThreadKeepsInv

(* A thread that gets on, or raises, without writing anything.             *)
LEMMA SilentKeeps ==
  ASSUME IInv, NEW w \in Workers, pc[w] \notin {"idle", "failing", "dead"},
         NEW label \in PcLabels \ {"idle"}, NEW c \in Codes,
         pc' = [pc EXCEPT ![w] = label], code' = [code EXCEPT ![w] = c],
         label = "failing" => c # NoCode,
         \A r \in Runs : JobAt(pc[w], r) => JobAt(label, r),
         UNCHANGED <<disk, view, queue, job, phase, todo, requeued, crashes>>,
         faults' \in Nat
  PROVE  IInv'
<1>1. TypeOK /\ pc[w] # "idle"
  BY DEF IInv
<1>2. PICK r \in Runs : /\ r = job[w]
                        /\ Ready(r) /\ Cached(r) /\ view[r].state # "failed"
                        /\ JobAt(pc[w], r) /\ RunInv(r)
  BY <1>1, Busy
<1>3. TypeOK'
  BY <1>1 DEF TypeOK
<1>4. RunInv(r)'
  <2>1. Raised(r) => Raised(r)'
    BY <1>1 DEF Raised, TypeOK
  <2>2. QED
    BY <1>2, <2>1, RunFrame
<1>5. WorkerInv(w)'
  <2>1. JobAt(label, r)'
    BY <1>2 DEF JobAt
  <2>2. pc'[w] = label /\ code'[w] = c /\ job'[w] = r
    BY <1>1, <1>2 DEF TypeOK
  <2>3. QED
    BY <1>2, <2>1, <2>2, RunServiceConstants DEF WorkerInv, Ready, Cached
<1>6. /\ \A v \in Workers : v # w => pc'[v] = pc[v] /\ job'[v] = job[v] /\ code'[v] = code[v]
      /\ job'[w] \in {r, NoRun}
  BY <1>1, <1>2 DEF TypeOK
<1>7. QED
  BY <1>1, <1>2, <1>3, <1>4, <1>5, <1>6, ThreadKeepsInv

LEMMA RequestInvalidKeeps ==
  ASSUME IInv, NEW w \in Workers, RequestInvalid(w)
  PROVE  IInv'
<1>1. \A r \in Runs : JobAt(pc[w], r) => JobAt("failing", r)
  BY DEF RequestInvalid, JobAt, ActiveStates
<1>2. "AGENT_EXECUTION_FAILED" \in Codes \ {NoCode}
  BY DEF Codes, ServiceFailures, NoCode
<1>3. QED
  BY <1>1, <1>2, SilentKeeps DEF RequestInvalid, Raise, PcLabels, IInv, TypeOK, bounds

LEMMA ExecuteKeeps ==
  ASSUME IInv, NEW w \in Workers, Execute(w)
  PROVE  IInv'
<1>1. pc[w] = "executing" /\ faults' \in Nat /\ crashes' = crashes
  BY DEF Execute, IInv, TypeOK, bounds
<1>2. \A r \in Runs : JobAt(pc[w], r) => JobAt("failing", r) /\ JobAt("executed", r)
  BY <1>1 DEF JobAt, ActiveStates
<1>3. CASE Goto(w, "executed")
  <2>1. code' = [code EXCEPT ![w] = code[w]] /\ code[w] \in Codes
    BY <1>3 DEF Goto, IInv, TypeOK
  <2>2. QED
    BY <1>1, <1>2, <1>3, <2>1, SilentKeeps DEF Execute, Goto, PcLabels
<1>4. CASE \E c \in ExecutorFailures : Raise(w, c)
  <2>1. PICK c \in ExecutorFailures : Raise(w, c)
    BY <1>4
  <2>2. c \in Codes /\ c # NoCode
    BY RunServiceConstants DEF Codes, NoCode
  <2>3. QED
    BY <1>1, <1>2, <2>1, <2>2, SilentKeeps DEF Execute, Raise, PcLabels
<1>5. QED
  BY <1>3, <1>4 DEF Execute

(* Nobody writes the result of a run but the thread that has it.           *)
LEMMA ResultKeeps ==
  ASSUME IInv, NEW w \in Workers, pc[w] \in {"finalized", "writing"},
         NEW r \in Runs, r = job[w],
         NEW label \in {"writing", "written", "failing"}, NEW res \in {"partial", "good"},
         label = "writing" <=> res = "partial",
         disk' = [disk EXCEPT ![r].result = res],
         pc' = [pc EXCEPT ![w] = label],
         NEW c \in Codes, code' = [code EXCEPT ![w] = c], label = "failing" => c # NoCode,
         UNCHANGED <<view, queue, job, phase, todo, requeued, crashes>>,
         faults' \in Nat
  PROVE  IInv'
<1>1. TypeOK /\ pc[w] # "idle" /\ WorkerInv(w) /\ RunInv(r)
  BY DEF IInv
<1>2. /\ disk' \in [Runs -> DiskRecords]
      /\ \A q \in Runs : q # r => disk'[q] = disk[q]
      /\ disk'[r].result = res
      /\ disk'[r].state = disk[r].state /\ disk'[r].code = disk[r].code
      /\ disk'[r].stage = disk[r].stage /\ disk'[r].torn = disk[r].torn
      /\ disk'[r].attempts = disk[r].attempts
  <2>1. disk' = [disk EXCEPT ![r] = [@ EXCEPT !.result = res]]
    OBVIOUS
  <2>2. disk \in [Runs -> DiskRecords]
    BY <1>1 DEF TypeOK
  <2>3. QED
    BY <2>1, <2>2 DEF DiskRecords
<1>3. disk[r].state = "finalizing" /\ Ready(r) /\ Cached(r) /\ view[r].state # "failed"
  BY <1>1 DEF WorkerInv, JobAt
<1>4. TypeOK'
  <2>1. pc' \in [Workers -> PcLabels]
    BY <1>1 DEF TypeOK, PcLabels
  <2>2. QED
    BY <1>1, <1>2, <2>1 DEF TypeOK
<1>5. ~disk[r].torn =>
        view[r].state = disk[r].state /\ view[r].attempts = disk[r].attempts
  <2>1. ~Raised(r) /\ ~BrokenOff(r)
    BY <1>3, RunServiceConstants DEF Raised, BrokenOff, IInv, QueueInv
  <2>2. QED
    BY <1>1, <1>3, <2>1 DEF WorkerInv, JobAt, RunInv
<1>6. RunInv(r)'
  BY <1>1, <1>2, <1>3, <1>5 DEF RunInv, Ready, Cached
<1>7. WorkerInv(w)'
  <2>1. pc'[w] = label /\ code'[w] = c /\ job'[w] = r
    BY <1>1 DEF TypeOK
  <2>2. JobAt(label, r)'
    BY <1>1, <1>2, <1>3, <1>5 DEF JobAt, ActiveStates
  <2>3. QED
    BY <1>1, <1>2, <1>3, <2>1, <2>2, RunServiceConstants DEF WorkerInv, Ready, Cached
<1>8. /\ \A v \in Workers : v # w => pc'[v] = pc[v] /\ job'[v] = job[v] /\ code'[v] = code[v]
      /\ job'[w] \in {r, NoRun}
  BY <1>1 DEF TypeOK
<1>9. QED
  BY <1>1, <1>2, <1>4, <1>6, <1>7, <1>8, ThreadKeepsInv

LEMMA CreateResultKeeps ==
  ASSUME IInv, NEW w \in Workers, CreateResult(w)
  PROVE  IInv'
<1>1. TypeOK /\ pc[w] = "finalized"
  BY DEF CreateResult, IInv
<1>2. PICK r \in Runs : /\ r = job[w]
                        /\ Ready(r) /\ Cached(r) /\ view[r].state # "failed"
                        /\ JobAt(pc[w], r) /\ RunInv(r)
  BY <1>1, Busy
<1>3. disk[r].result = "none"
  BY <1>1, <1>2 DEF JobAt
<1>4. /\ code' = [code EXCEPT ![w] = code[w]] /\ code[w] \in Codes
      /\ crashes' = crashes /\ faults' \in Nat
  BY <1>1, <1>2, <1>3 DEF CreateResult, Goto, TypeOK, bounds
<1>5. QED
  BY <1>1, <1>2, <1>3, <1>4, ResultKeeps DEF CreateResult, Goto

LEMMA CloseResultKeeps ==
  ASSUME IInv, NEW w \in Workers, CloseResult(w)
  PROVE  IInv'
<1>1. TypeOK /\ pc[w] = "writing"
  BY DEF CloseResult, IInv
<1>2. PICK r \in Runs : /\ r = job[w]
                        /\ Ready(r) /\ Cached(r) /\ view[r].state # "failed"
                        /\ JobAt(pc[w], r) /\ RunInv(r)
  BY <1>1, Busy
<1>3. /\ code' = [code EXCEPT ![w] = code[w]] /\ code[w] \in Codes
      /\ crashes' = crashes /\ faults' \in Nat
  BY <1>1 DEF CloseResult, Goto, TypeOK, bounds
<1>4. QED
  BY <1>1, <1>2, <1>3, ResultKeeps DEF CloseResult, Goto

LEMMA ResultFailsKeeps ==
  ASSUME IInv, NEW w \in Workers, ResultFails(w)
  PROVE  IInv'
<1>1. /\ pc[w] \in {"finalized", "writing"} /\ faults' \in Nat
      /\ Raise(w, "AGENT_EXECUTION_FAILED")
      /\ UNCHANGED <<view, queue, phase, todo, requeued, crashes>>
  BY DEF ResultFails, IInv, TypeOK
<1>2. "AGENT_EXECUTION_FAILED" \in Codes \ {NoCode}
  BY DEF Codes, ServiceFailures, NoCode
<1>3. CASE UNCHANGED disk
  <2>1. \A r \in Runs : JobAt(pc[w], r) => JobAt("failing", r)
    BY <1>1 DEF JobAt, ActiveStates
  <2>2. QED
    BY <1>1, <1>2, <1>3, <2>1, SilentKeeps DEF Raise, PcLabels
<1>4. CASE disk' = [disk EXCEPT ![job[w]].result = "good"]
  <2>1. job[w] \in Runs
    BY <1>1, Busy
  <2>2. QED
    BY <1>1, <1>2, <1>4, <2>1, ResultKeeps DEF Raise
<1>5. QED
  BY <1>3, <1>4 DEF ResultFails

LEMMA AppendFailsKeeps ==
  ASSUME IInv, NEW w \in Workers, AppendFails(w)
  PROVE  IInv'
<1>1. TypeOK /\ pc[w] \in {"taken", "prepared", "executed", "written", "failing"}
  BY DEF AppendFails, PendingEvent, IInv
<1>2. PICK r \in Runs : /\ r = job[w]
                        /\ Ready(r) /\ Cached(r) /\ view[r].state # "failed"
                        /\ JobAt(pc[w], r) /\ RunInv(r)
  BY <1>1, Busy
<1> DEFINE s == PendingEvent[pc[w]]
           c == IF pc[w] = "failing" THEN code[w] ELSE NoCode
<1>3. /\ UNCHANGED disk \/ TornEvent(r, s) \/ WriteEvent(r, s, c)
      /\ UNCHANGED view
  BY <1>2 DEF AppendFails, EventFails
<1>4. /\ s \in {"preparing", "running", "finalizing", "completed", "failed"}
      /\ s \in RunStates /\ c \in Codes
      /\ s = "preparing" <=> pc[w] = "taken"
      /\ s = "completed" <=> pc[w] = "written"
      /\ s = "running" <=> pc[w] = "prepared"
      /\ s = "failed" <=> pc[w] = "failing"
      /\ s = "completed" => c = NoCode
  BY <1>1 DEF PendingEvent, RunStates, ActiveStates, TypeOK, Codes
<1>5. disk[r].state \in ActiveStates \cup {"queued", "completed"}
  BY <1>1, <1>2 DEF JobAt, ActiveStates
<1>6. Attempts(r, s) <= MaxRunAttempts
  <2>1. pc[w] = "taken" => disk[r].attempts < MaxRunAttempts
    BY <1>2 DEF JobAt, RunInv
  <2>2. disk[r].attempts \in Nat /\ disk[r].attempts <= MaxRunAttempts
    BY <1>1, <1>2 DEF TypeOK, DiskRecords, RunInv
  <2>3. QED
    BY <1>1, <1>4, <2>1, <2>2, AttemptsNat, RunServiceConstants
<1> HIDE DEF s, c
<1>7. /\ disk' \in [Runs -> DiskRecords]
      /\ \A q \in Runs : q # r => disk'[q] = disk[q]
      /\ disk'[r].stage = disk[r].stage /\ disk'[r].result = disk[r].result
      /\ \/ disk'[r] = disk[r]
         \/ /\ disk'[r].torn /\ disk'[r].attempts = Attempts(r, s)
            /\ disk'[r].state = disk[r].state /\ disk'[r].code = disk[r].code
         \/ /\ disk'[r].state = s /\ disk'[r].code = c /\ ~disk'[r].torn
            /\ disk'[r].attempts = Attempts(r, s)
  BY <1>1, <1>3, <1>4, TornFacts, WriteFacts DEF TypeOK
<1>8. /\ TypeOK'
      /\ pc'[w] \in {"dead", "failing"} /\ (pc'[w] = "failing" => code'[w] # NoCode)
      /\ pc'[w] = "failing" <=> pc[w] # "failing"
      /\ job' = job
      /\ \A v \in Workers : v # w => pc'[v] = pc[v] /\ job'[v] = job[v] /\ code'[v] = code[v]
  <2>1. faults' \in Nat
    BY <1>1 DEF AppendFails, TypeOK
  <2>2. CASE pc[w] = "failing"
    BY <1>1, <1>7, <2>1, <2>2 DEF AppendFails, Goto, TypeOK, PcLabels
  <2>3. CASE pc[w] # "failing"
    <3>1. Raise(w, "AGENT_EXECUTION_FAILED")
      BY <2>3 DEF AppendFails
    <3>2. "AGENT_EXECUTION_FAILED" \in Codes \ {NoCode}
      BY DEF Codes, ServiceFailures, NoCode
    <3>3. QED
      BY <1>1, <1>7, <2>1, <2>3, <3>1, <3>2 DEF AppendFails, Raise, TypeOK, PcLabels
  <2>4. QED
    BY <2>2, <2>3
<1>9. Raised(r)'
  BY <1>2, <1>8 DEF Raised
<1>10. RunInv(r)'
  <2>1. disk[r].result = "good" \/ s # "completed"
    BY <1>2, <1>4 DEF JobAt
  <2>2. s \in {"preparing", "running"} => disk[r].result = "none"
    BY <1>2, <1>4 DEF JobAt, RunInv
  <2>3. QED
    BY SMTT(30), <1>2, <1>3, <1>4, <1>5, <1>6, <1>7, <1>9, <2>1, <2>2
       DEF RunInv, Ready, Cached, ActiveStates
<1>11. WorkerInv(w)'
  <2>1. pc[w] # "failing" => disk'[r].state \in ActiveStates \cup {"queued", "completed"}
    BY <1>4, <1>5, <1>7 DEF ActiveStates
  <2>2. QED
    BY <1>2, <1>3, <1>7, <1>8, <2>1, RunServiceConstants
       DEF WorkerInv, JobAt, Ready, Cached, ActiveStates
<1>12. QED
  BY <1>1, <1>2, <1>3, <1>7, <1>8, <1>10, <1>11, ThreadKeepsInv DEF AppendFails

LEMMA TakeKeeps ==
  ASSUME IInv, NEW w \in Workers, Take(w)
  PROVE  IInv'
<1>1. /\ TypeOK /\ QueueInv /\ PassInv /\ pc[w] = "idle" /\ job[w] = NoRun
      /\ queue # <<>> /\ Len(queue) \in Nat /\ phase \in {"reconcile", "serve"}
  BY DEF Take, Up, IInv, WorkerInv, TypeOK
<1>2. PICK r \in Runs : r = Head(queue) /\ r = queue[1]
  BY <1>1 DEF TypeOK
<1>3. /\ Len(queue') = Len(queue) - 1 /\ queue' \in Seq(Runs)
      /\ \A i \in 1 .. Len(queue') : i + 1 \in 1 .. Len(queue) /\ queue'[i] = queue[i + 1]
  BY <1>1 DEF Take, TypeOK
<1>4. TypeOK'
  BY <1>1, <1>2, <1>3, RunServiceConstants DEF Take, TypeOK, PcLabels, bounds
<1>5. /\ job'[w] = r /\ pc'[w] = "taken"
      /\ \A v \in Workers : v # w => pc'[v] = pc[v] /\ job'[v] = job[v] /\ code'[v] = code[v]
  BY <1>1, <1>2 DEF Take, TypeOK
<1>6. Waiting(r)
  BY <1>1, <1>2 DEF QueueInv
<1>7. \A q \in Runs : RunInv(q)'
  <2>1. \A q \in Runs : Raised(q) => Raised(q)'
    BY <1>1, <1>5, RunServiceConstants DEF Raised
  <2>2. QED
    BY <2>1, RunFrame DEF IInv, Take
<1>8. \A v \in Workers : WorkerInv(v)'
  <2>1. WorkerInv(w)'
    BY <1>2, <1>5, <1>6, RunServiceConstants
       DEF Take, Waiting, WorkerInv, JobAt, Ready, Cached
  <2>2. ASSUME NEW v \in Workers, v # w PROVE WorkerInv(v)'
    BY <1>5, <2>2, WorkerFrame DEF IInv, Take
  <2>3. QED
    BY <2>1, <2>2
<1>9. QueueInv'
  <2>1. (\A i \in 1 .. Len(queue) : Waiting(queue[i]))'
    BY <1>1, <1>3 DEF QueueInv, Waiting, Ready, Cached, Take
  <2>2. ASSUME NEW i \in 1 .. Len(queue'), NEW j \in 1 .. Len(queue'), i # j
        PROVE  queue'[i] # queue'[j]
    <3>1. /\ i + 1 \in 1 .. Len(queue) /\ queue'[i] = queue[i + 1]
          /\ j + 1 \in 1 .. Len(queue) /\ queue'[j] = queue[j + 1]
      BY <1>3
    <3>2. i + 1 # j + 1
      BY <1>1, <1>3, <2>2
    <3>3. \A k, l \in 1 .. Len(queue) : k # l => queue[k] # queue[l]
      BY <1>1 DEF QueueInv
    <3>4. QED
      BY <3>1, <3>2, <3>3
  <2>3. \A i \in 1 .. Len(queue') : queue'[i] # r
    BY <1>1, <1>2, <1>3 DEF QueueInv
  <2>4. \A i \in 1 .. Len(queue'), v \in Workers : job'[v] # queue'[i]
    BY <1>1, <1>3, <1>5, <2>3 DEF QueueInv
  <2>5. \A v \in Workers : job[v] # r
    BY <1>1, <1>2 DEF QueueInv
  <2>6. \A u, v \in Workers : u # v /\ job'[u] # NoRun => job'[u] # job'[v]
    BY <1>1, <1>5, <2>5 DEF QueueInv
  <2>7. QED
    BY <2>1, <2>2, <2>4, <2>6 DEF QueueInv
<1>10. PassInv'
  BY <1>1 DEF PassInv, Take, Candidates
<1>11. QED
  BY <1>4, <1>7, <1>8, <1>9, <1>10 DEF IInv

-----------------------------------------------------------------------------
(* Steps under the lock that change a run which no thread has.             *)

Unowned(r) ==
  /\ \A w \in Workers : job[w] # r
  /\ \A i \in 1 .. Len(queue) : queue[i] # r

LEMMA OthersKeep ==
  ASSUME IInv, NEW r \in Runs,
         \A q \in Runs : q # r => disk'[q] = disk[q] /\ view'[q] = view[q],
         UNCHANGED <<pc, job>>
  PROVE  \A q \in Runs : q # r => RunInv(q)'
BY RunFrame DEF IInv, Raised

LEMMA WorkersKeep ==
  ASSUME IInv, NEW r \in Runs, Unowned(r),
         \A q \in Runs : q # r => disk'[q] = disk[q] /\ view'[q] = view[q],
         UNCHANGED <<pc, job, code>>
  PROVE  \A w \in Workers : WorkerInv(w)'
<1> SUFFICES ASSUME NEW w \in Workers PROVE WorkerInv(w)'
  OBVIOUS
<1>1. pc[w] # "idle" => job[w] \in Runs /\ job[w] # r
  BY RunServiceConstants DEF Unowned, IInv, WorkerInv, TypeOK
<1>2. QED
  BY <1>1, WorkerFrame DEF IInv

LEMMA QueueKeeps ==
  ASSUME IInv, NEW r \in Runs, Unowned(r),
         \A q \in Runs : q # r => disk'[q] = disk[q] /\ view'[q] = view[q],
         UNCHANGED <<queue, job>>
  PROVE  QueueInv'
<1>1. \A i \in 1 .. Len(queue) : queue[i] \in Runs /\ queue[i] # r
  BY DEF IInv, TypeOK, Unowned
<1>2. QED
  BY <1>1 DEF IInv, QueueInv, Waiting, Ready, Cached

LEMMA QueueGrows ==
  ASSUME IInv, NEW r \in Runs, Unowned(r), HasRoom,
         \A q \in Runs : q # r => disk'[q] = disk[q] /\ view'[q] = view[q],
         Waiting(r)', queue' = Append(queue, r), UNCHANGED job
  PROVE  /\ QueueInv'
         /\ queue' \in Seq(Runs) /\ Len(queue') <= MaxQueued
         /\ \A i \in 1 .. Len(queue') : queue'[i] = r \/ \E j \in 1 .. Len(queue) : queue'[i] = queue[j]
<1>1. /\ queue \in Seq(Runs) /\ Len(queue) \in Nat /\ Len(queue) < MaxQueued
      /\ \A i \in 1 .. Len(queue) : queue[i] \in Runs /\ queue[i] # r
  BY DEF IInv, TypeOK, Unowned, HasRoom
<1>2. /\ queue' \in Seq(Runs) /\ Len(queue') = Len(queue) + 1
      /\ queue'[Len(queue) + 1] = r
      /\ \A i \in 1 .. Len(queue) : queue'[i] = queue[i]
  BY <1>1
<1>3. Len(queue') <= MaxQueued
  BY <1>1, <1>2, RunServiceConstants
<1>4. (\A i \in 1 .. Len(queue) : Waiting(queue[i]))'
  BY <1>1, <1>2 DEF IInv, QueueInv, Waiting, Ready, Cached
<1>5. (\A i, j \in 1 .. Len(queue) : i # j => queue[i] # queue[j])'
  BY <1>1, <1>2 DEF IInv, QueueInv
<1>6. (\A i \in 1 .. Len(queue), w \in Workers : job[w] # queue[i])'
  BY <1>1, <1>2 DEF IInv, QueueInv, Unowned
<1>7. QED
  BY <1>1, <1>2, <1>3, <1>4, <1>5, <1>6 DEF IInv, QueueInv

(* A run that was never made, that is not indexed, or whose index entry    *)
(* says it has failed, is nobody's.                                        *)
LEMMA NobodysRun ==
  ASSUME IInv, NEW r \in Runs,
         ~Ready(r) \/ ~Cached(r) \/ view[r].state = "failed"
  PROVE  Unowned(r)
<1>1. ASSUME NEW w \in Workers PROVE job[w] # r
  BY RunServiceConstants DEF IInv, WorkerInv
<1>2. ASSUME NEW i \in 1 .. Len(queue) PROVE queue[i] # r
  BY DEF IInv, QueueInv, Waiting, RunInv
<1>3. QED
  BY <1>1, <1>2 DEF Unowned

LEMMA CreateKeeps ==
  ASSUME IInv, NEW r \in Runs, Create(r)
  PROVE  IInv'
<1>1. TypeOK /\ RunInv(r) /\ Unowned(r) /\ HasRoom /\ phase = "serve"
  BY NobodysRun DEF IInv, Create, Ready, Serving
<1>2. DEFINE d == Queued(r, "ready")
             e == [NoView EXCEPT !.state = "queued"]
<1>3. d \in DiskRecords /\ e \in ViewRecords
  BY DEF Queued, NoDisk, NoView, DiskRecords, ViewRecords, RunStates, Codes
<1>4. /\ d.stage = "ready" /\ d.state = "queued" /\ d.torn = FALSE
      /\ d.attempts = 0 /\ d.result = "none"
      /\ e.state = "queued" /\ e.attempts = 0
  BY DEF Queued, NoDisk, NoView
<1>5. disk' = [disk EXCEPT ![r] = d] /\ view' = [view EXCEPT ![r] = e]
  BY DEF Create
<1> HIDE DEF d, e
<1>6. /\ disk' \in [Runs -> DiskRecords] /\ view' \in [Runs -> ViewRecords]
      /\ disk'[r] = d /\ view'[r] = e
      /\ \A q \in Runs : q # r => disk'[q] = disk[q] /\ view'[q] = view[q]
  BY <1>1, <1>3, <1>5 DEF TypeOK
<1>7. \A q \in Runs : RunInv(q)'
  <2>1. RunInv(r)'
    BY <1>4, <1>6, RunServiceConstants DEF RunInv, Ready, Cached
  <2>2. QED
    BY <1>6, <2>1, OthersKeep DEF Create
<1>8. \A w \in Workers : WorkerInv(w)'
  BY <1>1, <1>6, WorkersKeep DEF Create
<1>9. QueueInv' /\ queue' \in Seq(Runs) /\ Len(queue') <= MaxQueued
  <2>1. Waiting(r)'
    BY <1>4, <1>6 DEF Waiting, Ready, Cached
  <2>2. CASE Workers = {}
    BY <1>1, <1>6, <2>2, QueueKeeps DEF Create, Dispatched, TypeOK
  <2>3. CASE Workers # {}
    BY <1>1, <1>6, <2>1, <2>3, QueueGrows DEF Create, Dispatched
  <2>4. QED
    BY <2>2, <2>3
<1>10. TypeOK'
  BY <1>1, <1>6, <1>9 DEF TypeOK, Create, bounds
<1>11. PassInv'
  BY <1>1 DEF IInv, PassInv, Create
<1>12. QED
  BY <1>7, <1>8, <1>9, <1>10, <1>11 DEF IInv

(* What a half-made run leaves in its directory.                           *)
LEMMA HalfCreatedFacts ==
  ASSUME IInv, NEW r \in Runs, HalfCreated(r)
  PROVE  /\ Unowned(r) /\ ~Cached(r) /\ phase = "serve"
         /\ disk' \in [Runs -> DiskRecords]
         /\ \A q \in Runs : q # r => disk'[q] = disk[q]
         /\ disk'[r].attempts = 0
         /\ disk'[r].stage = "partial" => disk'[r].state = "none"
         /\ disk'[r].stage = "unready" => disk'[r].state = "queued"
         /\ disk'[r].stage \in {"partial", "unready"}
         /\ disk'[r].result = "none"
<1>1. TypeOK /\ RunInv(r) /\ disk[r].stage = "absent" /\ phase = "serve"
  BY DEF IInv, HalfCreated, Serving
<1>2. ~Cached(r) /\ Unowned(r)
  BY <1>1, NobodysRun DEF RunInv
<1>3. disk[r].state = "none" /\ disk[r].attempts = 0 /\ disk[r].result = "none"
  BY <1>1 DEF RunInv
<1>4. CASE disk' = [disk EXCEPT ![r].stage = "partial"]
  <2>1. disk' = [disk EXCEPT ![r] = [@ EXCEPT !.stage = "partial"]]
    BY <1>4
  <2>2. disk \in [Runs -> DiskRecords]
    BY <1>1 DEF TypeOK
  <2>3. QED
    BY <1>1, <1>2, <1>3, <2>1, <2>2 DEF DiskRecords
<1>5. CASE disk' = [disk EXCEPT ![r] = Queued(r, "unready")]
  BY <1>1, <1>2, <1>5
     DEF TypeOK, Queued, NoDisk, DiskRecords, RunStates, Codes
<1>6. QED
  BY <1>4, <1>5 DEF HalfCreated

(* A creation that raises behind _READY leaves a run as Create does, which *)
(* is only not indexed and not queued.                                     *)
LEMMA RaisedCreationFacts ==
  ASSUME IInv, NEW r \in Runs, CreateFails(r)
  PROVE  /\ Unowned(r) /\ ~Cached(r) /\ phase = "serve"
         /\ disk' \in [Runs -> DiskRecords]
         /\ \A q \in Runs : q # r => disk'[q] = disk[q]
         /\ disk'[r].attempts = 0 /\ disk'[r].result = "none"
         /\ disk'[r].stage = "partial" => disk'[r].state = "none"
         /\ disk'[r].stage # "partial" => disk'[r].state = "queued"
         /\ disk'[r].stage \in {"partial", "unready", "ready"}
<1>1. CASE HalfCreated(r)
  BY <1>1, HalfCreatedFacts
<1>2. CASE /\ Serving /\ disk[r].stage = "absent"
           /\ disk' = [disk EXCEPT ![r] = Queued(r, "ready")]
  <2>1. TypeOK /\ RunInv(r) /\ ~Cached(r) /\ Unowned(r)
    BY <1>2, NobodysRun DEF IInv, RunInv
  <2>2. QED
    BY <1>2, <2>1 DEF Serving, TypeOK, Queued, NoDisk, DiskRecords, RunStates, Codes
<1>3. QED
  BY <1>1, <1>2 DEF CreateFails

LEMMA CreateFailsKeeps ==
  ASSUME IInv, NEW r \in Runs, CreateFails(r)
  PROVE  IInv'
<1>1. /\ UNCHANGED <<view, queue, pc, job, code, todo, requeued, phase, crashes>>
      /\ faults' = faults + 1
  BY DEF CreateFails, memory
<1>2. TypeOK'
  BY <1>1, RaisedCreationFacts DEF IInv, TypeOK
<1>3. RunInv(r)'
  BY <1>1, RaisedCreationFacts, RunServiceConstants DEF RunInv, Ready, Cached, NoView, IInv
<1>4. \A q \in Runs : RunInv(q)'
  BY <1>1, <1>3, RaisedCreationFacts, OthersKeep
<1>5. (\A w \in Workers : WorkerInv(w)') /\ QueueInv'
  BY <1>1, RaisedCreationFacts, WorkersKeep, QueueKeeps
<1>6. PassInv'
  BY <1>1, RaisedCreationFacts DEF IInv, PassInv
<1>7. QED
  BY <1>2, <1>4, <1>5, <1>6 DEF IInv

LEMMA GetKeeps ==
  ASSUME IInv, NEW r \in Runs, Get(r)
  PROVE  IInv'
<1>1. /\ TypeOK /\ RunInv(r) /\ Unowned(r) /\ phase = "serve" /\ Readable(r)
      /\ UNCHANGED <<disk, queue, pc, job, code, todo, requeued, phase, crashes, faults>>
  BY NobodysRun DEF IInv, Get, Serving, bounds
<1>2. DEFINE e == ReadRun(r)
<1>3. /\ e \in ViewRecords
      /\ e.state = disk[r].state /\ e.code = disk[r].code
      /\ e.attempts = disk[r].attempts /\ e.result = disk[r].result
  BY <1>1 DEF ReadRun, Readable, TypeOK, DiskRecords, ViewRecords
<1>4. view' = [view EXCEPT ![r] = e]
  BY DEF Get
<1> HIDE DEF e
<1>5. /\ view' \in [Runs -> ViewRecords] /\ view'[r] = e
      /\ \A q \in Runs : q # r => view'[q] = view[q]
  BY <1>1, <1>3, <1>4 DEF TypeOK
<1>6. TypeOK'
  BY <1>1, <1>5 DEF TypeOK
<1>7. RunInv(r)'
  BY <1>1, <1>3, <1>5 DEF RunInv, Ready, Cached, Readable
<1>8. \A q \in Runs : RunInv(q)'
  BY <1>1, <1>5, <1>7, OthersKeep
<1>9. (\A w \in Workers : WorkerInv(w)') /\ QueueInv'
  BY <1>1, <1>5, WorkersKeep, QueueKeeps
<1>10. PassInv'
  BY <1>1 DEF IInv, PassInv
<1>11. QED
  BY <1>6, <1>8, <1>9, <1>10 DEF IInv

-----------------------------------------------------------------------------
(* Recovery and reconciliation.                                            *)

LEMMA StartKeeps ==
  ASSUME IInv, Start
  PROVE  IInv'
<1>1. /\ TypeOK /\ queue = <<>> /\ \A w \in Workers : pc[w] = "idle"
      /\ UNCHANGED <<disk, queue, pc, job, code, requeued, crashes, faults>>
      /\ phase' = "recover" /\ todo' = {q \in Runs : Unfinished(q)}
  BY DEF IInv, PassInv, Start, bounds
<1>2. ASSUME NEW r \in Runs
      PROVE  /\ view'[r] \in ViewRecords
             /\ Ready(r) /\ Readable(r) =>
                  /\ view'[r].state = disk[r].state /\ view'[r].code = disk[r].code
                  /\ view'[r].attempts = disk[r].attempts
                  /\ view'[r].result = disk[r].result
             /\ ~(Ready(r) /\ Readable(r)) => view'[r].state = "none"
  <2>1. CASE Ready(r) /\ Readable(r)
    <3>1. view'[r] = ReadRun(r)
      BY <2>1 DEF Start
    <3>2. ReadRun(r) \in ViewRecords
      BY <1>1, <2>1 DEF ReadRun, Readable, TypeOK, DiskRecords, ViewRecords
    <3>3. QED
      BY <2>1, <3>1, <3>2 DEF ReadRun
  <2>2. CASE ~(Ready(r) /\ Readable(r))
    <3>1. view'[r] = NoView
      BY <2>2 DEF Start
    <3>2. QED
      BY <2>2, <3>1 DEF NoView, ViewRecords, Codes
  <2>3. QED
    BY <2>1, <2>2
<1>3. TypeOK'
  <2>1. view' \in [Runs -> ViewRecords]
    BY <1>2 DEF Start
  <2>2. QED
    BY <1>1, <2>1 DEF TypeOK
<1>4. ASSUME NEW r \in Runs PROVE RunInv(r)'
  <2>1. RunInv(r)
    BY DEF IInv
  <2>2. QED
    BY <1>1, <1>2, <2>1 DEF RunInv, Ready, Cached, Readable
<1>5. \A w \in Workers : WorkerInv(w)'
  BY <1>1 DEF IInv, WorkerInv
<1>6. QueueInv'
  BY <1>1 DEF IInv, QueueInv
<1>7. PassInv'
  <2> SUFFICES ASSUME NEW r \in Runs, Unfinished(r)
               PROVE  /\ Unfinished(r)'
                      /\ (disk[r].state = "queued" => Cached(r))'
                      /\ view'[r].state # "failed"
                      /\ (disk[r].result = "partial" => ~Cached(r))'
    BY <1>1 DEF PassInv
  <2>1. RunInv(r)
    BY DEF IInv
  <2>2. QED
    BY <1>1, <1>2, <2>1 DEF Unfinished, Readable, Ready, Cached, ActiveStates, RunInv
<1>8. QED
  BY <1>3, <1>4, <1>5, <1>6, <1>7 DEF IInv

(* An event that a pass appends to a run that nobody has.                  *)
LEMMA PassAppends ==
  ASSUME IInv, NEW r \in Runs, Ready(r), Unowned(r),
         NEW s \in {"completed", "failed"}, NEW c \in Codes,
         s = "completed" <=> c = NoCode,
         s = "completed" => disk[r].result = "good",
         view[r].state \notin {"none", "failed"} => disk[r].result # "partial",
         view[r].state = "failed" => disk[r].result # "partial",
         AppendEvent(r, s, c), UNCHANGED <<queue, pc, job, code>>
  PROVE  /\ disk' \in [Runs -> DiskRecords] /\ view' \in [Runs -> ViewRecords]
         /\ \A q \in Runs : q # r => disk'[q] = disk[q] /\ view'[q] = view[q]
         /\ \A q \in Runs : RunInv(q)'
         /\ \A w \in Workers : WorkerInv(w)'
         /\ QueueInv'
<1>1. TypeOK /\ RunInv(r) /\ s \in RunStates
  BY DEF IInv, RunStates
<1>2. /\ disk' \in [Runs -> DiskRecords] /\ view' \in [Runs -> ViewRecords]
      /\ \A q \in Runs : q # r => disk'[q] = disk[q] /\ view'[q] = view[q]
  BY <1>1, AppendFacts
<1>3. RunInv(r)'
  <2>1. disk'[r].attempts = disk[r].attempts /\ Attempts(r, s) = disk[r].attempts
    BY <1>1, AppendFacts, AttemptsNat
  <2>2. CASE Cached(r)
    <3>1. ~RefreshFails(r) /\ disk[r].result # "partial"
      BY <2>2 DEF RefreshFails, Cached
    <3>2. QED
      BY <1>1, <2>1, <2>2, <3>1, AppendFacts DEF RunInv, Ready, Cached
  <2>3. CASE ~Cached(r)
    BY <1>1, <2>1, <2>3, AppendFacts DEF RunInv, Ready, Cached
  <2>4. QED
    BY <2>2, <2>3
<1>4. QED
  BY <1>2, <1>3, OthersKeep, WorkersKeep, QueueKeeps

LEMMA RecoverRunKeeps ==
  ASSUME IInv, NEW r \in Runs, RecoverRun(r)
  PROVE  IInv'
<1>1. /\ TypeOK /\ RunInv(r) /\ phase = "recover" /\ r \in todo
      /\ \A w \in Workers : pc[w] = "idle" /\ job[w] = NoRun
      /\ UNCHANGED <<pc, job, code, phase, requeued, crashes, faults>>
  BY DEF IInv, RecoverRun, PassInv, WorkerInv, bounds
<1>2. \A q \in todo : /\ Unfinished(q)
                      /\ disk[q].state = "queued" => Cached(q)
                      /\ view[q].state # "failed"
                      /\ disk[q].result = "partial" => ~Cached(q)
                      /\ \A i \in 1 .. Len(queue) : queue[i] # q
  BY <1>1 DEF IInv, PassInv
<1>3. Ready(r) /\ ~disk[r].torn /\ Unowned(r)
  BY <1>1, <1>2, RunServiceConstants DEF Unfinished, Unowned
<1>4. ASSUME NEW s \in {"completed", "failed"}, NEW c \in Codes,
             s = "completed" <=> c = NoCode,
             s = "completed" => disk[r].result = "good",
             AppendEvent(r, s, c), todo' = todo \ {r}, UNCHANGED queue
      PROVE  IInv'
  <2>1. /\ disk' \in [Runs -> DiskRecords] /\ view' \in [Runs -> ViewRecords]
        /\ \A q \in Runs : q # r => disk'[q] = disk[q] /\ view'[q] = view[q]
        /\ \A q \in Runs : RunInv(q)'
        /\ \A w \in Workers : WorkerInv(w)'
        /\ QueueInv'
    <3>1. view[r].state \notin {"none", "failed"} => disk[r].result # "partial"
      BY <1>1, <1>2 DEF Cached
    <3>2. view[r].state # "failed"
      BY <1>1, <1>2
    <3>3. QED
      BY <1>1, <1>3, <1>4, <3>1, <3>2, PassAppends
  <2>2. TypeOK'
    BY <1>1, <1>4, <2>1 DEF TypeOK
  <2>3. PassInv'
    <3>1. \A q \in todo' : q \in todo /\ q # r /\ q \in Runs
      BY <1>1, <1>4 DEF TypeOK
    <3>2. QED
      BY <1>1, <1>2, <1>4, <2>1, <3>1 DEF PassInv, Unfinished, Ready, Cached
  <2>4. QED
    BY <2>1, <2>2, <2>3 DEF IInv
<1>5. CASE RecoverFinished(r)
  <2>1. CASE disk[r].result = "good"
    BY <1>4, <1>5, <2>1 DEF RecoverFinished, RecoverPersistedResult, Codes
  <2>2. CASE disk[r].result # "good"
    <3>1. "RESULT_RECORD_INVALID" \in Codes \ {NoCode}
      BY DEF Codes, ServiceFailures, NoCode
    <3>2. QED
      BY <1>4, <1>5, <2>2, <3>1 DEF RecoverFinished, RecoverPersistedResult
  <2>3. QED
    BY <2>1, <2>2
<1>6. CASE RecoverLost(r)
  <2>1. "JOB_LOST" \in Codes \ {NoCode}
    BY DEF Codes, ServiceFailures, NoCode
  <2>2. QED
    BY <1>4, <1>6, <2>1 DEF RecoverLost
<1>7. CASE RecoverQueued(r)
  <2>1. /\ disk[r].state = "queued" /\ UNCHANGED <<disk, view>>
        /\ \/ queue' = queue /\ todo' \subseteq todo
           \/ queue' = Append(queue, r) /\ todo' = todo \ {r} /\ HasRoom
    BY <1>7 DEF RecoverQueued, Dispatched
  <2>2. \A q \in Runs : RunInv(q)'
    BY <1>1, <2>1, RunFrame DEF IInv, Raised
  <2>3. \A w \in Workers : WorkerInv(w)'
    BY <1>1, <1>3, <2>1, WorkersKeep
  <2>4. Waiting(r)'
    BY <1>1, <1>2, <1>3, <2>1 DEF Waiting, Ready, Cached
  <2>5. CASE queue' = queue /\ todo' \subseteq todo
    <3>1. QueueInv'
      BY <1>1, <1>3, <2>1, <2>5, QueueKeeps
    <3>2. TypeOK'
      BY <1>1, <2>1, <2>5 DEF TypeOK
    <3>3. PassInv'
      BY <1>1, <1>2, <2>1, <2>5 DEF PassInv, Unfinished, Ready, Cached
    <3>4. QED
      BY <2>2, <2>3, <3>1, <3>2, <3>3 DEF IInv
  <2>6. CASE queue' = Append(queue, r) /\ todo' = todo \ {r} /\ HasRoom
    <3>1. /\ QueueInv' /\ queue' \in Seq(Runs) /\ Len(queue') <= MaxQueued
          /\ \A i \in 1 .. Len(queue') :
               queue'[i] = r \/ \E j \in 1 .. Len(queue) : queue'[i] = queue[j]
      BY <1>1, <1>3, <2>1, <2>4, <2>6, QueueGrows
    <3>2. TypeOK'
      BY <1>1, <2>1, <2>6, <3>1 DEF TypeOK
    <3>3. \A q \in todo' : q \in todo /\ \A i \in 1 .. Len(queue') : queue'[i] # q
      BY <1>2, <2>6, <3>1
    <3>4. PassInv'
      BY <1>1, <1>2, <2>1, <3>3 DEF PassInv, Unfinished, Ready, Cached
    <3>5. QED
      BY <2>2, <2>3, <3>1, <3>2, <3>4 DEF IInv
  <2>7. QED
    BY <2>1, <2>5, <2>6
<1>8. QED
  BY <1>5, <1>6, <1>7 DEF RecoverRun

(* The steps at which a pass begins or ends write nothing.                 *)
LEMMA PassStepKeeps ==
  ASSUME IInv, phase # "down",
         UNCHANGED <<disk, view, queue, pc, job, code, crashes, faults>>,
         requeued' \in Nat, todo' \subseteq Runs,
         \/ phase' = "serve" /\ todo' = {}
         \/ phase' = "reconcile" /\ todo' = Candidates
  PROVE  IInv'
<1>1. TypeOK'
  BY DEF IInv, TypeOK
<1>2. \A r \in Runs : RunInv(r)'
  BY RunFrame DEF IInv, Raised
<1>3. \A w \in Workers : WorkerInv(w)'
  BY WorkerFrame DEF IInv
<1>4. QueueInv'
  BY DEF IInv, QueueInv, Waiting, Ready, Cached
<1>5. PassInv'
  BY DEF IInv, PassInv, Candidates
<1>6. QED
  BY <1>1, <1>2, <1>3, <1>4, <1>5 DEF IInv

LEMMA RecoverEndsKeeps ==
  ASSUME IInv, RecoverEnds
  PROVE  IInv'
<1>1. Candidates \subseteq Runs /\ requeued \in Nat
  BY DEF Candidates, IInv, TypeOK
<1>2. QED
  BY <1>1, PassStepKeeps DEF RecoverEnds, ReconcileStarts, bounds

LEMMA ReconcileBeginsKeeps ==
  ASSUME IInv, ReconcileBegins
  PROVE  IInv'
<1>1. Candidates \subseteq Runs
  BY DEF Candidates
<1>2. QED
  BY <1>1, PassStepKeeps DEF ReconcileBegins, ReconcileStarts, Serving, bounds

LEMMA ReconcileEndsKeeps ==
  ASSUME IInv, ReconcileEnds
  PROVE  IInv'
BY PassStepKeeps DEF ReconcileEnds, bounds

LEMMA ReconcileRunKeeps ==
  ASSUME IInv, NEW r \in Runs, ReconcileRun(r)
  PROVE  IInv'
<1>1. /\ TypeOK /\ RunInv(r) /\ phase = "reconcile" /\ r \in Candidates /\ HasRoom
      /\ todo \subseteq Candidates /\ todo' = todo \ {r}
      /\ UNCHANGED <<pc, job, code, phase, crashes, faults>>
  BY DEF IInv, PassInv, ReconcileRun, GoesOn, bounds
<1>2. /\ view[r].state = "failed" /\ Ready(r) /\ Cached(r)
      /\ disk[r].state \in {"failed", "queued", "completed"} /\ disk[r].result # "partial"
      /\ disk[r].result = "none" => disk[r].attempts < MaxRunAttempts
      /\ disk[r].attempts \in Nat
  BY <1>1, RunServiceConstants DEF Candidates, RunInv, BrokenOff, Cached, TypeOK, DiskRecords
<1>3. Unowned(r)
  BY <1>2, NobodysRun
<1>4. ASSUME \A q \in Runs : q # r => disk'[q] = disk[q] /\ view'[q] = view[q]
      PROVE  todo' \subseteq Candidates'
  BY <1>1, <1>4 DEF Candidates
<1>5. CASE ReconcileFinished(r)
  <2>1. AppendEvent(r, "completed", NoCode) /\ disk[r].result = "good"
    BY <1>1, <1>2, <1>5 DEF ReconcileFinished, RecoverPersistedResult, TypeOK, DiskRecords
  <2>2. NoCode \in Codes
    BY DEF Codes
  <2>3. /\ disk' \in [Runs -> DiskRecords] /\ view' \in [Runs -> ViewRecords]
        /\ \A q \in Runs : q # r => disk'[q] = disk[q] /\ view'[q] = view[q]
        /\ \A q \in Runs : RunInv(q)'
        /\ \A w \in Workers : WorkerInv(w)'
        /\ QueueInv'
    BY <1>1, <1>2, <1>3, <1>5, <2>1, <2>2, PassAppends DEF ReconcileFinished
  <2>4. TypeOK'
    BY <1>1, <1>5, <2>3 DEF TypeOK, ReconcileFinished
  <2>5. PassInv'
    BY <1>1, <1>4, <2>3 DEF PassInv
  <2>6. QED
    BY <2>3, <2>4, <2>5 DEF IInv
<1>6. CASE ReconcileFailed(r)
  <2>1. /\ AppendEvent(r, "queued", NoCode) /\ NoCode \in Codes /\ "queued" \in RunStates
        /\ disk[r].result = "none" /\ ~RefreshFails(r)
    BY <1>6 DEF ReconcileFailed, Codes, RunStates, RefreshFails
  <2>2. /\ disk' \in [Runs -> DiskRecords] /\ view' \in [Runs -> ViewRecords]
        /\ \A q \in Runs : q # r => disk'[q] = disk[q] /\ view'[q] = view[q]
    BY <1>1, <2>1, AppendFacts
  <2>3. disk'[r].attempts = disk[r].attempts /\ Attempts(r, "queued") = disk[r].attempts
    BY <1>1, <2>1, AppendFacts, AttemptsNat
  <2>4. RunInv(r)'
    BY <1>1, <1>2, <2>1, <2>3, AppendFacts DEF RunInv, Ready, Cached
  <2>5. \A q \in Runs : RunInv(q)'
    BY <1>1, <2>2, <2>4, OthersKeep
  <2>6. \A w \in Workers : WorkerInv(w)'
    BY <1>1, <1>3, <2>2, WorkersKeep
  <2>7. Waiting(r)'
    BY <1>1, <1>2, <2>1, AppendFacts DEF Waiting, Ready, Cached
  <2>8. QueueInv' /\ queue' \in Seq(Runs) /\ Len(queue') <= MaxQueued
    BY <1>1, <1>3, <1>6, <2>2, <2>7, QueueGrows DEF ReconcileFailed
  <2>9. requeued' \in Nat
    BY <1>1, <1>6 DEF ReconcileFailed, TypeOK
  <2>10. TypeOK'
    BY <1>1, <2>2, <2>8, <2>9 DEF TypeOK
  <2>11. PassInv'
    BY <1>1, <1>4, <2>2 DEF PassInv
  <2>12. QED
    BY <2>5, <2>6, <2>8, <2>10, <2>11 DEF IInv
<1>7. QED
  BY <1>5, <1>6 DEF ReconcileRun

(* An event cut short hides the log, and counts as an attempt if it was    *)
(* the first one of an attempt.                                            *)
LEMMA TornKeeps ==
  ASSUME TypeOK, NEW r \in Runs, RunInv(r), Ready(r), NEW s,
         TornEvent(r, s), Attempts(r, s) <= MaxRunAttempts,
         view'[r] = view[r] \/ view'[r] = NoView
  PROVE  RunInv(r)'
BY TornFacts DEF RunInv, Ready, Cached, NoView, BrokenOff

LEMMA ReconcileFailsKeeps ==
  ASSUME IInv, NEW r \in Runs, ReconcileFails(r)
  PROVE  IInv'
<1>1. /\ TypeOK /\ RunInv(r) /\ r \in Candidates
      /\ phase' = "serve" /\ todo' = {} /\ requeued' = 0 /\ faults' \in Nat
      /\ UNCHANGED <<view, queue, pc, job, code, crashes>>
  BY DEF IInv, TypeOK, PassInv, ReconcileFails
<1> DEFINE s == IF disk[r].result = "none" THEN "queued" ELSE "completed"
<1>2. /\ view[r].state = "failed" /\ IsRetryableFailure(r, view[r].code)
      /\ Ready(r) /\ Cached(r) /\ disk[r].result \in {"none", "good"}
      /\ disk[r].result = "none" => disk[r].attempts < MaxRunAttempts
      /\ disk[r].attempts <= MaxRunAttempts /\ disk[r].attempts \in Nat
  BY <1>1, RunServiceConstants DEF Candidates, RunInv, Cached, TypeOK, DiskRecords
<1>3. Unowned(r)
  BY <1>2, NobodysRun
<1>4. /\ UNCHANGED disk \/ TornEvent(r, s) \/ WriteEvent(r, s, NoCode)
      /\ s \in RunStates /\ NoCode \in Codes
      /\ \/ s = "queued" /\ disk[r].result = "none"
         \/ s = "completed" /\ disk[r].result = "good"
      /\ Attempts(r, s) = disk[r].attempts
  BY <1>1, <1>2, AttemptsNat DEF ReconcileFails, EventFails, RunStates, Codes
<1> HIDE DEF s
<1>5. /\ disk' \in [Runs -> DiskRecords]
      /\ \A q \in Runs : q # r => disk'[q] = disk[q]
  BY <1>1, <1>4, TornFacts, WriteFacts DEF TypeOK
<1>6. RunInv(r)'
  <2>1. CASE TornEvent(r, s)
    BY <1>1, <1>2, <1>4, <2>1, TornKeeps
  <2>2. CASE UNCHANGED disk
    BY <1>1, <2>2, RunFrame DEF Raised
  <2>3. CASE WriteEvent(r, s, NoCode)
    <3>1. /\ disk'[r].state = s /\ disk'[r].code = NoCode
          /\ disk'[r].attempts = disk[r].attempts
          /\ disk'[r].stage = disk[r].stage /\ disk'[r].result = disk[r].result
      BY <1>1, <1>4, <2>3, WriteFacts
    <3>2. BrokenOff(r)'
      BY <1>1, <1>2, <1>4, <3>1 DEF BrokenOff, IsRetryableFailure
    <3>3. QED
      BY <1>1, <1>2, <1>4, <3>1, <3>2 DEF RunInv, Ready, Cached
  <2>4. QED
    BY <1>4, <2>1, <2>2, <2>3
<1>7. \A q \in Runs : RunInv(q)'
  BY <1>1, <1>5, <1>6, OthersKeep
<1>8. (\A w \in Workers : WorkerInv(w)') /\ QueueInv'
  BY <1>1, <1>3, <1>5, WorkersKeep, QueueKeeps
<1>9. TypeOK' /\ PassInv'
  BY <1>1, <1>5 DEF TypeOK, PassInv
<1>10. QED
  BY <1>7, <1>8, <1>9 DEF IInv

-----------------------------------------------------------------------------
(* The process dies.                                                       *)

(* Of a process that dies only the run directories are left.               *)
LEMMA DiesKeeps ==
  ASSUME IInv, Dies, disk' \in [Runs -> DiskRecords], \A r \in Runs : RunInv(r)'
  PROVE  IInv'
<1>1. /\ phase' = "down" /\ view' = [r \in Runs |-> NoView] /\ queue' = <<>>
      /\ pc' = [w \in Workers |-> "idle"] /\ job' = [w \in Workers |-> NoRun]
      /\ code' = [w \in Workers |-> NoCode] /\ todo' = {} /\ requeued' = 0
      /\ faults' = faults /\ crashes' \in Nat /\ faults \in Nat
  BY DEF Dies, IInv, TypeOK
<1>2. NoView \in ViewRecords /\ NoCode \in Codes
  BY DEF NoView, ViewRecords, Codes
<1>3. queue' \in Seq(Runs) /\ Len(queue') = 0 /\ 0 <= MaxQueued
  BY <1>1, RunServiceConstants
<1>4. TypeOK'
  BY <1>1, <1>2, <1>3 DEF TypeOK, PcLabels
<1>5. \A w \in Workers : WorkerInv(w)'
  BY <1>1 DEF WorkerInv
<1>6. QueueInv' /\ PassInv'
  BY <1>1, <1>3 DEF QueueInv, PassInv
<1>7. QED
  BY <1>4, <1>5, <1>6 DEF IInv

LEMMA ForgottenRun ==
  ASSUME NEW r \in Runs, RunInv(r), disk'[r] = disk[r], view'[r] = NoView
  PROVE  RunInv(r)'
BY DEF RunInv, Ready, Cached, NoView

LEMMA CrashKeeps ==
  ASSUME IInv, Crash
  PROVE  IInv'
<1>1. \A r \in Runs : RunInv(r)'
  BY ForgottenRun DEF IInv, Crash, Dies
<1>2. QED
  BY <1>1, DiesKeeps DEF Crash, IInv, TypeOK

LEMMA CrashInCreateKeeps ==
  ASSUME IInv, CrashInCreate
  PROVE  IInv'
<1>1. PICK r \in Runs : HalfCreated(r)
  BY DEF CrashInCreate
<1>2. \A q \in Runs : view'[q] = NoView
  BY DEF CrashInCreate, Dies
<1>3. RunInv(r)'
  BY <1>1, <1>2, HalfCreatedFacts, RunServiceConstants DEF RunInv, Ready, Cached, NoView
<1>4. \A q \in Runs : q # r => RunInv(q)'
  BY <1>1, <1>2, HalfCreatedFacts, ForgottenRun DEF IInv
<1>5. QED
  BY <1>1, <1>3, <1>4, HalfCreatedFacts, DiesKeeps DEF CrashInCreate

(* The event a thread is about to append is within the attempt limit.      *)
LEMMA PendingAttempt ==
  ASSUME IInv, NEW w \in Workers, pc[w] \in DOMAIN PendingEvent
  PROVE  /\ job[w] \in Runs /\ Ready(job[w])
         /\ Attempts(job[w], PendingEvent[pc[w]]) <= MaxRunAttempts
<1>1. TypeOK /\ pc[w] \in {"taken", "prepared", "executed", "written", "failing"}
  BY DEF PendingEvent, IInv
<1>2. PICK r \in Runs : /\ r = job[w]
                        /\ Ready(r) /\ Cached(r) /\ view[r].state # "failed"
                        /\ JobAt(pc[w], r) /\ RunInv(r)
  BY <1>1, Busy
<1>3. pc[w] = "taken" => disk[r].attempts < MaxRunAttempts
  BY <1>2 DEF JobAt, RunInv
<1>4. disk[r].attempts \in Nat /\ disk[r].attempts <= MaxRunAttempts
  BY <1>1, <1>2 DEF TypeOK, DiskRecords, RunInv
<1>5. PendingEvent[pc[w]] = "preparing" => pc[w] = "taken"
  BY <1>1 DEF PendingEvent
<1>6. QED
  BY <1>1, <1>2, <1>3, <1>4, <1>5, AttemptsNat, RunServiceConstants

LEMMA CrashInAppendKeeps ==
  ASSUME IInv, CrashInAppend
  PROVE  IInv'
<1> DEFINE Torn(r, s) == Ready(r) /\ TornEvent(r, s) /\ Attempts(r, s) <= MaxRunAttempts
<1>1. \E r \in Runs, s \in RunStates : Torn(r, s)
  <2>1. TypeOK /\ \A r \in Runs : RunInv(r)
    BY DEF IInv
  <2>2. ASSUME NEW w \in Workers, pc[w] \in DOMAIN PendingEvent,
               TornEvent(job[w], PendingEvent[pc[w]])
        PROVE  \E r \in Runs, s \in RunStates : Torn(r, s)
    <3>1. PendingEvent[pc[w]] \in RunStates
      BY <2>2 DEF PendingEvent, RunStates, ActiveStates
    <3>2. QED
      BY <2>2, <3>1, PendingAttempt
  <2>3. ASSUME NEW r \in todo, Ready(r), NEW s \in {"failed", "queued"}, TornEvent(r, s)
        PROVE  \E q \in Runs, e \in RunStates : Torn(q, e)
    <3>1. r \in Runs /\ s \in RunStates
      BY <2>1 DEF TypeOK, RunStates
    <3>2. Attempts(r, s) <= MaxRunAttempts
      BY <2>1, <2>3, <3>1, AttemptsNat DEF RunInv
    <3>3. QED
      BY <2>3, <3>1, <3>2
  <2>4. \A r \in todo : phase \in {"recover", "reconcile"} => Ready(r)
    BY <2>1 DEF IInv, PassInv, TypeOK, Unfinished, Candidates, RunInv
  <2>5. QED
    BY <2>2, <2>3, <2>4 DEF CrashInAppend
<1>2. PICK r \in Runs, s \in RunStates : Torn(r, s)
  BY <1>1
<1>3. TypeOK /\ Dies /\ \A q \in Runs : RunInv(q) /\ view'[q] = NoView
  BY DEF IInv, CrashInAppend, Dies
<1>4. disk' \in [Runs -> DiskRecords] /\ \A q \in Runs : q # r => disk'[q] = disk[q]
  BY <1>2, <1>3, TornFacts
<1>5. RunInv(r)'
  BY <1>2, <1>3, TornKeeps
<1>6. \A q \in Runs : q # r => RunInv(q)'
  BY <1>3, <1>4, ForgottenRun
<1>7. QED
  BY <1>3, <1>4, <1>5, <1>6, DiesKeeps

-----------------------------------------------------------------------------
(* The invariant.                                                          *)

LEMMA InitIInv == Init => IInv
<1> SUFFICES ASSUME Init PROVE IInv
  OBVIOUS
<1>1. /\ disk = [r \in Runs |-> NoDisk] /\ view = [r \in Runs |-> NoView]
      /\ queue = <<>> /\ pc = [w \in Workers |-> "idle"]
      /\ job = [w \in Workers |-> NoRun] /\ code = [w \in Workers |-> NoCode]
      /\ phase = "down" /\ todo = {} /\ requeued = 0 /\ crashes = 0 /\ faults = 0
  BY DEF Init
<1>2. NoDisk \in DiskRecords /\ NoView \in ViewRecords /\ NoCode \in Codes
  BY DEF NoDisk, NoView, DiskRecords, ViewRecords, Codes
<1>3. queue \in Seq(Runs) /\ Len(queue) = 0 /\ 0 <= MaxQueued /\ 0 < MaxRunAttempts
  BY <1>1, RunServiceConstants
<1>4. TypeOK
  <2>1. disk \in [Runs -> DiskRecords] /\ view \in [Runs -> ViewRecords]
    BY <1>1, <1>2
  <2>2. /\ pc \in [Workers -> PcLabels] /\ job \in [Workers -> Runs \cup {NoRun}]
        /\ code \in [Workers -> Codes]
    BY <1>1, <1>2 DEF PcLabels
  <2>3. QED
    BY <1>1, <1>3, <2>1, <2>2 DEF TypeOK
<1>5. ASSUME NEW r \in Runs PROVE RunInv(r)
  <2>1. /\ disk[r].stage = "absent" /\ disk[r].state = "none" /\ disk[r].attempts = 0
        /\ disk[r].result = "none" /\ view[r].state = "none"
    BY <1>1 DEF NoDisk, NoView
  <2>2. QED
    BY <1>3, <2>1, RunServiceConstants DEF RunInv, Ready, Cached
<1>6. \A w \in Workers : WorkerInv(w)
  BY <1>1 DEF WorkerInv
<1>7. QueueInv /\ PassInv
  BY <1>1, <1>3 DEF QueueInv, PassInv
<1>8. QED
  BY <1>4, <1>5, <1>6, <1>7 DEF IInv

LEMMA StutterKeeps ==
  ASSUME IInv, UNCHANGED vars
  PROVE  IInv'
<1>1. UNCHANGED <<disk, view, queue, pc, job, code, phase, todo, requeued, crashes, faults>>
  BY DEF vars, memory, bounds
<1>2. TypeOK'
  BY <1>1 DEF IInv, TypeOK
<1>3. (\A r \in Runs : RunInv(r)') /\ (\A w \in Workers : WorkerInv(w)')
  BY <1>1, RunFrame, WorkerFrame DEF IInv, Raised
<1>4. QueueInv' /\ PassInv'
  BY <1>1 DEF IInv, QueueInv, PassInv, Waiting, Ready, Cached, Candidates, Unfinished
<1>5. QED
  BY <1>2, <1>3, <1>4 DEF IInv

LEMMA NextKeepsInv == IInv /\ [Next]_vars => IInv'
<1> SUFFICES ASSUME IInv, [Next]_vars PROVE IInv'
  OBVIOUS
<1>1. ASSUME NEW r \in Runs, Api(r) PROVE IInv'
  BY <1>1, CreateKeeps, GetKeeps, CreateFailsKeeps DEF Api
<1>2. ASSUME NEW r \in Runs, ReconcileFails(r) PROVE IInv'
  BY <1>2, ReconcileFailsKeeps
<1>3. ASSUME NEW w \in Workers, WorkerStep(w) PROVE IInv'
  BY <1>3, TakeKeeps, PreparingKeeps, RunningKeeps, RequestInvalidKeeps, ExecuteKeeps,
     FinalizingKeeps, CreateResultKeeps, CloseResultKeeps, CompletedKeeps, FailedKeeps
     DEF WorkerStep
<1>4. ASSUME NEW w \in Workers, WorkerFault(w) PROVE IInv'
  BY <1>4, AppendFailsKeeps, ResultFailsKeeps DEF WorkerFault
<1>5. CASE Pass
  BY <1>5, StartKeeps, RecoverEndsKeeps, ReconcileBeginsKeeps, ReconcileEndsKeeps,
     RecoverRunKeeps, ReconcileRunKeeps DEF Pass
<1>6. CASE Death
  BY <1>6, CrashKeeps, CrashInAppendKeeps, CrashInCreateKeeps DEF Death
<1>7. CASE UNCHANGED vars
  BY <1>7, StutterKeeps
<1>8. QED
  BY <1>1, <1>2, <1>3, <1>4, <1>5, <1>6, <1>7 DEF Next

(* The service is at all times in a state that its recovery, its threads   *)
(* and its reconciler can go on from: what the log, the index, the queue   *)
(* and the threads say of a run fits together.                             *)
THEOREM Invariance == Spec => []IInv
BY InitIInv, NextKeepsInv, PTL DEF Spec

(* Every variable keeps its type; the dispatch queue stays within          *)
(* max_queued although recovery and reconciliation fill it too.            *)
THEOREM TypeCorrect == Spec => []TypeOK
<1>1. IInv => TypeOK
  BY DEF IInv
<1>2. QED
  BY <1>1, Invariance, PTL

(* No run is prepared more than max_run_attempts times, over all crashes,  *)
(* failing writes and reconciliations.                                     *)
THEOREM AttemptsAreBounded == Spec => []AttemptsBounded
<1>1. IInv => AttemptsBounded
  BY DEF IInv, RunInv, AttemptsBounded
<1>2. QED
  BY <1>1, Invariance, PTL

(* A run is "completed", in its log and for clients, only with a result    *)
(* that was written to its end.                                            *)
THEOREM CompletedRunsHaveResults == Spec => []CompletedHasResult
<1>1. IInv => CompletedHasResult
  BY DEF IInv, RunInv, CompletedHasResult
<1>2. QED
  BY <1>1, Invariance, PTL

(* A run is waiting once, or has one thread.                               *)
THEOREM DispatchIsSingle == Spec => []SingleDispatch
<1>1. IInv => SingleDispatch
  <2> SUFFICES ASSUME IInv PROVE SingleDispatch
    OBVIOUS
  <2>1. DOMAIN queue = 1 .. Len(queue)
    BY DEF IInv, TypeOK
  <2>2. QED
    BY <2>1 DEF IInv, QueueInv, Waiting, SingleDispatch
<1>2. QED
  BY <1>1, Invariance, PTL

(* A thread that creates result.json finds no such file.                   *)
THEOREM ResultsAreCreatedOnce == Spec => []ResultCreationIsExclusive
<1>1. IInv => ResultCreationIsExclusive
  BY DEF IInv, WorkerInv, JobAt, ResultCreationIsExclusive
<1>2. QED
  BY <1>1, Invariance, PTL

(* The index agrees with the logs, unless a write of the run failed.       *)
THEOREM IndexAgrees == Spec => []IndexFollowsLog
<1>1. IInv => IndexFollowsLog
  BY DEF IInv, RunInv, IndexFollowsLog
<1>2. QED
  BY <1>1, Invariance, PTL

-----------------------------------------------------------------------------
(* Final runs.                                                             *)

(* A final run that is not in doubt has no thread that would write to it;  *)
(* the passes consider it only where a reconciliation broke off behind its *)
(* event "completed", and append that event again.                         *)
LEMMA FinalIsLeftAlone ==
  ASSUME IInv, NEW r \in Runs, Final(r), ~InDoubt(r)
  PROVE  /\ \A w \in Workers : pc[w] \notin {"idle", "dead"} => job[w] # r
         /\ ~Unfinished(r) /\ disk[r].stage # "absent"
         /\ r \in Candidates =>
              /\ Ready(r) /\ disk[r].state = "completed"
              /\ disk[r].result = "good" /\ disk[r].code = NoCode
<1>1. TypeOK /\ RunInv(r) /\ disk[r].state \in {"completed", "failed"}
  BY DEF IInv, Final
<1>2. ASSUME NEW w \in Workers, pc[w] \notin {"idle", "dead"}, job[w] = r PROVE FALSE
  <2>1. pc[w] \in PcLabels \ {"idle", "dead", "failing"} /\ JobAt(pc[w], r)
    BY <1>1, <1>2 DEF IInv, WorkerInv, TypeOK, InDoubt
  <2>2. QED
    BY <1>1, <2>1 DEF JobAt, PcLabels, ActiveStates
<1>3. ~Unfinished(r) /\ disk[r].stage # "absent"
  BY <1>1 DEF Unfinished, ActiveStates, RunInv
<1>4. ASSUME r \in Candidates
      PROVE  /\ Ready(r) /\ disk[r].state = "completed"
             /\ disk[r].result = "good" /\ disk[r].code = NoCode
  BY <1>1, <1>4 DEF Final, Candidates, RunInv, BrokenOff
<1>5. QED
  BY <1>2, <1>3, <1>4

LEMMA OtherRunKept ==
  ASSUME TypeOK, NEW r \in Runs, NEW q, q # r,
         \/ \E s, c : AppendEvent(q, s, c)
         \/ \E s, c : WriteEvent(q, s, c)
         \/ \E s, c : EventFails(q, s, c)
         \/ \E s : TornEvent(q, s)
         \/ \E d : disk' = [disk EXCEPT ![q] = d]
         \/ \E d : disk' = [disk EXCEPT ![q].result = d]
         \/ \E d : disk' = [disk EXCEPT ![q].stage = d]
  PROVE  disk'[r] = disk[r]
<1>1. CASE \/ \E d : disk' = [disk EXCEPT ![q] = d]
           \/ \E d : disk' = [disk EXCEPT ![q].result = d]
           \/ \E d : disk' = [disk EXCEPT ![q].stage = d]
  BY <1>1 DEF TypeOK
<1>2. CASE \/ \E s, c : WriteEvent(q, s, c)
           \/ \E s : TornEvent(q, s)
  BY Zenon, <1>2 DEF WriteEvent, TornEvent, TypeOK
<1>3. QED
  BY <1>1, <1>2 DEF AppendEvent, EventFails

(* The event of a pass that looks at a completed run leaves its outcome.   *)
LEMMA CompletedAgain ==
  ASSUME TypeOK, NEW r \in Runs,
         disk[r].state = "completed", disk[r].code = NoCode,
         \/ AppendEvent(r, "completed", NoCode)
         \/ EventFails(r, "completed", NoCode)
         \/ TornEvent(r, "queued")
  PROVE  Outcome(r)' = Outcome(r)
<1>1. "completed" \in RunStates /\ NoCode \in Codes
  BY DEF RunStates, Codes
<1>2. CASE WriteEvent(r, "completed", NoCode)
  BY <1>1, <1>2, WriteFacts, AttemptsNat DEF Outcome
<1>3. ASSUME NEW s \in {"completed", "queued"}, TornEvent(r, s)
      PROVE  Outcome(r)' = Outcome(r)
  BY <1>3, TornFacts, AttemptsNat DEF Outcome
<1>4. QED
  BY <1>2, <1>3 DEF AppendEvent, EventFails, Outcome

LEMMA FinalStays ==
  ASSUME IInv, [Next]_vars, NEW r \in Runs, Final(r), ~InDoubt(r)
  PROVE  Outcome(r)' = Outcome(r)
<1> USE FinalIsLeftAlone, OtherRunKept
<1>1. /\ TypeOK
      /\ \A w \in Workers : pc[w] \notin {"idle", "dead"} => job[w] # r
      /\ ~Unfinished(r) /\ disk[r].stage # "absent"
      /\ r \in Candidates =>
           /\ Ready(r) /\ disk[r].state = "completed"
           /\ disk[r].result = "good" /\ disk[r].code = NoCode
      /\ phase = "reconcile" /\ r \in todo => r \in Candidates
      /\ phase = "recover" => r \notin todo
  BY DEF IInv, PassInv
<1>2. disk'[r] = disk[r] => Outcome(r)' = Outcome(r)
  BY DEF Outcome
<1>3. ASSUME NEW q \in Runs, Create(q) \/ HalfCreated(q) \/ CreateFails(q)
      PROVE  disk'[r] = disk[r]
  BY <1>1, <1>3 DEF Create, HalfCreated, CreateFails
<1>4. ASSUME NEW q \in Runs, Api(q) PROVE disk'[r] = disk[r]
  BY <1>3, <1>4 DEF Api, Get
<1>5. ASSUME NEW q \in Runs, ReconcileFails(q) PROVE Outcome(r)' = Outcome(r)
  <2>1. CASE q = r
    BY <1>1, <1>5, <2>1, CompletedAgain DEF ReconcileFails
  <2>2. CASE q # r
    BY <1>1, <1>2, <1>5, <2>2 DEF ReconcileFails
  <2>3. QED
    BY <2>1, <2>2
<1>6. ASSUME NEW w \in Workers, WorkerStep(w) PROVE disk'[r] = disk[r]
  <2>1. ASSUME Preparing(w) \/ Running(w) \/ Finalizing(w) \/ Completed(w) \/ Failed(w)
        PROVE  disk'[r] = disk[r]
    BY <1>1, <2>1 DEF Preparing, Running, Finalizing, Completed, Failed
  <2>2. ASSUME CreateResult(w) \/ CloseResult(w) PROVE disk'[r] = disk[r]
    BY <1>1, <2>2 DEF CreateResult, CloseResult
  <2>3. ASSUME Take(w) \/ RequestInvalid(w) \/ Execute(w) PROVE disk'[r] = disk[r]
    BY <2>3 DEF Take, RequestInvalid, Execute
  <2>4. QED
    BY <1>6, <2>1, <2>2, <2>3 DEF WorkerStep
<1>7. ASSUME NEW w \in Workers, WorkerFault(w) PROVE disk'[r] = disk[r]
  <2>1. \A label \in DOMAIN PendingEvent : label \notin {"idle", "dead"}
    BY DEF PendingEvent
  <2>2. QED
    BY <1>1, <1>7, <2>1 DEF WorkerFault, AppendFails, ResultFails
<1>8. CASE Pass
  <2>1. ASSUME NEW q \in Runs, RecoverRun(q) PROVE disk'[r] = disk[r]
    BY <1>1, <2>1
       DEF RecoverRun, RecoverFinished, RecoverLost, RecoverQueued, RecoverPersistedResult
  <2>2. ASSUME NEW q \in Runs, ReconcileRun(q) PROVE Outcome(r)' = Outcome(r)
    <3>1. CASE q = r
      <4>1. AppendEvent(r, "completed", NoCode)
        BY <1>1, <2>2, <3>1
           DEF ReconcileRun, ReconcileFinished, ReconcileFailed, RecoverPersistedResult
      <4>2. QED
        BY <1>1, <2>2, <3>1, <4>1, CompletedAgain DEF ReconcileRun
    <3>2. CASE q # r
      BY <1>1, <1>2, <2>2, <3>2
         DEF ReconcileRun, ReconcileFinished, ReconcileFailed, RecoverPersistedResult
    <3>3. QED
      BY <3>1, <3>2
  <2>3. QED
    BY <1>2, <1>8, <2>1, <2>2 DEF Pass, Start, RecoverEnds, ReconcileBegins, ReconcileEnds
<1>9. CASE Death
  <2>1. CASE CrashInAppend
    <3>1. \A label \in DOMAIN PendingEvent : label \notin {"idle", "dead"}
      BY DEF PendingEvent
    <3>2. CASE \E w \in Workers : /\ pc[w] \in DOMAIN PendingEvent
                                  /\ TornEvent(job[w], PendingEvent[pc[w]])
      BY <1>1, <1>2, <3>1, <3>2
    <3>3. ASSUME phase = "recover", NEW q \in todo, TornEvent(q, "failed")
          PROVE  Outcome(r)' = Outcome(r)
      BY <1>1, <1>2, <3>3
    <3>4. ASSUME phase = "reconcile", NEW q \in todo, TornEvent(q, "queued")
          PROVE  Outcome(r)' = Outcome(r)
      BY <1>1, <1>2, <3>4, CompletedAgain
    <3>5. QED
      BY <2>1, <3>2, <3>3, <3>4 DEF CrashInAppend
  <2>2. QED
    BY <1>2, <1>3, <1>9, <2>1 DEF Death, Crash, CrashInCreate
<1>10. CASE UNCHANGED vars
  BY <1>2, <1>10 DEF vars
<1>11. QED
  BY <1>2, <1>4, <1>5, <1>6, <1>7, <1>8, <1>9, <1>10 DEF Next

(* What is final stays as it is: no crash, late event or reconciliation    *)
(* reopens a completed run, or one that failed for good.  A thread whose   *)
(* append of "completed" raised may still fail the run.                    *)
THEOREM FinalStaysFinal == Spec => FinalIsFinal
<1>1. IInv /\ [Next]_vars =>
        [\A r \in Runs : Final(r) /\ ~InDoubt(r) => Outcome(r)' = Outcome(r)]_vars
  BY FinalStays
<1>2. QED
  BY <1>1, Invariance, PTL DEF Spec, FinalIsFinal

-----------------------------------------------------------------------------
(* No unfinished run is forgotten.                                         *)

(* From the restart on, somebody answers for each unfinished run: the      *)
(* queue, a thread, the recovery that has still to look at it, or the next *)
(* reconciliation; or its creation raised.                                 *)
Attended(r) == Assigned(r) \/ (phase = "recover" /\ r \in todo)

Excused(r) == r \in Candidates \/ CreationRaised(r)

NoneForgotten ==
  QueueHoldsAll /\ phase # "down" =>
    \A r \in Runs : Unfinished(r) => Attended(r) \/ Excused(r)

(* A sequence without repetitions whose elements come from a finite set    *)
(* and leave out one of them is shorter than the set is large.             *)
LEMMA RoomForOneMore ==
  ASSUME NEW S, IsFiniteSet(S), NEW s \in Seq(S), NEW r \in S,
         \A i \in 1 .. Len(s) : s[i] # r,
         \A i, j \in 1 .. Len(s) : i # j => s[i] # s[j]
  PROVE  Len(s) < Cardinality(S)
<1> DEFINE n == Len(s)
           I == 1 .. n
           f == [i \in I |-> s[i]]
           T == S \ {r}
<1>1. n \in Nat
  OBVIOUS
<1>2. IsFiniteSet(I) /\ Cardinality(I) = n
  <2> HIDE DEF n
  <2>1. IsFiniteSet(1 .. n) /\ Cardinality(1 .. n) = IF 1 > n THEN 0 ELSE n - 1 + 1
    BY <1>1, FS_Interval
  <2>2. QED
    BY <1>1, <2>1
<1>3. IsFiniteSet(T) /\ Cardinality(T) = Cardinality(S) - 1
  BY FS_RemoveElement
<1>4. f \in Injection(I, T)
  BY DEF Injection, IsInjective
<1>5. Cardinality(I) <= Cardinality(T)
  <2> HIDE DEF I, T, f
  <2>1. QED
    BY <1>2, <1>3, <1>4, FS_Injection
<1>6. Cardinality(S) \in Nat
  BY FS_CardinalityType
<1>7. QED
  BY <1>1, <1>2, <1>3, <1>5, <1>6

(* A run that is not in the queue finds room, if the queue holds all runs. *)
LEMMA UnqueuedHasRoom ==
  ASSUME IInv, QueueHoldsAll, NEW r \in Runs,
         \A i \in 1 .. Len(queue) : queue[i] # r
  PROVE  HasRoom
<1>1. queue \in Seq(Runs) /\ \A i, j \in 1 .. Len(queue) : i # j => queue[i] # queue[j]
  BY DEF IInv, TypeOK, QueueInv
<1>2. Len(queue) < Cardinality(Runs)
  BY <1>1, RoomForOneMore DEF QueueHoldsAll
<1>3. Len(queue) \in Nat /\ Cardinality(Runs) \in Nat
  BY <1>1, FS_CardinalityType DEF QueueHoldsAll
<1>4. QED
  BY <1>2, <1>3, RunServiceConstants DEF HasRoom, QueueHoldsAll

(* A run that a step leaves alone is excused as before.                    *)
LEMMA StillExcused ==
  ASSUME TypeOK, TypeOK', NEW r \in Runs, Excused(r),
         disk'[r] = disk[r], view'[r] = view[r], faults' \in {faults, faults + 1}
  PROVE  Excused(r)'
BY DEF TypeOK, Excused, Candidates, CreationRaised

(* A step that touches one run q, and takes no other run from whoever      *)
(* answers for it, has only q to answer for.                               *)
LEMMA OthersAttended ==
  ASSUME NoneForgotten, phase # "down", NEW q \in Runs,
         TypeOK, TypeOK', faults' \in {faults, faults + 1},
         \A r \in Runs : r # q => disk'[r] = disk[r] /\ view'[r] = view[r],
         QueueHoldsAll => \A r \in Runs : r # q /\ Attended(r) => Attended(r)',
         QueueHoldsAll /\ Unfinished(q)' => Attended(q)' \/ Excused(q)'
  PROVE  NoneForgotten'
<1> SUFFICES ASSUME QueueHoldsAll, NEW r \in Runs, Unfinished(r)'
             PROVE  Attended(r)' \/ Excused(r)'
  BY DEF NoneForgotten, QueueHoldsAll
<1>1. CASE r = q
  BY <1>1
<1>2. CASE r # q
  <2>1. Unfinished(r)
    BY <1>2 DEF Unfinished, Ready
  <2>2. QED
    BY <1>2, <2>1, StillExcused DEF NoneForgotten
<1>3. QED
  BY <1>1, <1>2

(* A step that touches no run directory only has to pass the runs on.      *)
LEMMA SameDiskAttended ==
  ASSUME NoneForgotten, phase # "down", TypeOK, TypeOK', UNCHANGED <<disk, view>>,
         faults' \in {faults, faults + 1},
         QueueHoldsAll => \A r \in Runs : Attended(r) => Attended(r)'
  PROVE  NoneForgotten'
BY StillExcused DEF NoneForgotten, QueueHoldsAll, Unfinished, Ready

(* What is put at the end of the queue is in it, with what was there.      *)
LEMMA QueuedIsAssigned ==
  ASSUME queue \in Seq(Runs), NEW q \in Runs, queue' = Append(queue, q), UNCHANGED job
  PROVE  Assigned(q)' /\ \A r \in Runs : Assigned(r) => Assigned(r)'
<1>1. /\ Len(queue) \in Nat /\ DOMAIN queue = 1 .. Len(queue)
      /\ DOMAIN (queue') = 1 .. Len(queue) + 1
      /\ queue'[Len(queue) + 1] = q
      /\ \A i \in 1 .. Len(queue) : queue'[i] = queue[i]
  OBVIOUS
<1>2. Len(queue) + 1 \in DOMAIN (queue') /\ DOMAIN queue \subseteq DOMAIN (queue')
  BY <1>1
<1>3. QED
  BY <1>1, <1>2 DEF Assigned

(* Requests: a new run is queued, half of a creation is not accepted.      *)
LEMMA ApiForgetsNone ==
  ASSUME IInv, IInv', NoneForgotten, NEW q \in Runs, Api(q)
  PROVE  NoneForgotten'
<1>1. /\ TypeOK /\ TypeOK' /\ phase = "serve" /\ phase' = phase /\ todo' = todo
      /\ faults' \in {faults, faults + 1}
  BY DEF Api, Create, CreateFails, HalfCreated, Get, Serving, memory, bounds, IInv
<1>2. CASE Create(q)
  <2>1. \A r \in Runs : r # q => disk'[r] = disk[r] /\ view'[r] = view[r]
    BY <1>1, <1>2 DEF Create, TypeOK
  <2>2. ASSUME QueueHoldsAll
        PROVE  Assigned(q)' /\ \A r \in Runs : Assigned(r) => Assigned(r)'
    BY <1>1, <1>2, <2>2, QueuedIsAssigned DEF Create, Dispatched, QueueHoldsAll, TypeOK
  <2>3. QED
    BY <1>1, <2>1, <2>2, OthersAttended DEF Attended
<1>3. CASE CreateFails(q)
  <2>1. /\ \A r \in Runs : r # q => disk'[r] = disk[r] /\ view'[r] = view[r]
        /\ disk'[q].attempts = 0 /\ faults' = faults + 1
    BY <1>3, RaisedCreationFacts DEF CreateFails, memory
  <2>2. Unfinished(q)' => Excused(q)'
    <3>1. disk'[q].state \in {"none", "queued"}
      BY <1>3, RaisedCreationFacts
    <3>2. QED
      BY <1>1, <2>1, <3>1 DEF Unfinished, ActiveStates, Excused, CreationRaised, TypeOK
  <2>3. \A r \in Runs : Attended(r) => Attended(r)'
    BY <1>1, <1>3 DEF CreateFails, memory, Attended, Assigned
  <2>4. QED
    BY <1>1, <2>1, <2>2, <2>3, OthersAttended
<1>4. CASE Get(q)
  <2>1. /\ UNCHANGED disk /\ \A r \in Runs : r # q => view'[r] = view[r]
        /\ ~Cached(q) /\ \A r \in Runs : Attended(r) => Attended(r)'
    BY <1>1, <1>4 DEF Get, Attended, Assigned, TypeOK
  <2>2. QueueHoldsAll /\ Unfinished(q)' => Attended(q)' \/ Excused(q)'
    BY <1>1, <2>1 DEF NoneForgotten, Excused, Candidates, Cached, CreationRaised,
                      Unfinished, Ready, Get, bounds, TypeOK
  <2>3. QED
    BY <1>1, <2>1, <2>2, OthersAttended
<1>5. QED
  BY <1>2, <1>3, <1>4 DEF Api

(* The two steps that end a thread's work on a run settle the run.         *)
LEMMA HandingBackForgetsNone ==
  ASSUME IInv, IInv', NoneForgotten, NEW w \in Workers, Completed(w) \/ Failed(w)
  PROVE  NoneForgotten'
<1>1. /\ TypeOK /\ TypeOK' /\ pc[w] # "idle" /\ phase = "serve"
      /\ UNCHANGED <<queue, phase, todo, faults>>
  BY DEF Completed, Failed, Serving, IInv, bounds
<1>2. PICK q \in Runs : /\ q = job[w]
                        /\ Ready(q) /\ Cached(q) /\ view[q].state # "failed"
                        /\ JobAt(pc[w], q) /\ RunInv(q)
  BY <1>1, Busy
<1>3. \E s \in {"completed", "failed"}, c \in Codes : AppendEvent(q, s, c)
  BY <1>1, <1>2 DEF Completed, Failed, TypeOK, Codes
<1>4. /\ \A r \in Runs : r # q => disk'[r] = disk[r] /\ view'[r] = view[r]
      /\ disk'[q].state \in {"completed", "failed"}
  BY <1>1, <1>3, AppendFacts DEF RunStates
<1>5. ~Unfinished(q)'
  BY <1>4 DEF Unfinished, ActiveStates
<1>6. \A v \in Workers : v # w => job'[v] = job[v]
  BY <1>1 DEF Completed, Failed, NextItem, Goto, TypeOK
<1>7. ASSUME NEW r \in Runs, r # q, Attended(r) PROVE Attended(r)'
  BY <1>1, <1>2, <1>6, <1>7 DEF Attended, Assigned
<1>8. QED
  BY <1>1, <1>4, <1>5, <1>7, OthersAttended

(* What a thread takes from the queue it has in hand; and in every other   *)
(* step it keeps what it has, a failing one included.                      *)
LEMMA WorkerForgetsNone ==
  ASSUME IInv, IInv', NoneForgotten, NEW w \in Workers, WorkerStep(w) \/ WorkerFault(w)
  PROVE  NoneForgotten'
<1>1. /\ TypeOK /\ TypeOK' /\ phase \in {"reconcile", "serve"} /\ UNCHANGED <<phase, todo>>
      /\ faults' \in {faults, faults + 1}
  BY DEF WorkerStep, WorkerFault, Take, Preparing, Running, RequestInvalid, Execute, Finalizing,
         CreateResult, CloseResult, Completed, Failed, AppendFails, ResultFails,
         Up, Serving, IInv, bounds
<1>2. CASE Take(w)
  <2>1. /\ queue \in Seq(Runs) /\ queue # <<>> /\ queue' = Tail(queue)
        /\ job' = [job EXCEPT ![w] = Head(queue)] /\ job[w] = NoRun
        /\ UNCHANGED <<disk, view>>
    BY <1>1, <1>2 DEF Take, TypeOK, IInv, WorkerInv
  <2>2. job \in [Workers -> Runs \cup {NoRun}]
    BY <1>1 DEF TypeOK
  <2>3. ASSUME NEW r \in Runs, Assigned(r) PROVE Assigned(r)'
    <3>1. CASE \E v \in Workers : job[v] = r
      BY <2>1, <2>2, <3>1, RunServiceConstants DEF Assigned
    <3>2. CASE \E i \in DOMAIN queue : queue[i] = r
      <4>1. PICK i \in 1 .. Len(queue) : queue[i] = r
        BY <2>1, <3>2
      <4>2. CASE i = 1
        BY <2>1, <2>2, <4>1, <4>2 DEF Assigned
      <4>3. CASE i # 1
        <5>1. i - 1 \in 1 .. Len(queue) - 1 /\ Len(queue) \in Nat
          BY <2>1, <4>1, <4>3
        <5>2. DOMAIN (queue') = 1 .. Len(queue) - 1 /\ queue'[i - 1] = queue[i]
          BY <2>1, <5>1
        <5>3. QED
          BY <4>1, <5>1, <5>2 DEF Assigned
      <4>4. QED
        BY <4>2, <4>3
    <3>3. QED
      BY <2>3, <3>1, <3>2 DEF Assigned
  <2>4. QED
    BY <1>1, <2>1, <2>3, SameDiskAttended DEF Attended
<1>3. CASE Completed(w) \/ Failed(w)
  BY <1>3, HandingBackForgetsNone
<1>4. ASSUME UNCHANGED <<queue, job>> PROVE \A r \in Runs : Attended(r) => Attended(r)'
  BY <1>1, <1>4 DEF Attended, Assigned
<1>5. CASE RequestInvalid(w) \/ Execute(w)
  <2>1. UNCHANGED <<disk, view, queue, job>>
    BY <1>5 DEF RequestInvalid, Execute, Raise, Goto
  <2>2. QED
    BY <1>1, <1>4, <2>1, SameDiskAttended
<1>6. CASE \/ Preparing(w) \/ Running(w) \/ Finalizing(w)
           \/ CreateResult(w) \/ CloseResult(w) \/ AppendFails(w) \/ ResultFails(w)
  <2>1. UNCHANGED <<queue, job>> /\ pc[w] # "idle"
    BY <1>6 DEF Preparing, Running, Finalizing, CreateResult, CloseResult, AppendFails,
                ResultFails, Raise, Goto, PendingEvent
  <2>2. PICK q \in Runs : q = job[w]
    BY <2>1, Busy, <1>1
  <2>3. Assigned(q)'
    BY <2>1, <2>2 DEF Assigned
  <2>4. ASSUME NEW r \in Runs, r # q PROVE disk'[r] = disk[r] /\ view'[r] = view[r]
    <3>1. CASE Preparing(w) \/ Running(w) \/ Finalizing(w)
      BY <1>1, <2>2, <2>4, <3>1, AppendFacts
         DEF Preparing, Running, Finalizing, RunStates, ActiveStates, Codes
    <3>2. CASE CreateResult(w) \/ CloseResult(w) \/ AppendFails(w) \/ ResultFails(w)
      BY <1>1, <2>2, <2>4, <3>2, OtherRunKept
         DEF CreateResult, CloseResult, AppendFails, ResultFails
    <3>3. QED
      BY <1>6, <3>1, <3>2
  <2>5. QED
    BY <1>1, <1>4, <2>1, <2>3, <2>4, OthersAttended DEF Attended
<1>7. QED
  BY <1>2, <1>3, <1>5, <1>6 DEF WorkerStep, WorkerFault

(* Recovery settles an interrupted run and queues a waiting one: there is  *)
(* room for it, so the loop never breaks.                                  *)
LEMMA RecoverRunForgetsNone ==
  ASSUME IInv, IInv', NoneForgotten, NEW q \in Runs, RecoverRun(q)
  PROVE  NoneForgotten'
<1>1. /\ TypeOK /\ TypeOK' /\ phase = "recover" /\ q \in todo
      /\ UNCHANGED <<phase, job, faults>>
      /\ \A i \in 1 .. Len(queue) : queue[i] # q
  BY DEF IInv, PassInv, RecoverRun, bounds
<1>2. CASE RecoverFinished(q) \/ RecoverLost(q)
  <2>1. todo' = todo \ {q} /\ UNCHANGED queue
    BY <1>2 DEF RecoverFinished, RecoverLost
  <2>2. \E s \in {"completed", "failed"}, c \in Codes : AppendEvent(q, s, c)
    BY <1>2 DEF RecoverFinished, RecoverLost, RecoverPersistedResult, Codes, ServiceFailures
  <2>3. /\ \A r \in Runs : r # q => disk'[r] = disk[r] /\ view'[r] = view[r]
        /\ disk'[q].state \in {"completed", "failed"}
    BY <1>1, <2>2, AppendFacts DEF RunStates
  <2>4. ~Unfinished(q)'
    BY <2>3 DEF Unfinished, ActiveStates
  <2>5. \A r \in Runs : r # q /\ Attended(r) => Attended(r)'
    BY <1>1, <2>1 DEF Attended, Assigned
  <2>6. QED
    BY <1>1, <2>3, <2>4, <2>5, OthersAttended
<1>3. CASE RecoverQueued(q)
  <2>1. ASSUME QueueHoldsAll
        PROVE  Assigned(q)' /\ \A r \in Runs : r # q /\ Attended(r) => Attended(r)'
    <3>1. HasRoom
      BY <1>1, <2>1, UnqueuedHasRoom
    <3>2. queue' = Append(queue, q) /\ todo' = todo \ {q}
      BY <1>3, <2>1, <3>1 DEF RecoverQueued, Dispatched, QueueHoldsAll
    <3>3. Assigned(q)' /\ \A r \in Runs : Assigned(r) => Assigned(r)'
      BY <1>1, <3>2, QueuedIsAssigned DEF TypeOK
    <3>4. QED
      BY <1>1, <3>2, <3>3 DEF Attended
  <2>2. UNCHANGED <<disk, view>>
    BY <1>3 DEF RecoverQueued
  <2>3. QED
    BY <1>1, <2>1, <2>2, OthersAttended DEF Attended
<1>4. QED
  BY <1>2, <1>3 DEF RecoverRun

(* Reconciliation queues what it takes up, or settles it.                  *)
LEMMA ReconcileRunForgetsNone ==
  ASSUME IInv, IInv', NoneForgotten, NEW q \in Runs, ReconcileRun(q)
  PROVE  NoneForgotten'
<1>1. TypeOK /\ TypeOK' /\ phase = "reconcile" /\ UNCHANGED <<phase, job, faults>>
  BY DEF IInv, ReconcileRun, bounds
<1>2. CASE ReconcileFinished(q)
  <2>1. \E s \in {"completed", "failed"}, c \in Codes : AppendEvent(q, s, c)
    BY <1>2 DEF ReconcileFinished, RecoverPersistedResult, Codes, ServiceFailures
  <2>2. /\ \A r \in Runs : r # q => disk'[r] = disk[r] /\ view'[r] = view[r]
        /\ disk'[q].state \in {"completed", "failed"}
    BY <1>1, <2>1, AppendFacts DEF RunStates
  <2>3. ~Unfinished(q)'
    BY <2>2 DEF Unfinished, ActiveStates
  <2>4. \A r \in Runs : Attended(r) => Attended(r)'
    BY <1>1, <1>2 DEF ReconcileFinished, Attended, Assigned
  <2>5. QED
    BY <1>1, <2>2, <2>3, <2>4, OthersAttended
<1>3. CASE ReconcileFailed(q)
  <2>1. \A r \in Runs : r # q => disk'[r] = disk[r] /\ view'[r] = view[r]
    BY <1>1, <1>3, AppendFacts DEF ReconcileFailed, RunStates, Codes
  <2>2. Assigned(q)' /\ \A r \in Runs : Assigned(r) => Assigned(r)'
    BY <1>1, <1>3, QueuedIsAssigned DEF ReconcileFailed, TypeOK
  <2>3. QED
    BY <1>1, <2>1, <2>2, OthersAttended DEF Attended
<1>4. QED
  BY <1>2, <1>3 DEF ReconcileRun

(* A reconciliation that fails leaves a run for the next one, or a run     *)
(* whose last event nobody reads, or a completed one.                      *)
LEMMA ReconcileFailsForgetsNone ==
  ASSUME IInv, IInv', NoneForgotten, NEW q \in Runs, ReconcileFails(q)
  PROVE  NoneForgotten'
<1>1. /\ TypeOK /\ TypeOK' /\ phase = "reconcile" /\ phase' = "serve"
      /\ UNCHANGED <<view, queue, job>> /\ faults' = faults + 1
      /\ q \in Candidates
  BY DEF IInv, PassInv, ReconcileFails
<1>2. \A r \in Runs : Attended(r) => Attended(r)'
  BY <1>1 DEF Attended, Assigned
<1>3. \A r \in Runs : r # q => disk'[r] = disk[r]
  BY <1>1, OtherRunKept DEF ReconcileFails
<1>4. Unfinished(q)' => Excused(q)'
  <2>1. CASE UNCHANGED disk
    BY <1>1, <2>1 DEF Excused, Candidates
  <2>2. ASSUME NEW s, TornEvent(q, s) PROVE ~Unfinished(q)'
    BY <1>1, <2>2, TornFacts DEF Unfinished
  <2>3. CASE disk[q].result = "none" /\ WriteEvent(q, "queued", NoCode)
    <3>1. /\ disk'[q].result = disk[q].result
          /\ disk'[q].attempts = disk[q].attempts
      BY <1>1, <2>3, WriteFacts, AttemptsNat DEF RunStates, Codes
    <3>2. QED
      BY <1>1, <3>1 DEF Excused, Candidates
  <2>4. CASE WriteEvent(q, "completed", NoCode)
    BY <1>1, <2>4, WriteFacts DEF RunStates, Codes, Unfinished, ActiveStates
  <2>5. QED
    BY <2>1, <2>2, <2>3, <2>4 DEF ReconcileFails, EventFails
<1>5. QED
  BY <1>1, <1>2, <1>3, <1>4, OthersAttended

(* A pass begins with all it has to look at, and ends with nothing left.   *)
LEMMA PassForgetsNone ==
  ASSUME IInv, IInv', NoneForgotten, Pass
  PROVE  NoneForgotten'
<1>1. CASE Start
  BY <1>1 DEF Start, NoneForgotten, Attended, Unfinished, Ready
<1>2. CASE RecoverEnds \/ ReconcileBegins \/ ReconcileEnds
  <2>1. /\ UNCHANGED <<disk, view, queue, job, faults>> /\ phase # "down"
        /\ TypeOK /\ TypeOK'
    BY <1>2 DEF RecoverEnds, ReconcileBegins, ReconcileEnds, Serving, bounds, IInv
  <2>2. phase = "recover" => todo = {}
    BY <1>2 DEF RecoverEnds, ReconcileBegins, ReconcileEnds, Serving
  <2>3. \A r \in Runs : Attended(r) => Attended(r)'
    BY <2>1, <2>2 DEF Attended, Assigned
  <2>4. QED
    BY <2>1, <2>3, SameDiskAttended
<1>3. QED
  BY <1>1, <1>2, RecoverRunForgetsNone, ReconcileRunForgetsNone DEF Pass

LEMMA NextForgetsNone ==
  ASSUME IInv, IInv', NoneForgotten, [Next]_vars
  PROVE  NoneForgotten'
<1>1. CASE Death
  BY <1>1 DEF Death, Crash, CrashInAppend, CrashInCreate, Dies, NoneForgotten
<1>2. CASE UNCHANGED vars
  BY <1>2 DEF vars, memory, NoneForgotten, Unfinished, Ready, Attended, Assigned, QueueHoldsAll,
                    Excused, Candidates, CreationRaised, bounds
<1>3. QED
  BY <1>1, <1>2, ApiForgetsNone, ReconcileFailsForgetsNone, WorkerForgetsNone, PassForgetsNone
     DEF Next

(* In a service with workers whose queue holds all runs, whatever deaths,  *)
(* failing writes and reconciliations there were, every run that is not    *)
(* settled and whose last event can be read waits, is being worked on or   *)
(* is a candidate of the next reconciliation; only a run whose creation    *)
(* raised has to wait for a restart.                                       *)
THEOREM UnfinishedAreAssigned == Spec => []UnfinishedIsAssigned
<1>1. Init => NoneForgotten
  BY DEF Init, NoneForgotten
<1>2. IInv /\ IInv' /\ NoneForgotten /\ [Next]_vars => NoneForgotten'
  BY NextForgetsNone
<1>3. NoneForgotten => UnfinishedIsAssigned
  BY DEF NoneForgotten, UnfinishedIsAssigned, Serving, Attended, Excused
<1>4. QED
  BY <1>1, <1>2, <1>3, Invariance, PTL DEF Spec

-----------------------------------------------------------------------------
(* The service implements RunLifecycle.                                    *)

StatusMap == [r \in Runs |-> Status(r)]
TriesMap  == [r \in Runs |-> disk[r].attempts]

(* The moves that RunLifecycle allows one request.                         *)
Moved(q) ==
  \/ Status(q)' = Status(q) /\ disk'[q].attempts = disk[q].attempts
  \/ /\ Status(q) = "waiting" /\ Status(q)' \in {"waiting", "active"}
     /\ disk[q].attempts < MaxRunAttempts
     /\ disk'[q].attempts = disk[q].attempts + 1
  \/ /\ disk'[q].attempts = disk[q].attempts
     /\ \/ Status(q) = "absent" /\ Status(q)' = "waiting"
        \/ Status(q) = "active" /\ Status(q)' = "completed"
        \/ Status(q) \in {"waiting", "active"} /\ Status(q)' \in {"retryable", "rejected"}
        \/ /\ Status(q) = "retryable" /\ Status(q)' = "waiting"
           /\ disk[q].attempts < MaxRunAttempts
        \/ Status(q) = "retryable" /\ Status(q)' = "completed"

LEMMA MovesAreAllowed ==
  ASSUME TypeOK, TypeOK', \A q \in Runs : Moved(q)
  PROVE  [Lifecycle!Next]_<<StatusMap, TriesMap>>
<1>1. ASSUME NEW q \in Runs
      PROVE  /\ Lifecycle!Statuses =
                  {"absent", "waiting", "active", "retryable", "rejected", "completed"}
             /\ Status(q)' \in Lifecycle!Statuses /\ disk'[q].attempts \in Nat
  BY DEF Lifecycle!Statuses, Status, TypeOK, DiskRecords
<1>2. /\ StatusMap' \in [Runs -> Lifecycle!Statuses] /\ TriesMap' \in [Runs -> Nat]
      /\ \A q \in Runs : /\ StatusMap[q] = Status(q) /\ StatusMap'[q] = Status(q)'
                         /\ TriesMap[q] = disk[q].attempts
                         /\ TriesMap'[q] = disk'[q].attempts
  BY <1>1 DEF StatusMap, TriesMap
<1>3. ASSUME NEW q \in Runs
      PROVE  \/ Lifecycle!Accept(q) \/ Lifecycle!Attempt(q) \/ Lifecycle!Complete(q)
             \/ Lifecycle!Fail(q) \/ Lifecycle!Requeue(q) \/ Lifecycle!Salvage(q)
             \/ Lifecycle!Rests(q)
  <2>1. Moved(q)
    OBVIOUS
  <2>2. QED
    BY <1>2, <2>1
       DEF Moved, StatusMap, TriesMap, Lifecycle!Move, Lifecycle!Untried, Lifecycle!Failures,
           Lifecycle!Accept, Lifecycle!Attempt, Lifecycle!Complete, Lifecycle!Fail,
           Lifecycle!Requeue, Lifecycle!Salvage, Lifecycle!Rests
<1>4. QED
  BY <1>2, <1>3 DEF Lifecycle!Next, StatusMap, TriesMap

(* A run that a step leaves alone rests.                                   *)
LEMMA Rests ==
  ASSUME NEW r \in Runs, disk'[r] = disk[r], InDoubt(r)' <=> InDoubt(r)
  PROVE  Moved(r)
BY DEF Moved, Status, Ready, IsRetryableFailure

(* No thread with another run changes.                                     *)
LEMMA DoubtIsTheThreads ==
  ASSUME IInv, NEW w \in Workers, pc[w] # "idle", NEW q \in Runs, q = job[w],
         \A v \in Workers : v # w => pc'[v] = pc[v] /\ job'[v] = job[v],
         job'[w] \in {q, NoRun}
  PROVE  /\ \A r \in Runs : r # q => (InDoubt(r)' <=> InDoubt(r))
         /\ InDoubt(q) <=> pc[w] = "failing"
         /\ InDoubt(q)' <=> pc'[w] = "failing" /\ job'[w] = q
<1>1. \A v \in Workers : v # w => job[v] # q
  BY RunServiceConstants DEF IInv, QueueInv
<1>2. ASSUME NEW r \in Runs, r # q PROVE InDoubt(r)' <=> InDoubt(r)
  BY <1>1, <1>2, RunServiceConstants DEF InDoubt
<1>3. InDoubt(q) <=> pc[w] = "failing"
  BY <1>1 DEF InDoubt
<1>4. InDoubt(q)' <=> pc'[w] = "failing" /\ job'[w] = q
  BY <1>1 DEF InDoubt
<1>5. QED
  BY <1>2, <1>3, <1>4

(* An event moves the status of its run to where its state belongs.        *)
LEMMA EventStatus ==
  ASSUME TypeOK, NEW q \in Runs, Ready(q), NEW s \in RunStates, NEW c \in Codes,
         WriteEvent(q, s, c)
  PROVE  /\ disk'[q].attempts = Attempts(q, s)
         /\ s = "queued" => Status(q)' = "waiting"
         /\ s \in ActiveStates => Status(q)' = "active"
         /\ s = "completed" => Status(q)' = IF InDoubt(q)' THEN "active" ELSE "completed"
         /\ s = "failed" => Status(q)' \in {"retryable", "rejected"}
<1>1. /\ disk'[q].state = s /\ disk'[q].code = c /\ disk'[q].stage = "ready"
      /\ disk'[q].attempts = Attempts(q, s)
  BY WriteFacts DEF Ready
<1>2. QED
  BY <1>1 DEF Status, Ready, ActiveStates, IsRetryableFailure

(* An event cut short moves nothing, but may count as an attempt.          *)
LEMMA TornStatus ==
  ASSUME TypeOK, NEW q \in Runs, NEW s, TornEvent(q, s), InDoubt(q)' <=> InDoubt(q)
  PROVE  /\ Status(q)' = Status(q)
         /\ disk'[q].attempts = Attempts(q, s)
<1>1. /\ disk'[q].state = disk[q].state /\ disk'[q].code = disk[q].code
      /\ disk'[q].stage = disk[q].stage /\ disk'[q].attempts = Attempts(q, s)
  BY TornFacts
<1>2. QED
  BY <1>1 DEF Status, Ready, IsRetryableFailure

(* The status of a run that is not in doubt, read off its log.             *)
LEMMA ReadyStatus ==
  ASSUME NEW q \in Runs, Ready(q)
  PROVE  /\ disk[q].state = "queued" => Status(q) = "waiting"
         /\ disk[q].state \in ActiveStates => Status(q) = "active"
         /\ disk[q].state = "completed" =>
              Status(q) = IF InDoubt(q) THEN "active" ELSE "completed"
BY DEF Status, Ready, ActiveStates

Simulated == [Lifecycle!Next]_<<StatusMap, TriesMap>>

LEMMA SameDiskSimulates ==
  ASSUME TypeOK, TypeOK', UNCHANGED disk, \A r \in Runs : InDoubt(r)' <=> InDoubt(r)
  PROVE  Simulated
BY Rests, MovesAreAllowed DEF Simulated

(* A step that touches the directory of one run.                           *)
LEMMA OneMoves ==
  ASSUME TypeOK, TypeOK', NEW q \in Runs, Moved(q),
         \A r \in Runs : r # q => disk'[r] = disk[r] /\ (InDoubt(r)' <=> InDoubt(r))
  PROVE  Simulated
<1>1. \A r \in Runs : Moved(r)
  BY Rests
<1>2. QED
  BY <1>1, MovesAreAllowed DEF Simulated

(* A request is accepted when its directory is complete, even if nobody    *)
(* answered it.                                                            *)
LEMMA CreationMoves ==
  ASSUME IInv, NEW q \in Runs, disk[q].stage = "absent", disk'[q].attempts = 0,
         \/ disk'[q].stage \in {"partial", "unready"}
         \/ disk'[q].stage = "ready" /\ disk'[q].state = "queued"
  PROVE  Moved(q)
<1>1. disk[q].attempts = 0
  BY DEF IInv, RunInv
<1>2. QED
  BY <1>1 DEF Moved, Status, Ready, ActiveStates

LEMMA ApiSimulates ==
  ASSUME IInv, IInv', NEW q \in Runs, Api(q)
  PROVE  Simulated
<1>1. TypeOK /\ TypeOK' /\ \A r \in Runs : InDoubt(r)' <=> InDoubt(r)
  BY DEF Api, Create, Get, CreateFails, memory, IInv, InDoubt
<1>2. CASE Get(q)
  BY <1>1, <1>2, SameDiskSimulates DEF Get
<1>3. CASE Create(q)
  <2>1. disk'[q] = Queued(q, "ready") /\ \A r \in Runs : r # q => disk'[r] = disk[r]
    BY <1>1, <1>3 DEF Create, TypeOK
  <2>2. disk'[q].stage = "ready" /\ disk'[q].state = "queued" /\ disk'[q].attempts = 0
    BY <2>1 DEF Queued, NoDisk
  <2>3. QED
    BY <1>1, <1>3, <2>1, <2>2, CreationMoves, OneMoves DEF Create
<1>4. CASE CreateFails(q)
  <2>1. disk[q].stage = "absent"
    BY <1>4 DEF CreateFails, HalfCreated
  <2>2. QED
    BY <1>1, <1>4, <2>1, RaisedCreationFacts, CreationMoves, OneMoves
<1>5. QED
  BY <1>2, <1>3, <1>4 DEF Api

(* A thread moves its own run.                                             *)
LEMMA WorkerMoves ==
  ASSUME IInv, NEW w \in Workers, NEW q \in Runs, q = job[w], pc[w] \notin {"idle", "dead"},
         Ready(q), JobAt(pc[w], q), RunInv(q),
         \/ Preparing(w) \/ Running(w) \/ Finalizing(w) \/ Completed(w) \/ Failed(w)
         \/ CreateResult(w) \/ CloseResult(w) \/ WorkerFault(w),
         InDoubt(q) <=> pc[w] = "failing",
         InDoubt(q)' <=> pc'[w] = "failing" /\ job'[w] = q
  PROVE  Moved(q)
<1>1. TypeOK /\ disk[q].attempts \in Nat /\ pc \in [Workers -> PcLabels]
  BY DEF IInv, TypeOK, DiskRecords
<1>2. /\ NoCode \in Codes /\ code[w] \in Codes
      /\ {"preparing", "running", "finalizing", "completed", "failed"} \subseteq RunStates
      /\ {"preparing", "running", "finalizing"} = ActiveStates
  BY <1>1 DEF Codes, RunStates, ActiveStates, TypeOK
<1>3. /\ Attempts(q, "preparing") = disk[q].attempts + 1
      /\ \A s \in {"running", "finalizing", "completed", "failed"} :
           Attempts(q, s) = disk[q].attempts
  BY <1>1, AttemptsNat
<1>4. /\ pc[w] = "taken" => Status(q) = "waiting" /\ disk[q].attempts < MaxRunAttempts
      /\ pc[w] \in {"prepared", "executing", "executed", "finalized", "writing", "written"} =>
           Status(q) = "active"
      /\ pc[w] = "failing" => Status(q) \in {"waiting", "active"}
  BY <1>2, ReadyStatus DEF JobAt, RunInv
<1>5. CASE Preparing(w)
  BY <1>1, <1>2, <1>3, <1>4, <1>5, EventStatus DEF Preparing, AppendEvent, Moved
<1>6. CASE Running(w) \/ Finalizing(w)
  BY <1>1, <1>2, <1>3, <1>4, <1>6, EventStatus DEF Running, Finalizing, AppendEvent, Moved
<1>7. CASE Completed(w)
  <2>1. ~InDoubt(q)'
    BY <1>1, <1>7 DEF Completed, NextItem
  <2>2. QED
    BY <1>1, <1>2, <1>3, <1>4, <1>7, <2>1, EventStatus DEF Completed, AppendEvent, Moved
<1>8. CASE Failed(w)
  BY <1>1, <1>2, <1>3, <1>4, <1>8, EventStatus DEF Failed, AppendEvent, Moved
<1>9. CASE CreateResult(w) \/ CloseResult(w) \/ ResultFails(w)
  <2>1. /\ disk'[q].stage = disk[q].stage /\ disk'[q].state = disk[q].state
        /\ disk'[q].code = disk[q].code /\ disk'[q].attempts = disk[q].attempts
    <3>1. CASE UNCHANGED disk
      BY <3>1
    <3>2. CASE \E res : disk' = [disk EXCEPT ![q] = [@ EXCEPT !.result = res]]
      BY <1>1, <3>2 DEF TypeOK, DiskRecords
    <3>3. QED
      BY <1>9, <3>1, <3>2 DEF CreateResult, CloseResult, ResultFails
  <2>2. disk[q].state = "finalizing"
    BY <1>9 DEF CreateResult, CloseResult, ResultFails, JobAt
  <2>3. Status(q) = "active" /\ Status(q)' = "active"
    BY <1>2, <2>1, <2>2 DEF Status, Ready
  <2>4. QED
    BY <2>1, <2>3 DEF Moved
<1>10. CASE AppendFails(w)
  <2>1. pc[w] \in {"taken", "prepared", "executed", "written", "failing"}
    BY <1>10 DEF AppendFails, PendingEvent
  <2> DEFINE s == PendingEvent[pc[w]]
             c == IF pc[w] = "failing" THEN code[w] ELSE NoCode
  <2>2. UNCHANGED disk \/ TornEvent(q, s) \/ WriteEvent(q, s, c)
    BY <1>10 DEF AppendFails, EventFails
  <2>3. /\ s \in {"preparing", "running", "finalizing", "completed", "failed"}
        /\ s \in RunStates /\ c \in Codes
        /\ s = "preparing" <=> pc[w] = "taken"
        /\ s = "completed" <=> pc[w] = "written"
        /\ s = "failed" <=> pc[w] = "failing"
    BY <1>2, <2>1 DEF PendingEvent
  <2> HIDE DEF s, c
  <2>4. InDoubt(q)' <=> pc[w] # "failing"
    BY <1>1, <1>10 DEF AppendFails, Raise, Goto
  <2>5. CASE WriteEvent(q, s, c)
    BY <1>1, <1>2, <1>3, <1>4, <2>1, <2>3, <2>4, <2>5, EventStatus DEF Moved
  <2>6. ASSUME disk'[q].stage = disk[q].stage, disk'[q].state = disk[q].state,
               disk'[q].code = disk[q].code
        PROVE  \/ Status(q)' = Status(q)
               \/ Status(q) = "active" /\ Status(q)' = "completed"
    <3>1. disk[q].state = "completed" => InDoubt(q)
      BY <1>2, <2>1 DEF JobAt
    <3>2. CASE disk[q].state = "completed"
      BY <1>2, <2>6, <3>1, <3>2 DEF Status, Ready
    <3>3. CASE disk[q].state # "completed"
      BY <2>6, <3>3 DEF Status, Ready, IsRetryableFailure
    <3>4. QED
      BY <3>2, <3>3
  <2>7. CASE UNCHANGED disk
    BY <2>6, <2>7 DEF Moved
  <2>8. CASE TornEvent(q, s)
    <3>1. pc[w] = "taken" => disk[q].state = "queued"
      BY DEF JobAt
    <3>2. \/ Status(q)' = Status(q)
          \/ Status(q) = "active" /\ Status(q)' = "completed"
      BY <1>1, <2>6, <2>8, TornFacts
    <3>3. disk'[q].attempts = Attempts(q, s)
      BY <1>1, <2>8, TornFacts
    <3>4. QED
      BY <1>3, <1>4, <2>3, <3>2, <3>3 DEF Moved
  <2>9. QED
    BY <2>2, <2>5, <2>7, <2>8
<1>11. QED
  BY <1>5, <1>6, <1>7, <1>8, <1>9, <1>10 DEF WorkerFault

LEMMA WorkerSimulates ==
  ASSUME IInv, IInv', NEW w \in Workers, WorkerStep(w) \/ WorkerFault(w)
  PROVE  Simulated
<1>1. TypeOK /\ TypeOK'
  BY DEF IInv
<1>2. CASE Take(w)
  <2>1. \A r \in Runs : InDoubt(r)' <=> InDoubt(r)
    BY <1>1, <1>2, RunServiceConstants DEF Take, InDoubt, TypeOK
  <2>2. QED
    BY <1>1, <1>2, <2>1, SameDiskSimulates DEF Take
<1>3. CASE ~Take(w)
  <2>1. /\ pc[w] \notin {"idle", "dead"} /\ job'[w] \in {job[w], NoRun}
        /\ \A v \in Workers : v # w => pc'[v] = pc[v] /\ job'[v] = job[v]
    BY <1>1, <1>3
       DEF WorkerStep, WorkerFault, Preparing, Running, RequestInvalid, Execute, Finalizing,
           CreateResult, CloseResult, Completed, Failed, AppendFails, ResultFails,
           PendingEvent, Goto, Raise, NextItem, TypeOK
  <2>2. PICK q \in Runs : /\ q = job[w]
                          /\ Ready(q) /\ Cached(q) /\ view[q].state # "failed"
                          /\ JobAt(pc[w], q) /\ RunInv(q)
    BY <2>1, Busy
  <2>3. /\ \A r \in Runs : r # q => (InDoubt(r)' <=> InDoubt(r))
        /\ InDoubt(q) <=> pc[w] = "failing"
        /\ InDoubt(q)' <=> pc'[w] = "failing" /\ job'[w] = q
    BY <2>1, <2>2, DoubtIsTheThreads
  <2>4. CASE RequestInvalid(w) \/ Execute(w)
    <3>1. UNCHANGED disk /\ disk[q].state \in {"preparing", "running"}
      BY <2>2, <2>4 DEF RequestInvalid, Execute, JobAt
    <3>2. Moved(q)
      BY <3>1 DEF Moved, Status, Ready, ActiveStates
    <3>3. QED
      BY <1>1, <2>3, <3>1, <3>2, OneMoves
  <2>5. CASE ~(RequestInvalid(w) \/ Execute(w))
    <3>1. Moved(q)
      BY <1>3, <2>1, <2>2, <2>3, <2>5, WorkerMoves DEF WorkerStep
    <3>2. \A r \in Runs : r # q => disk'[r] = disk[r]
      BY <1>1, <1>3, <2>2, <2>5, OtherRunKept
         DEF WorkerStep, WorkerFault, Preparing, Running, Finalizing, CreateResult,
             CloseResult, Completed, Failed, AppendFails, ResultFails
    <3>3. QED
      BY <1>1, <2>3, <3>1, <3>2, OneMoves
  <2>6. QED
    BY <2>4, <2>5
<1>4. QED
  BY <1>2, <1>3

(* The recovery settles interrupted runs, and no run is in doubt then.     *)
LEMMA RecoverRunSimulates ==
  ASSUME IInv, IInv', NEW q \in Runs, RecoverRun(q)
  PROVE  Simulated
<1>1. /\ TypeOK /\ TypeOK' /\ Ready(q)
      /\ \A r \in Runs : ~InDoubt(r) /\ ~InDoubt(r)'
  BY DEF IInv, PassInv, RecoverRun, Unfinished, InDoubt
<1>2. ASSUME disk[q].state \in ActiveStates,
             NEW s \in {"completed", "failed"}, NEW c \in Codes, AppendEvent(q, s, c)
      PROVE  Simulated
  <2>1. Status(q) = "active" /\ s \in RunStates
    BY <1>1, <1>2, ReadyStatus DEF RunStates
  <2>2. /\ Status(q)' \in {"completed", "retryable", "rejected"}
        /\ disk'[q].attempts = disk[q].attempts
    BY <1>1, <1>2, <2>1, EventStatus, AttemptsNat DEF AppendEvent
  <2>3. Moved(q)
    BY <2>1, <2>2 DEF Moved
  <2>4. \A r \in Runs : r # q => disk'[r] = disk[r]
    BY <1>1, <1>2, OtherRunKept
  <2>5. QED
    BY <1>1, <2>3, <2>4, OneMoves
<1>3. {NoCode, "RESULT_RECORD_INVALID", "JOB_LOST"} \subseteq Codes
  BY DEF Codes, ServiceFailures
<1>4. CASE RecoverFinished(q)
  BY <1>2, <1>3, <1>4
     DEF RecoverFinished, HasPersistedResult, RecoverPersistedResult, ActiveStates
<1>5. CASE RecoverLost(q)
  BY <1>2, <1>3, <1>5 DEF RecoverLost
<1>6. CASE RecoverQueued(q)
  BY <1>1, <1>6, SameDiskSimulates DEF RecoverQueued
<1>7. QED
  BY <1>4, <1>5, <1>6 DEF RecoverRun

(* A candidate of the reconciliation has failed, or is what an interrupted *)
(* reconciliation made of it.                                              *)
LEMMA ReconciledStatus ==
  ASSUME IInv, NEW q \in Runs, q \in Candidates
  PROVE  /\ Ready(q) /\ ~InDoubt(q) /\ disk[q].result \in {"none", "good"}
         /\ disk[q].result = "none" =>
              /\ Status(q) \in {"retryable", "waiting"}
              /\ disk[q].attempts < MaxRunAttempts
         /\ disk[q].result = "good" => Status(q) \in {"retryable", "completed"}
<1>1. /\ TypeOK /\ RunInv(q) /\ Ready(q) /\ disk[q].result \in {"none", "good"}
      /\ view[q].state = "failed" /\ IsRetryableFailure(q, view[q].code)
      /\ disk[q].result = "none" => disk[q].attempts < MaxRunAttempts
  BY DEF IInv, RunInv, Candidates, TypeOK, DiskRecords
<1>2. ~InDoubt(q)
  BY <1>1, NobodysRun DEF Unowned, InDoubt
<1>3. CASE disk[q].state = "failed" /\ disk[q].code = view[q].code
  BY <1>1, <1>2, <1>3 DEF Status, Ready, ActiveStates
<1>4. CASE BrokenOff(q)
  BY <1>1, <1>2, <1>4, ReadyStatus DEF BrokenOff, RunInv
<1>5. QED
  BY <1>1, <1>2, <1>3, <1>4 DEF RunInv

LEMMA ReconciliationMoves ==
  ASSUME IInv, NEW q \in Runs, q \in Candidates, ~InDoubt(q)',
         \/ disk[q].result = "none" /\ WriteEvent(q, "queued", NoCode)
         \/ disk[q].result = "good" /\ WriteEvent(q, "completed", NoCode)
         \/ \E s \in {"queued", "completed"} : TornEvent(q, s)
         \/ UNCHANGED disk
  PROVE  Moved(q)
<1>1. /\ TypeOK /\ Ready(q) /\ ~InDoubt(q)
      /\ disk[q].result = "none" =>
           Status(q) \in {"retryable", "waiting"} /\ disk[q].attempts < MaxRunAttempts
      /\ disk[q].result = "good" => Status(q) \in {"retryable", "completed"}
      /\ NoCode \in Codes /\ {"completed", "queued"} \subseteq RunStates
      /\ Attempts(q, "queued") = disk[q].attempts
      /\ Attempts(q, "completed") = disk[q].attempts
  BY ReconciledStatus, AttemptsNat DEF IInv, Codes, RunStates
<1>2. CASE disk[q].result = "none" /\ WriteEvent(q, "queued", NoCode)
  BY <1>1, <1>2, EventStatus DEF Moved
<1>3. CASE disk[q].result = "good" /\ WriteEvent(q, "completed", NoCode)
  BY <1>1, <1>3, EventStatus DEF Moved
<1>4. CASE \E s \in {"queued", "completed"} : TornEvent(q, s)
  BY <1>1, <1>4, TornStatus DEF Moved
<1>5. CASE UNCHANGED disk
  BY <1>1, <1>5, Rests
<1>6. QED
  BY <1>2, <1>3, <1>4, <1>5

LEMMA ReconciliationSimulates ==
  ASSUME IInv, IInv', NEW q \in Runs, ReconcileRun(q) \/ ReconcileFails(q)
  PROVE  Simulated
<1>1. /\ TypeOK /\ TypeOK' /\ q \in Candidates
      /\ \A r \in Runs : InDoubt(r)' <=> InDoubt(r)
  BY DEF IInv, PassInv, ReconcileRun, ReconcileFails, InDoubt
<1>2. ~InDoubt(q)' /\ disk[q].result \in {"none", "good"}
  BY <1>1, ReconciledStatus
<1>3. CASE ReconcileRun(q)
  <2>1. \/ disk[q].result = "none" /\ AppendEvent(q, "queued", NoCode)
        \/ disk[q].result = "good" /\ AppendEvent(q, "completed", NoCode)
    BY <1>2, <1>3
       DEF ReconcileRun, ReconcileFinished, ReconcileFailed, RecoverPersistedResult
  <2>2. Moved(q)
    BY <1>1, <1>2, <2>1, ReconciliationMoves DEF AppendEvent
  <2>3. \A r \in Runs : r # q => disk'[r] = disk[r]
    BY <1>1, <2>1, OtherRunKept
  <2>4. QED
    BY <1>1, <2>2, <2>3, OneMoves
<1>4. CASE ReconcileFails(q)
  <2>1. Moved(q)
    BY <1>1, <1>2, <1>4, ReconciliationMoves DEF ReconcileFails, EventFails
  <2>2. \A r \in Runs : r # q => disk'[r] = disk[r]
    BY <1>1, <1>4, OtherRunKept DEF ReconcileFails
  <2>3. QED
    BY <1>1, <2>1, <2>2, OneMoves
<1>5. QED
  BY <1>3, <1>4

(* A death takes the doubt from completed runs: they are completed.        *)
LEMMA DoubtEnds ==
  ASSUME IInv, NEW r \in Runs, ~InDoubt(r)',
         disk'[r].stage = disk[r].stage, disk'[r].state = disk[r].state,
         disk'[r].code = disk[r].code, disk'[r].attempts = disk[r].attempts
  PROVE  Moved(r)
<1>1. CASE Ready(r) /\ disk[r].state = "completed"
  BY <1>1 DEF Moved, Status, Ready, ActiveStates
<1>2. CASE ~(Ready(r) /\ disk[r].state = "completed")
  BY <1>2 DEF Moved, Status, Ready, IsRetryableFailure
<1>3. QED
  BY <1>1, <1>2

LEMMA DeathSimulates ==
  ASSUME IInv, IInv', Death
  PROVE  Simulated
<1>1. TypeOK /\ TypeOK' /\ todo \subseteq Runs
  BY DEF IInv, TypeOK
<1>2. \A r \in Runs : ~InDoubt(r)'
  BY DEF Death, Crash, CrashInAppend, CrashInCreate, Dies, InDoubt
<1>3. \A r \in Runs : disk'[r] = disk[r] => Moved(r)
  BY <1>2, DoubtEnds
<1>4. ASSUME NEW q \in Runs, Moved(q), \A r \in Runs : r # q => disk'[r] = disk[r]
      PROVE  Simulated
  BY <1>1, <1>3, <1>4, MovesAreAllowed DEF Simulated
<1>5. ASSUME NEW q \in Runs, NEW s, s # "preparing", TornEvent(q, s)
      PROVE  Simulated
  <2>1. Moved(q)
    BY <1>1, <1>2, <1>5, TornFacts, AttemptsNat, DoubtEnds
  <2>2. QED
    BY <1>1, <1>4, <1>5, <2>1, TornFacts
<1>6. CASE Crash
  BY <1>1, <1>3, <1>6, MovesAreAllowed DEF Crash, Simulated
<1>7. CASE CrashInCreate
  <2>1. PICK q \in Runs : HalfCreated(q)
    BY <1>7 DEF CrashInCreate
  <2>2. Moved(q)
    BY <2>1, HalfCreatedFacts, CreationMoves DEF HalfCreated
  <2>3. QED
    BY <1>4, <2>1, <2>2, HalfCreatedFacts
<1>8. CASE CrashInAppend
  <2>1. ASSUME NEW w \in Workers, pc[w] \in DOMAIN PendingEvent,
               TornEvent(job[w], PendingEvent[pc[w]])
        PROVE  Simulated
    <3>1. pc[w] \in {"taken", "prepared", "executed", "written", "failing"}
      BY <2>1 DEF PendingEvent
    <3>2. PICK q \in Runs : /\ q = job[w]
                            /\ Ready(q) /\ Cached(q) /\ view[q].state # "failed"
                            /\ JobAt(pc[w], q) /\ RunInv(q)
      BY <3>1, Busy
    <3>3. CASE pc[w] = "taken"
      <4>1. PendingEvent[pc[w]] = "preparing"
        BY <3>3 DEF PendingEvent
      <4>2. /\ disk[q].state = "queued" /\ disk[q].attempts < MaxRunAttempts
            /\ Status(q) = "waiting"
        BY <3>2, <3>3, ReadyStatus DEF JobAt, RunInv
      <4>3. /\ disk'[q].stage = disk[q].stage /\ disk'[q].state = disk[q].state
            /\ disk'[q].attempts = disk[q].attempts + 1
        BY <1>1, <2>1, <3>2, <4>1, TornFacts, AttemptsNat
      <4>4. Moved(q)
        BY <3>2, <4>2, <4>3 DEF Moved, Status, Ready, ActiveStates
      <4>5. QED
        BY <1>1, <1>4, <2>1, <3>2, <4>4, TornFacts
    <3>4. CASE pc[w] # "taken"
      <4>1. PendingEvent[pc[w]] # "preparing"
        BY <3>1, <3>4 DEF PendingEvent
      <4>2. QED
        BY <1>5, <2>1, <3>2, <4>1
    <3>5. QED
      BY <3>3, <3>4
  <2>2. QED
    BY <1>1, <1>5, <1>8, <2>1 DEF CrashInAppend
<1>9. QED
  BY <1>6, <1>7, <1>8 DEF Death

LEMMA NextSimulates ==
  ASSUME IInv, IInv', [Next]_vars
  PROVE  Simulated
<1>1. TypeOK /\ TypeOK'
  BY DEF IInv
<1>2. CASE Pass
  <2>1. CASE Start \/ RecoverEnds \/ ReconcileBegins \/ ReconcileEnds
    <3>1. UNCHANGED disk /\ \A r \in Runs : InDoubt(r)' <=> InDoubt(r)
      BY <2>1 DEF Start, RecoverEnds, ReconcileBegins, ReconcileEnds, InDoubt
    <3>2. QED
      BY <1>1, <3>1, SameDiskSimulates
  <2>2. QED
    BY <1>2, <2>1, RecoverRunSimulates, ReconciliationSimulates DEF Pass
<1>3. CASE UNCHANGED vars
  <2>1. UNCHANGED disk /\ \A r \in Runs : InDoubt(r)' <=> InDoubt(r)
    BY <1>3 DEF vars, memory, InDoubt
  <2>2. QED
    BY <1>1, <2>1, SameDiskSimulates
<1>4. QED
  BY <1>2, <1>3, ApiSimulates, WorkerSimulates, ReconciliationSimulates, DeathSimulates
     DEF Next

(* Whatever threads, crashes and failing writes do, the log of a run only  *)
(* makes the moves of one bounded request.                                 *)
THEOREM LifecycleIsImplemented == Spec => ImplementsLifecycle
<1>1. Init => Lifecycle!Init
  <2> SUFFICES ASSUME Init PROVE Lifecycle!Init
    OBVIOUS
  <2>1. \A r \in Runs : disk[r].stage = "absent" /\ disk[r].attempts = 0
    BY DEF Init, NoDisk
  <2>2. QED
    BY <2>1 DEF Lifecycle!Init, Status, Ready
<1>2. IInv /\ IInv' /\ [Next]_vars =>
        [Lifecycle!Next]_<<[r \in Runs |-> Status(r)], [r \in Runs |-> disk[r].attempts]>>
  BY NextSimulates DEF Simulated, StatusMap, TriesMap
<1>3. QED
  BY <1>1, <1>2, Invariance, PTL DEF Spec, ImplementsLifecycle, Lifecycle!Spec

=============================================================================
