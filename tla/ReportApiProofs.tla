-------------------------- MODULE ReportApiProofs --------------------------
(***************************************************************************)
(* The safety of ReportApi, for any number of threads, slots, submissions  *)
(* and reports, any refresh interval and any run of the clock.             *)
(***************************************************************************)
EXTENDS ReportApi, FiniteSetTheorems, SequenceTheorems, WellFoundedInduction, TLAPS

-----------------------------------------------------------------------------
(* The inductive invariant.                                                *)

Labels == {"idle", "handle", "check", "wait", "build", "read", "review",
           "refresh", "rebuild", "answered"}

Codes == {"none", "REFUSED", "OK", "NOT_FOUND", "REPORT_WRITE_MISSING", "REVIEW_FAILED",
          "REVIEW_IN_PROGRESS", "ACCEPTED", "INVALID_BUNDLE", "QUEUE_FULL"}

RunRecords == [service : {"agent", "plagiarism"}, sub : Submissions, env : Envelopes,
               state : {"open", "completed", "invalid"}]

(* Reports are added and keep their time.                                  *)
DiskInv ==
  /\ disk = [s \in Submissions |-> disk[s]]
  /\ \A s \in Submissions :
       /\ ReportsOf(s) \subseteq 1..MaxReports
       /\ \A r \in ReportsOf(s) : disk[s][r] \in 0..clock

TypeInv ==
  /\ clock \in 0..MaxClock
  /\ runs \in Seq(RunRecords)
  /\ index \in [Submissions -> 0..MaxReports] /\ indexedAt \in Int
  /\ slots \in Int
  /\ pc \in [Threads -> Labels] /\ req \in [Threads -> Requests \cup {NoRequest}]
  /\ since \in [Threads -> [report : 0..MaxReports, run : Nat]]
  /\ base \in [Threads -> [Submissions -> SUBSET (1..MaxReports)]]
  /\ stamp \in [Threads -> 0..MaxClock] /\ own \in [Threads -> 0..MaxReports]
  /\ answer \in [Threads -> [code : Codes, report : 0..MaxReports, run : Nat]]

(* A lock is held exactly by the thread that is where it needs it.         *)
LockInv ==
  /\ lock \in Threads \cup {NoThread} /\ launcher \in Threads \cup {NoThread}
  /\ \A t \in Threads : (lock = t <=> pc[t] \in {"build", "rebuild"})
  /\ \A t \in Threads : (launcher = t <=> pc[t] = "review")

(* The index is one of the reports, and no older than its time says.       *)
CacheInv ==
  /\ indexedAt <= clock
  /\ \A s \in Submissions :
       /\ index[s] # 0 => index[s] \in ReportsOf(s)
       /\ \A r \in ReportsOf(s) : disk[s][r] + MaxBuild < indexedAt => r <= index[s]

RunsInv ==
  \A i \in 1..Len(runs) :
    /\ runs[i].state # "invalid" /\ Verified(runs[i].service, runs[i].env, AnyTime)
    /\ \A j \in 1..Len(runs) : runs[i].env = runs[j].env => i = j

Building(t) == pc[t] \in {"build", "rebuild"}
Reading(t)  == pc[t] \in {"check", "wait", "build", "read"}

RequestInv(t) ==
  /\ pc[t] # "idle" => req[t] \in Requests
  /\ Reading(t) => req[t].kind \in {"report", "launch"}
  /\ pc[t] \in {"review", "refresh", "rebuild"} => req[t].kind = "launch"
  /\ answer[t].run <= Len(runs)

(* What a build has to come across, and what the index has already.        *)
BuildInv(t) ==
  Building(t) =>
    /\ stamp[t] <= clock /\ clock <= stamp[t] + MaxBuild
    /\ \A s \in Submissions :
         /\ base[t][s] \subseteq ReportsOf(s)
         /\ index[s] # 0 => index[s] \in base[t][s]
         /\ \A r \in ReportsOf(s) : disk[s][r] < stamp[t] => r \in base[t][s]

(* From its refresh on the index has what a launch has published.          *)
OwnInv(t) ==
  /\ pc[t] \in {"idle", "handle"} => own[t] = 0
  /\ own[t] # 0 => req[t] \in Requests /\ own[t] \in ReportsOf(req[t].sub)
  /\ req[t].kind = "launch" /\ (Reading(t) \/ pc[t] \in {"refresh", "rebuild"}) => own[t] # 0
  /\ pc[t] = "rebuild" => own[t] \in base[t][req[t].sub]
  /\ req[t].kind = "launch" /\ Reading(t) => own[t] <= index[req[t].sub]
  /\ pc[t] = "answered" /\ req[t].kind = "launch" =>
       /\ answer[t].code = "OK" => answer[t].report >= own[t]
       /\ answer[t].code # "REPORT_WRITE_MISSING"

(* What had to be shown when the request came stays on disk, and gets into *)
(* the index that is read.                                                 *)
StaleInv(t) ==
  /\ since[t].report # 0 =>
       /\ req[t].kind = "report" /\ since[t].report \in ReportsOf(req[t].sub)
       /\ disk[req[t].sub][since[t].report] + RefreshSeconds + MaxBuild <= clock
       /\ pc[t] = "build" => since[t].report \in base[t][req[t].sub]
       /\ pc[t] = "read" => since[t].report <= index[req[t].sub]
  /\ pc[t] = "answered" /\ req[t].kind = "report" /\ answer[t].code \in {"OK", "NOT_FOUND"} =>
       answer[t].run # 0 \/ answer[t].report >= since[t].report

ThreadInv(t) ==
  RequestInv(t) /\ BuildInv(t) /\ OwnInv(t) /\ StaleInv(t)

IInv ==
  /\ DiskInv /\ TypeInv /\ LockInv /\ CacheInv /\ RunsInv /\ SlotsConserved
  /\ \A t \in Threads : ThreadInv(t)

-----------------------------------------------------------------------------
(* Helpers.                                                                *)

(* A set of numbers up to N has a largest element.                         *)
LEMMA MaxExists ==
  ASSUME NEW N \in Nat, NEW S, S \subseteq 1..N, S # {}
  PROVE  \E r \in S : \A q \in S : q <= r
<1> DEFINE T == {N - r : r \in S}
<1>1. T \subseteq Nat
  BY DEF T
<1>2. PICK a \in S : TRUE
  OBVIOUS
<1>3. N - a \in T
  BY <1>2 DEF T
<1>4. T # {}
  BY <1>3
<1>5. PICK x \in T : \A y \in T : ~ (<<y, x>> \in OpToRel(<, Nat))
  <2>1. IsWellFoundedOn(OpToRel(<, Nat), Nat)
    BY NatLessThanWellFounded
  <2>2. QED
    BY <1>1, <1>4, <2>1, WFMin
<1>6. \A y \in T : ~(y < x)
  BY <1>1, <1>5 DEF OpToRel
<1>7. PICK r \in S : x = N - r
  BY <1>5 DEF T
<1>8. \A q \in S : q <= r
  <2>1. TAKE q \in S
  <2>2. ~(N - q < N - r)
    BY <2>1, <1>6, <1>7 DEF T
  <2>3. QED
    BY <2>2
<1>9. QED
  BY <1>8

(* Newest is 0 of nothing, and otherwise the largest.                      *)
LEMMA NewestIsMax ==
  ASSUME NEW N \in Nat, NEW S, S \subseteq 1..N
  PROVE  /\ Newest(S) \in 0..N
         /\ Newest(S) = 0 <=> S = {}
         /\ Newest(S) # 0 => Newest(S) \in S
         /\ \A q \in S : q <= Newest(S)
<1>1. CASE S = {}
  BY <1>1 DEF Newest
<1>2. CASE S # {}
  <2>1. \E r \in S : \A q \in S : q <= r
    BY <1>2, MaxExists
  <2>2. Newest(S) \in S /\ \A q \in S : q <= Newest(S)
    BY <1>2, <2>1 DEF Newest
  <2>3. Newest(S) \in 1..N
    BY <2>2
  <2>4. QED
    BY <1>2, <2>2, <2>3
<1>3. QED
  BY <1>1, <1>2

(* The fields of a request.                                                *)
LEMMA RequestFields ==
  ASSUME NEW r \in Requests
  PROVE  /\ r.sub \in Submissions
         /\ r.kind \in {"report", "launch", "latest", "agent", "plagiarism"}
         /\ r.kind \in {"agent", "plagiarism"} =>
              r.env \in Envelopes /\ r.sub = Target(r.kind, r.env)
  BY ApiConstants DEF Requests, Target

(* Publishing adds one report at most, with the time of now.               *)
LEMMA WriteAdds ==
  ASSUME DiskInv, clock \in 0..MaxClock, UNCHANGED clock,
         NEW s \in Submissions, NEW r \in 1..MaxReports, Write(s, r)
  PROVE  /\ DiskInv'
         /\ r \in ReportsOf(s)'
         /\ \A x \in Submissions :
              /\ ReportsOf(x) \subseteq ReportsOf(x)'
              /\ \A q \in ReportsOf(x) : disk'[x][q] = disk[x][q]
              /\ \A q \in ReportsOf(x)' \ ReportsOf(x) : disk'[x][q] = clock
<1>1. CASE r \in ReportsOf(s)
  BY <1>1 DEF Write, DiskInv, ReportsOf
<1>2. CASE r \notin ReportsOf(s)
  <2> DEFINE d == [q \in ReportsOf(s) \cup {r} |-> IF q = r THEN clock ELSE disk[s][q]]
  <2>1. disk' = [disk EXCEPT ![s] = d]
    BY <1>2 DEF Write
  <2>2. DOMAIN d = ReportsOf(s) \cup {r} /\ d[r] = clock /\ \A q \in ReportsOf(s) : d[q] = disk[s][q]
    BY <1>2
  <2> HIDE DEF d
  <2>3. \A x \in Submissions : disk'[x] = IF x = s THEN d ELSE disk[x]
    BY <2>1 DEF DiskInv
  <2>4. disk' = [x \in Submissions |-> disk'[x]]
    BY <2>1 DEF DiskInv
  <2>5. QED
    BY <2>2, <2>3, <2>4 DEF DiskInv, ReportsOf
<1>3. QED
  BY <1>1, <1>2

-----------------------------------------------------------------------------
(* What no step takes back: files, times, the index, completed runs.       *)

Grows ==
  /\ clock <= clock'
  /\ \A s \in Submissions :
       /\ ReportsOf(s) \subseteq ReportsOf(s)'
       /\ \A r \in ReportsOf(s) : disk'[s][r] = disk[s][r]
       /\ \A r \in ReportsOf(s)' \ ReportsOf(s) : disk'[s][r] = clock
       /\ index[s] <= index'[s]
  /\ Len(runs) <= Len(runs')
  /\ \A i \in 1..Len(runs) :
       /\ runs'[i].service = runs[i].service /\ runs'[i].sub = runs[i].sub
       /\ runs[i].state = "completed" => runs'[i].state = "completed"

(* A step of another thread.                                               *)
Same(t) ==
  /\ pc'[t] = pc[t] /\ req'[t] = req[t] /\ since'[t] = since[t] /\ base'[t] = base[t]
  /\ stamp'[t] = stamp[t] /\ own'[t] = own[t] /\ answer'[t] = answer[t]

(* A thread that does nothing keeps its part of the invariant, if nobody   *)
(* else changes the index that it is building.                             *)
LEMMA ThreadStays ==
  ASSUME DiskInv, TypeInv, DiskInv', TypeInv', Grows, NEW t \in Threads, Same(t),
         Building(t) => index' = index /\ clock' <= stamp[t] + MaxBuild,
         ThreadInv(t)
  PROVE  ThreadInv(t)'
<1> USE DEF ThreadInv
<1>1. RequestInv(t)'
  BY DEF RequestInv, Same, Reading, Grows, TypeInv
<1>2. BuildInv(t)'
  <2>1. SUFFICES ASSUME Building(t)'
                 PROVE  BuildInv(t)'
    BY DEF BuildInv
  <2>2. Building(t) /\ BuildInv(t)
    BY <2>1 DEF Building, Same
  <2>3. stamp'[t] <= clock' /\ clock' <= stamp'[t] + MaxBuild
    BY <2>2 DEF BuildInv, Same, Grows, TypeInv
  <2>4. ASSUME NEW s \in Submissions
        PROVE  /\ base'[t][s] \subseteq ReportsOf(s)'
               /\ index'[s] # 0 => index'[s] \in base'[t][s]
               /\ \A r \in ReportsOf(s)' : disk'[s][r] < stamp'[t] => r \in base'[t][s]
    <3>1. base[t][s] \subseteq ReportsOf(s) /\ (index[s] # 0 => index[s] \in base[t][s])
      BY <2>2 DEF BuildInv
    <3>2. ASSUME NEW r \in ReportsOf(s)', disk'[s][r] < stamp[t]
          PROVE  r \in base[t][s]
      <4>1. r \in ReportsOf(s)
        BY SMTT(20), <3>2, <2>2 DEF Grows, BuildInv, TypeInv
      <4>2. QED
        BY <4>1, <3>2, <2>2 DEF Grows, BuildInv
    <3>3. QED
      BY <3>1, <3>2, <2>2 DEF Same, Grows
  <2>5. QED
    BY <2>3, <2>4 DEF BuildInv
<1>3. OwnInv(t)'
  <2>1. own[t] # 0 => req[t].sub \in Submissions
    BY RequestFields DEF OwnInv
  <2>2. pc[t] # "idle" => req[t].sub \in Submissions
    BY RequestFields DEF RequestInv
  <2>3. \A s \in Submissions : index[s] \in Nat /\ index'[s] \in Nat /\ index[s] <= index'[s]
    BY ApiConstants DEF TypeInv, Grows
  <2>4. own[t] \in Nat /\ req'[t] = req[t] /\ own'[t] = own[t] /\ pc'[t] = pc[t] /\ base'[t] = base[t]
        /\ answer'[t] = answer[t] /\ (Reading(t)' <=> Reading(t))
    BY ApiConstants DEF Same, TypeInv, Reading
  <2>5. own[t] # 0 => req[t] \in Requests /\ own[t] \in DOMAIN disk'[req[t].sub]
    BY <2>1 DEF Grows, OwnInv, ReportsOf
  <2>6. req[t].kind = "launch" /\ Reading(t) => own[t] <= index'[req[t].sub]
    BY <2>2, <2>3, <2>4 DEF OwnInv, Reading
  <2>7. QED
    BY <2>4, <2>5, <2>6 DEF OwnInv, ReportsOf
<1>4. StaleInv(t)'
  <2>1. since[t].report # 0 => req[t].sub \in Submissions
    BY SMTT(20), RequestFields DEF StaleInv, RequestInv, TypeInv, NoRequest
  <2>2. req'[t] = req[t] /\ since'[t] = since[t] /\ pc'[t] = pc[t] /\ base'[t] = base[t]
        /\ answer'[t] = answer[t]
    BY DEF Same
  <2>3. ASSUME since[t].report # 0
        PROVE  /\ since[t].report \in DOMAIN disk'[req[t].sub]
               /\ disk'[req[t].sub][since[t].report] + RefreshSeconds + MaxBuild <= clock'
    <3>1. since[t].report \in ReportsOf(req[t].sub) /\ req[t].sub \in Submissions
      BY <2>1, <2>3 DEF StaleInv
    <3>2. disk'[req[t].sub][since[t].report] = disk[req[t].sub][since[t].report]
          /\ since[t].report \in DOMAIN disk'[req[t].sub]
          /\ disk[req[t].sub][since[t].report] \in Int
      BY <3>1 DEF Grows, DiskInv, ReportsOf
    <3>3. disk[req[t].sub][since[t].report] + RefreshSeconds + MaxBuild <= clock
      BY <2>3 DEF StaleInv
    <3>4. clock \in Int /\ clock' \in Int /\ clock <= clock' /\ RefreshSeconds \in Int /\ MaxBuild \in Int
      BY ApiConstants DEF TypeInv, Grows
    <3>5. QED
      BY <3>1, <3>2, <3>3, <3>4 DEF Grows, ReportsOf
  <2>4. ASSUME since[t].report # 0, pc[t] = "read"
        PROVE  since[t].report <= index'[req[t].sub]
    <3>1. since[t].report \in Int /\ index[req[t].sub] \in Int /\ index'[req[t].sub] \in Int
      BY SMTT(20), <2>1, <2>4 DEF TypeInv
    <3>2. since[t].report <= index[req[t].sub] /\ index[req[t].sub] <= index'[req[t].sub]
      BY <2>1, <2>4 DEF StaleInv, Grows
    <3>3. QED
      BY <3>1, <3>2
  <2>5. QED
    BY <2>2, <2>3, <2>4 DEF StaleInv, ReportsOf
<1>5. QED
  BY <1>1, <1>2, <1>3, <1>4

-----------------------------------------------------------------------------
(* The parts of a step.                                                    *)

(* Who is not idle, when one thread moves.                                 *)
Busy == {t \in Threads : pc[t] # "idle"}

LEMMA SlotsKept ==
  ASSUME TypeInv, SlotsConserved, NEW t \in Threads, pc[t] # "idle", NEW where, where # "idle",
         pc' = [pc EXCEPT ![t] = where], slots' = slots
  PROVE  SlotsConserved'
<1>1. Busy' = Busy
  BY DEF TypeInv, Busy
<1>2. QED
  BY <1>1 DEF SlotsConserved, Busy

LEMMA SlotTaken ==
  ASSUME TypeInv, SlotsConserved, NEW t \in Threads, pc[t] = "idle",
         pc' = [pc EXCEPT ![t] = "handle"], slots' = slots - 1
  PROVE  SlotsConserved'
<1>1. Busy' = Busy \cup {t} /\ t \notin Busy
  BY DEF TypeInv, Busy
<1>2. IsFiniteSet(Busy)
  BY ApiConstants, FS_Subset DEF Busy
<1>3. Cardinality(Busy') = Cardinality(Busy) + 1 /\ Cardinality(Busy) \in Nat
  BY <1>1, <1>2, FS_AddElement, FS_CardinalityType
<1>4. QED
  BY <1>3 DEF SlotsConserved, Busy, TypeInv

LEMMA SlotReturned ==
  ASSUME TypeInv, SlotsConserved, NEW t \in Threads, pc[t] # "idle",
         pc' = [pc EXCEPT ![t] = "idle"], slots' = slots + 1
  PROVE  SlotsConserved'
<1>1. Busy' = Busy \ {t} /\ t \in Busy
  BY DEF TypeInv, Busy
<1>2. IsFiniteSet(Busy)
  BY ApiConstants, FS_Subset DEF Busy
<1>3. Cardinality(Busy') = Cardinality(Busy) - 1 /\ Cardinality(Busy) \in Nat
  BY <1>1, <1>2, FS_RemoveElement, FS_CardinalityType
<1>4. QED
  BY <1>3 DEF SlotsConserved, Busy, TypeInv

(* A thread has moved, the others have not.                                *)
LEMMA OneMoves ==
  ASSUME IInv, NEW t \in Threads,
         DiskInv', TypeInv', LockInv', CacheInv', RunsInv', SlotsConserved', ThreadInv(t)',
         Grows, clock' = clock,
         \A u \in Threads \ {t} : Same(u) /\ (Building(u) => index' = index)
  PROVE  IInv'
<1>1. ASSUME NEW u \in Threads
      PROVE  ThreadInv(u)'
  <2>1. CASE u = t
    BY <2>1
  <2>2. CASE u # t
    <3>1. Building(u) => index' = index /\ clock' <= stamp[u] + MaxBuild
      BY <2>2 DEF IInv, ThreadInv, BuildInv
    <3>2. QED
      BY <2>2, <3>1, ThreadStays DEF IInv
  <2>3. QED
    BY <2>1, <2>2
<1>2. QED
  BY <1>1 DEF IInv

(* Nothing that all threads see has changed.                               *)
Quiet == clock' = clock /\ disk' = disk /\ runs' = runs /\ index' = index /\ indexedAt' = indexedAt

LEMMA QuietGrows ==
  ASSUME DiskInv, TypeInv, Quiet
  PROVE  Grows
  BY DEF Quiet, Grows, TypeInv, ReportsOf

LEMMA OneMovesQuietly ==
  ASSUME IInv, NEW t \in Threads, Quiet,
         TypeInv', LockInv', SlotsConserved', ThreadInv(t)',
         \A u \in Threads \ {t} : Same(u)
  PROVE  IInv'
<1>1. DiskInv'
  BY DEF IInv, DiskInv, Quiet, ReportsOf
<1>2. CacheInv'
  BY DEF IInv, CacheInv, Quiet, ReportsOf
<1>3. RunsInv'
  BY DEF IInv, RunsInv, Quiet
<1>4. Grows
  BY QuietGrows DEF IInv
<1>5. QED
  BY <1>1, <1>2, <1>3, <1>4, OneMoves DEF Quiet

(* An answer, or a move that takes no lock.                                *)
Plain(t) == pc[t] \notin {"idle", "build", "rebuild", "review"}

LEMMA Answers ==
  ASSUME IInv, NEW t \in Threads, Plain(t), Unchanged,
         NEW a \in [code : Codes, report : 0..MaxReports, run : Nat], Answer(t, a),
         a.run <= Len(runs),
         req[t].kind = "launch" =>
           (a.code = "OK" => a.report >= own[t]) /\ a.code # "REPORT_WRITE_MISSING",
         req[t].kind = "report" /\ a.code \in {"OK", "NOT_FOUND"} =>
           a.run # 0 \/ a.report >= since[t].report
  PROVE  IInv'
<1>1. Quiet
  BY DEF Unchanged, Quiet, files, reader
<1>2. TypeInv'
  BY DEF IInv, TypeInv, Unchanged, Answer, files, reader, Labels
<1>3. LockInv'
  BY DEF IInv, LockInv, TypeInv, Unchanged, Answer, reader, Plain
<1>4. SlotsConserved'
  BY SlotsKept DEF IInv, Unchanged, Answer, Plain
<1>5. \A u \in Threads \ {t} : Same(u)
  BY DEF IInv, TypeInv, Unchanged, Answer, Same
<1>6. pc'[t] = "answered" /\ req'[t] = req[t] /\ answer'[t] = a /\ own'[t] = own[t]
      /\ since'[t] = since[t] /\ runs' = runs /\ disk' = disk /\ clock' = clock /\ index' = index
      /\ base' = base /\ pc[t] # "idle"
  BY DEF IInv, TypeInv, Unchanged, Answer, files, reader, Plain
<1>7. ThreadInv(t)'
  <2>1. ThreadInv(t)
    BY DEF IInv
  <2>2. RequestInv(t)'
    BY <2>1, <1>6 DEF ThreadInv, RequestInv, Reading
  <2>3. BuildInv(t)'
    BY <1>6 DEF BuildInv, Building
  <2>4. OwnInv(t)'
    BY <2>1, <1>6 DEF ThreadInv, OwnInv, Reading, ReportsOf
  <2>5. StaleInv(t)'
    BY <2>1, <1>6 DEF ThreadInv, StaleInv, ReportsOf
  <2>6. QED
    BY <2>2, <2>3, <2>4, <2>5 DEF ThreadInv
<1>8. QED
  BY <1>1, <1>2, <1>3, <1>4, <1>5, <1>7, OneMovesQuietly

LEMMA Moves ==
  ASSUME IInv, NEW t \in Threads, Plain(t), Unchanged,
         NEW where \in {"check", "wait", "read"}, GoTo(t, where), RequestInv(t)',
         req[t].kind = "launch" => own[t] # 0 /\ own[t] <= index[req[t].sub],
         since[t].report # 0 /\ where = "read" => since[t].report <= index[req[t].sub]
  PROVE  IInv'
<1>1. Quiet
  BY DEF Unchanged, Quiet, files, reader
<1>2. TypeInv'
  BY DEF IInv, TypeInv, Unchanged, GoTo, files, reader, Labels
<1>3. LockInv'
  BY DEF IInv, LockInv, TypeInv, Unchanged, GoTo, reader, Plain
<1>4. SlotsConserved'
  BY SlotsKept DEF IInv, Unchanged, GoTo, Plain
<1>5. \A u \in Threads \ {t} : Same(u)
  BY DEF IInv, TypeInv, Unchanged, GoTo, Same
<1>6. pc'[t] = where /\ req'[t] = req[t] /\ answer'[t] = answer[t] /\ own'[t] = own[t]
      /\ since'[t] = since[t] /\ runs' = runs /\ disk' = disk /\ clock' = clock /\ index' = index
      /\ base' = base /\ pc[t] # "idle"
  BY DEF IInv, TypeInv, Unchanged, GoTo, files, reader, Plain
<1>7. ThreadInv(t)'
  <2>1. ThreadInv(t)
    BY DEF IInv
  <2>2. BuildInv(t)'
    BY <1>6 DEF BuildInv, Building
  <2>3. OwnInv(t)'
    BY <2>1, <1>6 DEF ThreadInv, OwnInv, Reading, ReportsOf
  <2>4. StaleInv(t)'
    BY <2>1, <1>6 DEF ThreadInv, StaleInv, ReportsOf
  <2>5. QED
    BY <2>2, <2>3, <2>4 DEF ThreadInv
<1>8. QED
  BY <1>1, <1>2, <1>3, <1>4, <1>5, <1>7, OneMovesQuietly

-----------------------------------------------------------------------------
(* What readers rely on.                                                   *)

(* An index that counts as fresh has what a request has to be shown.       *)
LEMMA FreshShows ==
  ASSUME DiskInv, TypeInv, CacheInv, Fresh, NEW s \in Submissions, NEW r \in ReportsOf(s),
         disk[s][r] + RefreshSeconds + MaxBuild <= clock
  PROVE  r <= index[s]
<1>1. disk[s][r] \in Int /\ clock \in Int /\ indexedAt \in Int /\ RefreshSeconds \in Int /\ MaxBuild \in Int
  BY ApiConstants DEF DiskInv, TypeInv
<1>2. disk[s][r] + MaxBuild < indexedAt
  BY <1>1 DEF Fresh
<1>3. QED
  BY <1>2 DEF CacheInv

LEMMA RunsOfBounded ==
  ASSUME TypeInv, NEW service, NEW s
  PROVE  /\ Len(runs) \in Nat /\ RunsOf(service, s) \subseteq 1..Len(runs)
         /\ Latest(service, s) \in 0..Len(runs)
         /\ Latest(service, s) # 0 => Latest(service, s) \in RunsOf(service, s)
         /\ \A i \in RunsOf(service, s) : i <= Latest(service, s) /\ Latest(service, s) # 0
<1>1. Len(runs) \in Nat /\ RunsOf(service, s) \subseteq 1..Len(runs)
  BY DEF TypeInv, RunsOf
<1>2. QED
  BY <1>1, NewestIsMax DEF Latest

LEMMA CompletedRunIsRun ==
  ASSUME TypeInv, NEW s
  PROVE  CompletedRun(s) \in 0..Len(runs)
<1>1. CompletedRun(s) = IF Latest("agent", s) # 0 /\ runs[Latest("agent", s)].state = "completed"
                          THEN Latest("agent", s) ELSE 0
  BY DEF CompletedRun
<1>2. QED
  BY <1>1, RunsOfBounded

(* An answer that is only a code.                                          *)
LEMMA CodeFields ==
  ASSUME NEW c \in Codes
  PROVE  /\ Code(c) = [code |-> c, report |-> 0, run |-> 0]
         /\ Code(c) \in [code : Codes, report : 0..MaxReports, run : Nat]
         /\ Code(c).code = c /\ Code(c).report = 0 /\ Code(c).run = 0
<1>1. MaxReports \in Nat
  BY ApiConstants
<1>2. Code(c) = [code |-> c, report |-> 0, run |-> 0]
  BY DEF Code, NoAnswer
<1>3. QED
  BY <1>1, <1>2

-----------------------------------------------------------------------------
(* Requests come and go.                                                   *)

LEMMA AcceptStep ==
  ASSUME IInv, NEW t \in Threads, Accept(t)
  PROVE  IInv'
<1>1. PICK r \in Requests :
        /\ req' = [req EXCEPT ![t] = r]
        /\ since' = [since EXCEPT ![t] = IF r.kind # "report" THEN NoStart
             ELSE [report |-> Settled(r.sub), run |-> LatestCompleted(r.sub)]]
  BY DEF Accept
<1> DEFINE S == {q \in ReportsOf(r.sub) : disk[r.sub][q] + RefreshSeconds + MaxBuild <= clock}
<1>2. r.sub \in Submissions
  BY RequestFields
<1>3. S \subseteq 1..MaxReports /\ Settled(r.sub) = Newest(S)
  BY <1>2 DEF IInv, DiskInv, Settled
<1>4. MaxReports \in Nat
  BY ApiConstants
<1>5. Settled(r.sub) \in 0..MaxReports /\ (Settled(r.sub) # 0 => Settled(r.sub) \in S)
  BY <1>3, <1>4, NewestIsMax
<1>6. LatestCompleted(r.sub) \in Nat
  <2> DEFINE R == {i \in RunsOf("agent", r.sub) : runs[i].state = "completed"}
  <2>1. Len(runs) \in Nat /\ R \subseteq 1..Len(runs)
    BY LenProperties DEF IInv, TypeInv, RunsOf
  <2>2. QED
    BY <2>1, NewestIsMax DEF LatestCompleted
<1>7. Quiet
  BY DEF Accept, Quiet, files, reader
<1>8. pc[t] = "idle" /\ pc' = [pc EXCEPT ![t] = "handle"] /\ slots' = slots - 1
      /\ UNCHANGED <<lock, launcher, base, stamp, own, answer>>
  BY DEF Accept, reader
<1>9. since'[t] \in [report : 0..MaxReports, run : Nat]
      /\ since' = [since EXCEPT ![t] = since'[t]]
  BY <1>1, <1>4, <1>5, <1>6 DEF NoStart, IInv, TypeInv
<1>10. TypeInv'
  BY <1>1, <1>7, <1>8, <1>9 DEF IInv, TypeInv, Quiet, Labels
<1>11. LockInv'
  BY <1>8 DEF IInv, TypeInv, LockInv
<1>12. SlotsConserved'
  BY <1>8, SlotTaken DEF IInv
<1>13. \A u \in Threads \ {t} : Same(u)
  BY <1>1, <1>8 DEF IInv, TypeInv, Same
<1>14. pc'[t] = "handle" /\ req'[t] = r /\ own'[t] = own[t] /\ answer'[t] = answer[t] /\ runs' = runs
       /\ disk' = disk /\ clock' = clock
  BY <1>1, <1>7, <1>8 DEF IInv, TypeInv, Quiet
<1>15. since'[t].report # 0 =>
         /\ r.kind = "report" /\ since'[t].report \in ReportsOf(r.sub)
         /\ disk[r.sub][since'[t].report] + RefreshSeconds + MaxBuild <= clock
  BY <1>1, <1>5 DEF NoStart, IInv, TypeInv
<1>17. ThreadInv(t)'
  <2>1. ThreadInv(t)
    BY DEF IInv
  <2>2. RequestInv(t)'
    BY <2>1, <1>14 DEF ThreadInv, RequestInv, Reading
  <2>3. BuildInv(t)'
    BY <1>14 DEF BuildInv, Building
  <2>4. OwnInv(t)'
    BY <2>1, <1>8, <1>14 DEF ThreadInv, OwnInv, Reading
  <2>5. StaleInv(t)'
    BY <1>14, <1>15 DEF StaleInv, ReportsOf
  <2>6. QED
    BY <2>2, <2>3, <2>4, <2>5 DEF ThreadInv
<1>18. QED
  BY <1>7, <1>10, <1>11, <1>12, <1>13, <1>17, OneMovesQuietly

LEMMA LeaveStep ==
  ASSUME IInv, NEW t \in Threads, pc[t] \in {"handle", "answered"}, Leave(t)
  PROVE  IInv'
<1>1. Quiet
  BY DEF Leave, Quiet, files, reader
<1>2. pc' = [pc EXCEPT ![t] = "idle"] /\ slots' = slots + 1
      /\ UNCHANGED <<lock, launcher, base, stamp>>
  BY DEF Leave, reader
<1>3. NoAnswer \in [code : Codes, report : 0..MaxReports, run : Nat]
      /\ NoStart \in [report : 0..MaxReports, run : Nat] /\ 0 \in 0..MaxReports
  <2>1. MaxReports \in Nat
    BY ApiConstants
  <2>2. QED
    BY <2>1 DEF NoAnswer, NoStart, Codes
<1>4. TypeInv'
  BY SMTT(20), <1>1, <1>2, <1>3 DEF Leave, IInv, TypeInv, Quiet, Labels
<1>5. LockInv'
  BY <1>2 DEF IInv, TypeInv, LockInv
<1>6. SlotsConserved'
  BY <1>2, SlotReturned DEF IInv
<1>7. \A u \in Threads \ {t} : Same(u)
  BY <1>2 DEF Leave, IInv, TypeInv, Same
<1>8. pc'[t] = "idle" /\ own'[t] = 0 /\ answer'[t] = NoAnswer /\ since'[t] = NoStart
  BY DEF Leave, IInv, TypeInv
<1>9. ThreadInv(t)'
  <2>1. RequestInv(t)' /\ BuildInv(t)' /\ OwnInv(t)'
    BY <1>1, <1>4, <1>8 DEF RequestInv, BuildInv, OwnInv, Building, Reading, NoAnswer, TypeInv
  <2>2. StaleInv(t)'
    BY <1>8 DEF StaleInv, NoStart
  <2>3. QED
    BY <2>1, <2>2 DEF ThreadInv
<1>10. QED
  BY <1>1, <1>4, <1>5, <1>6, <1>7, <1>9, OneMovesQuietly

LEMMA RefuseStep ==
  ASSUME IInv, NEW t \in Threads, Refuse(t)
  PROVE  IInv'
<1>1. Code("REFUSED") \in [code : Codes, report : 0..MaxReports, run : Nat]
      /\ Code("REFUSED").code = "REFUSED" /\ Code("REFUSED").run = 0
  BY CodeFields DEF Codes
<1>2. Plain(t) /\ 0 <= Len(runs)
  BY DEF Refuse, Plain, IInv, TypeInv
<1>3. QED
  BY <1>1, <1>2, Answers DEF Refuse

-----------------------------------------------------------------------------
(* Readers.                                                                *)

LEMMA GetReportStep ==
  ASSUME IInv, NEW t \in Threads, GetReport(t)
  PROVE  IInv'
<1> DEFINE s == req[t].sub
           c == CompletedRun(s)
<1>1. Plain(t) /\ Unchanged /\ req[t].kind = "report" /\ pc[t] = "handle"
  BY DEF GetReport, Handling, Plain
<1>2. ThreadInv(t) /\ TypeInv
  BY DEF IInv
<1>3. c \in 0..Len(runs) /\ Len(runs) \in Nat
  BY <1>2, CompletedRunIsRun DEF TypeInv
<1> HIDE DEF s, c
<1>5. CASE c # 0
  <2> DEFINE a == [Code("OK") EXCEPT !.run = c]
  <2>1. a = [code |-> "OK", report |-> 0, run |-> c]
    BY CodeFields DEF Codes
  <2>2. a \in [code : Codes, report : 0..MaxReports, run : Nat]
        /\ a.run = c /\ a.code = "OK"
    <3>1. MaxReports \in Nat
      BY ApiConstants
    <3>2. QED
      BY <2>1, <3>1, <1>3 DEF Codes
  <2>3. Answer(t, a)
    BY <1>5 DEF GetReport, s, c
  <2> HIDE DEF a
  <2>4. QED
    BY <1>1, <1>3, <1>5, <2>2, <2>3, Answers
<1>6. CASE c = 0
  <2>1. GoTo(t, "check")
    BY <1>6 DEF GetReport, s, c
  <2>2. RequestInv(t)'
    BY <1>1, <1>2, <2>1 DEF GoTo, TypeInv, ThreadInv, RequestInv, Reading, Unchanged, files
  <2>3. QED
    BY <1>1, <2>1, <2>2, Moves
<1>7. QED
  BY <1>5, <1>6

LEMMA CheckStep ==
  ASSUME IInv, NEW t \in Threads, Check(t)
  PROVE  IInv'
<1>1. Plain(t) /\ Unchanged /\ pc[t] = "check" /\ Reading(t)
  BY DEF Check, Plain, Reading
<1>2. ThreadInv(t) /\ TypeInv /\ DiskInv /\ CacheInv
  BY DEF IInv
<1>3. PICK where \in {"wait", "read"} : GoTo(t, where) /\ (where = "read" => Fresh)
  BY DEF Check
<1>4. RequestInv(t)'
  BY <1>1, <1>2, <1>3 DEF GoTo, TypeInv, ThreadInv, RequestInv, Reading, Unchanged, files
<1>5. req[t].kind = "launch" => own[t] # 0 /\ own[t] <= index[req[t].sub]
  BY <1>1, <1>2 DEF ThreadInv, OwnInv
<1>7. req[t].sub \in Submissions
  BY <1>1, <1>2, RequestFields DEF ThreadInv, RequestInv
<1>8. since[t].report # 0 /\ where = "read" => since[t].report <= index[req[t].sub]
  BY <1>2, <1>3, <1>7, FreshShows DEF ThreadInv, StaleInv
<1>9. QED
  BY <1>1, <1>3, <1>4, <1>5, <1>8, Moves

-----------------------------------------------------------------------------
(* Building the index.                                                     *)

LEMMA BuildBegins ==
  ASSUME IInv, NEW t \in Threads, NEW where, LockIsFree, BeginBuild(t, where),
         index' = index, indexedAt' = indexedAt,
         \/ pc[t] = "wait" /\ where = "build"
         \/ pc[t] = "refresh" /\ where = "rebuild"
  PROVE  IInv'
<1>1. Quiet
  BY DEF BeginBuild, Quiet, files
<1>2. pc' = [pc EXCEPT ![t] = where] /\ lock' = t /\ stamp' = [stamp EXCEPT ![t] = clock]
      /\ base' = [base EXCEPT ![t] = [s \in Submissions |-> ReportsOf(s)]]
      /\ UNCHANGED <<launcher, slots, since, own, req, answer>>
  BY DEF BeginBuild, GoTo
<1>3. TypeInv'
  <2>1. [s \in Submissions |-> ReportsOf(s)] \in [Submissions -> SUBSET (1..MaxReports)]
    BY DEF IInv, DiskInv
  <2>2. QED
    BY <1>1, <1>2, <2>1 DEF IInv, TypeInv, Quiet, Labels
<1>4. LockInv'
  <2>1. \A u \in Threads : ~Building(u)
    BY ApiConstants DEF IInv, LockInv, LockIsFree, Building
  <2>2. QED
    BY <1>2, <2>1 DEF IInv, TypeInv, LockInv, Building
<1>5. SlotsConserved'
  BY <1>2, SlotsKept DEF IInv
<1>6. \A u \in Threads \ {t} : Same(u)
  BY <1>2 DEF IInv, TypeInv, Same
<1>7. pc'[t] = where /\ req'[t] = req[t] /\ answer'[t] = answer[t] /\ own'[t] = own[t]
      /\ since'[t] = since[t] /\ runs' = runs /\ disk' = disk /\ clock' = clock /\ index' = index
      /\ stamp'[t] = clock /\ base'[t] = [s \in Submissions |-> ReportsOf(s)]
  BY <1>1, <1>2 DEF IInv, TypeInv, Quiet
<1>8. ThreadInv(t)'
  <2>1. ThreadInv(t) /\ req[t].sub \in Submissions /\ TypeInv
    BY RequestFields DEF IInv, ThreadInv, RequestInv
  <2>2. RequestInv(t)'
    BY <2>1, <1>7 DEF ThreadInv, RequestInv, Reading
  <2>3. BuildInv(t)'
    <3>1. clock \in Nat /\ MaxBuild \in Nat
      BY <2>1, ApiConstants DEF TypeInv
    <3>2. QED
      BY <1>7, <3>1 DEF BuildInv, ReportsOf, IInv, CacheInv
  <2>4. OwnInv(t)'
    <3>1. base'[t][req[t].sub] = DOMAIN disk'[req[t].sub]
          /\ DOMAIN disk'[req[t].sub] = DOMAIN disk[req[t].sub]
      BY <2>1, <1>7 DEF ReportsOf
    <3>2. own[t] # 0 => own[t] \in DOMAIN disk[req[t].sub]
      BY <2>1 DEF ThreadInv, OwnInv, ReportsOf
    <3>3. CASE pc[t] = "wait" /\ where = "build"
      BY <2>1, <1>7, <3>1, <3>2, <3>3 DEF ThreadInv, OwnInv, Reading, ReportsOf
    <3>4. CASE pc[t] = "refresh" /\ where = "rebuild"
      <4>1. req[t].kind = "launch" /\ own[t] # 0 /\ req[t] \in Requests
        BY <2>1, <3>4 DEF ThreadInv, RequestInv, OwnInv
      <4>2. QED
        BY <2>1, <1>7, <3>1, <3>2, <3>4, <4>1 DEF OwnInv, Reading, ReportsOf
    <3>5. QED
      BY <3>3, <3>4
  <2>5. StaleInv(t)'
    BY <2>1, <1>7 DEF ThreadInv, StaleInv, ReportsOf
  <2>6. QED
    BY <2>2, <2>3, <2>4, <2>5 DEF ThreadInv
<1>9. QED
  BY <1>1, <1>3, <1>4, <1>5, <1>6, <1>8, OneMovesQuietly

(* A build never comes across less than the index has already.             *)
LEMMA BuildGrows ==
  ASSUME IInv, NEW t \in Threads, NEW at, Build(t, at), Building(t)
  PROVE  \A s \in Submissions :
           /\ index'[s] \in 0..MaxReports
           /\ index'[s] # 0 => index'[s] \in ReportsOf(s)
           /\ \A r \in base[t][s] : r <= index'[s]
           /\ index[s] <= index'[s]
<1>1. PICK seen \in [Submissions -> SUBSET (1..MaxReports)] :
        /\ \A s \in Submissions : base[t][s] \subseteq seen[s] /\ seen[s] \subseteq ReportsOf(s)
        /\ index' = [s \in Submissions |-> Newest(seen[s])]
  BY DEF Build
<1>2. MaxReports \in Nat /\ BuildInv(t) /\ TypeInv
  BY ApiConstants DEF IInv, ThreadInv
<1>3. TAKE s \in Submissions
<1>4. index'[s] = Newest(seen[s]) /\ seen[s] \subseteq 1..MaxReports
  BY <1>1
<1>5. /\ index'[s] \in 0..MaxReports
      /\ index'[s] # 0 => index'[s] \in ReportsOf(s)
      /\ \A r \in base[t][s] : r <= index'[s]
  BY <1>1, <1>2, <1>4, NewestIsMax
<1>6. index[s] <= index'[s]
  BY <1>2, <1>5 DEF BuildInv, TypeInv
<1>7. QED
  BY <1>5, <1>6

(* The index that is built is not older than the one before, and has all   *)
(* that was there when the build began.                                    *)
LEMMA BuildEnds ==
  ASSUME IInv, NEW t \in Threads, NEW at, NEW where, Build(t, at), GoTo(t, where),
         \/ pc[t] = "build" /\ where = "read" /\ at = stamp[t]
         \/ pc[t] = "rebuild" /\ where = "check" /\ at = clock
  PROVE  IInv'
<1>1. PICK seen \in [Submissions -> SUBSET (1..MaxReports)] :
        /\ \A s \in Submissions : base[t][s] \subseteq seen[s] /\ seen[s] \subseteq ReportsOf(s)
        /\ index' = [s \in Submissions |-> Newest(seen[s])]
  BY DEF Build
<1>2. pc' = [pc EXCEPT ![t] = where] /\ lock' = NoThread /\ indexedAt' = at
      /\ base' = [base EXCEPT ![t] = [s \in Submissions |-> {}]]
      /\ stamp' = [stamp EXCEPT ![t] = 0]
      /\ UNCHANGED <<clock, disk, runs, launcher, slots, since, own, req, answer>>
  BY DEF Build, GoTo, files
<1>3. MaxReports \in Nat /\ MaxBuild \in Nat /\ MaxClock \in Nat
  BY ApiConstants
<1>4. ThreadInv(t) /\ TypeInv /\ DiskInv /\ CacheInv /\ LockInv
  BY DEF IInv
<1>5. BuildInv(t) /\ Building(t)
  BY <1>4 DEF ThreadInv, Building
<1>6. \A s \in Submissions :
        /\ index'[s] \in 0..MaxReports
        /\ index'[s] # 0 => index'[s] \in ReportsOf(s)
        /\ \A r \in base[t][s] : r <= index'[s]
  BY <1>5, BuildGrows
<1>7. \A s \in Submissions : index[s] <= index'[s]
  BY <1>5, BuildGrows
<1>8. TypeInv'
  <2>1. [s \in Submissions |-> {}] \in [Submissions -> SUBSET (1..MaxReports)] /\ 0 \in 0..MaxClock
    BY <1>3
  <2>2. index' \in [Submissions -> 0..MaxReports]
    BY <1>1, <1>6
  <2>3. at \in Int
    BY <1>4 DEF TypeInv
  <2>4. QED
    BY <1>2, <1>4, <2>1, <2>2, <2>3 DEF TypeInv, Labels
<1>9. DiskInv'
  BY <1>2, <1>4 DEF DiskInv, ReportsOf
<1>10. \A u \in Threads \ {t} : ~Building(u)
  BY <1>4, <1>5, ApiConstants DEF LockInv, Building
<1>11. LockInv'
  BY <1>2, <1>4, <1>10, ApiConstants DEF TypeInv, LockInv, Building
<1>12. CacheInv'
  <2>1. at <= clock /\ at <= stamp[t] + MaxBuild /\ stamp[t] \in Int /\ clock \in Int
    BY <1>3, <1>4, <1>5 DEF BuildInv, TypeInv
  <2>2. ASSUME NEW s \in Submissions, NEW r \in ReportsOf(s), disk[s][r] + MaxBuild < at
        PROVE  r <= index'[s]
    <3>1. disk[s][r] \in Int
      BY <1>4 DEF DiskInv
    <3>2. disk[s][r] < stamp[t]
      BY <2>1, <2>2, <3>1, <1>3
    <3>3. r \in base[t][s]
      BY <1>5, <3>2 DEF BuildInv
    <3>4. QED
      BY <1>6, <3>3
  <2>3. QED
    BY <1>2, <1>6, <2>1, <2>2 DEF CacheInv, ReportsOf
<1>13. RunsInv'
  BY <1>2 DEF IInv, RunsInv
<1>14. SlotsConserved'
  BY <1>2, SlotsKept DEF IInv
<1>15. Grows
  BY <1>2, <1>4, <1>7 DEF Grows, TypeInv, ReportsOf
<1>16. \A u \in Threads \ {t} : Same(u)
  BY <1>2, <1>4 DEF TypeInv, Same
<1>17. pc'[t] = where /\ req'[t] = req[t] /\ answer'[t] = answer[t] /\ own'[t] = own[t]
       /\ since'[t] = since[t] /\ runs' = runs /\ disk' = disk /\ clock' = clock
  BY <1>2, <1>4 DEF TypeInv
<1>18. ThreadInv(t)'
  <2>1. req[t].sub \in Submissions
    BY <1>4, RequestFields DEF ThreadInv, RequestInv
  <2>2. RequestInv(t)'
    BY <1>4, <1>17 DEF ThreadInv, RequestInv, Reading
  <2>3. BuildInv(t)'
    BY <1>17 DEF BuildInv, Building
  <2>4. OwnInv(t)'
    <3>1. req[t].kind = "launch" => own[t] <= index'[req[t].sub]
      <4>1. own[t] \in Int /\ index[req[t].sub] \in Int /\ index'[req[t].sub] \in Int
        BY <1>4, <1>6, <2>1 DEF TypeInv
      <4>2. CASE pc[t] = "build"
        BY <1>4, <1>7, <2>1, <4>1, <4>2 DEF ThreadInv, OwnInv, Reading
      <4>3. CASE pc[t] = "rebuild"
        BY <1>4, <1>6, <2>1, <4>3 DEF ThreadInv, OwnInv
      <4>4. QED
        BY <4>2, <4>3
    <3>2. QED
      BY <1>4, <1>17, <3>1 DEF ThreadInv, OwnInv, Reading, ReportsOf
  <2>5. StaleInv(t)'
    <3>1. since[t].report # 0 /\ where = "read" => since[t].report <= index'[req[t].sub]
      BY <1>4, <1>6, <2>1 DEF ThreadInv, StaleInv
    <3>2. QED
      BY <1>4, <1>17, <3>1 DEF ThreadInv, StaleInv, ReportsOf
  <2>6. QED
    BY <2>2, <2>3, <2>4, <2>5 DEF ThreadInv
<1>19. QED
  BY <1>2, <1>8, <1>9, <1>10, <1>11, <1>12, <1>13, <1>14, <1>15, <1>16, <1>18, OneMoves

LEMMA TakeLockStep ==
  ASSUME IInv, NEW t \in Threads, TakeLock(t)
  PROVE  IInv'
<1>1. pc[t] = "wait" /\ LockIsFree /\ ThreadInv(t) /\ TypeInv /\ DiskInv /\ CacheInv
  BY DEF TakeLock, IInv
<1>2. CASE Fresh /\ GoTo(t, "read") /\ Unchanged
  <2>1. Plain(t) /\ Reading(t)
    BY <1>1 DEF Plain, Reading
  <2>2. RequestInv(t)'
    BY <1>1, <1>2 DEF GoTo, TypeInv, ThreadInv, RequestInv, Reading, Unchanged, files
  <2>3. req[t].kind = "launch" => own[t] # 0 /\ own[t] <= index[req[t].sub]
    BY <1>1, <2>1 DEF ThreadInv, OwnInv
  <2>5. req[t].sub \in Submissions
    BY <1>1, RequestFields DEF ThreadInv, RequestInv
  <2>6. since[t].report # 0 => since[t].report <= index[req[t].sub]
    BY <1>1, <1>2, <2>5, FreshShows DEF ThreadInv, StaleInv
  <2>7. QED
    BY <1>2, <2>1, <2>2, <2>3, <2>6, Moves
<1>3. CASE BeginBuild(t, "build") /\ UNCHANGED <<index, indexedAt>>
  BY <1>1, <1>3, BuildBegins
<1>4. QED
  BY <1>2, <1>3 DEF TakeLock

LEMMA RefreshBeginsStep ==
  ASSUME IInv, NEW t \in Threads, RefreshBegins(t)
  PROVE  IInv'
  BY BuildBegins DEF RefreshBegins

LEMMA RefreshIfNeededStep ==
  ASSUME IInv, NEW t \in Threads, RefreshIfNeeded(t)
  PROVE  IInv'
  BY BuildEnds DEF RefreshIfNeeded

LEMMA RefreshStep ==
  ASSUME IInv, NEW t \in Threads, Refresh(t)
  PROVE  IInv'
  BY BuildEnds DEF Refresh

LEMMA ReadIndexStep ==
  ASSUME IInv, NEW t \in Threads, ReadIndex(t)
  PROVE  IInv'
<1> DEFINE r == index[req[t].sub]
           c == IF req[t].kind = "launch" THEN "REPORT_WRITE_MISSING" ELSE "NOT_FOUND"
           a == IF r # 0 THEN [Code("OK") EXCEPT !.report = r] ELSE Code(c)
<1>1. Plain(t) /\ Unchanged /\ pc[t] = "read" /\ Reading(t)
  BY DEF ReadIndex, Plain, Reading
<1>2. ThreadInv(t) /\ TypeInv /\ MaxReports \in Nat
  BY ApiConstants DEF IInv
<1>3. r \in 0..MaxReports
  <2>1. req[t].sub \in Submissions
    BY <1>1, <1>2, RequestFields DEF ThreadInv, RequestInv
  <2>2. QED
    BY <1>2, <2>1 DEF TypeInv
<1>4. Answer(t, a)
  BY DEF ReadIndex
<1>5. r # 0 => a = [code |-> "OK", report |-> r, run |-> 0]
  BY CodeFields DEF Codes
<1>6. r = 0 => a = [code |-> c, report |-> 0, run |-> 0]
  BY CodeFields DEF Codes
<1> HIDE DEF a, c
<1>7. c \in Codes
  BY DEF c, Codes
<1>8. a \in [code : Codes, report : 0..MaxReports, run : Nat] /\ a.run = 0 /\ a.report = r
      /\ (r # 0 => a.code = "OK") /\ (r = 0 => a.code = c)
  <2>1. "OK" \in Codes /\ 0 \in 0..MaxReports
    BY <1>2 DEF Codes
  <2>2. CASE r # 0
    BY <1>3, <1>5, <2>1, <2>2
  <2>3. CASE r = 0
    BY <1>6, <1>7, <2>1, <2>3
  <2>4. QED
    BY <2>2, <2>3
<1>9. req[t].kind = "launch" => own[t] # 0 /\ own[t] <= r /\ own[t] \in Nat
  BY <1>1, <1>2 DEF ThreadInv, OwnInv, TypeInv
<1>10. since[t].report <= r
  BY <1>1, <1>2, <1>3 DEF ThreadInv, StaleInv, TypeInv
<1>12. a.run <= Len(runs)
  BY <1>2, <1>8 DEF TypeInv
<1>13. req[t].kind = "launch" =>
         (a.code = "OK" => a.report >= own[t]) /\ a.code # "REPORT_WRITE_MISSING"
  BY <1>3, <1>8, <1>9
<1>14. QED
  BY <1>1, <1>2, <1>3, <1>4, <1>8, <1>10, <1>12, <1>13, Answers

-----------------------------------------------------------------------------
(* Synchronous reviews.                                                    *)

LEMMA LaunchBeginsStep ==
  ASSUME IInv, NEW t \in Threads, LaunchBegins(t)
  PROVE  IInv'
<1>1. pc[t] = "handle" /\ req[t].kind = "launch" /\ ThreadInv(t) /\ TypeInv /\ LockInv
  BY DEF LaunchBegins, Handling, IInv
<1>2. CASE launcher = NoThread
  <2>1. launcher' = t /\ GoTo(t, "review")
        /\ UNCHANGED <<clock, files, reader, slots, accepted, since, base, stamp, own>>
    BY <1>2 DEF LaunchBegins
  <2>2. Quiet /\ lock' = lock
    BY <2>1 DEF Quiet, files, reader
  <2>3. TypeInv'
    BY <1>1, <2>1, <2>2 DEF TypeInv, GoTo, Quiet, Labels
  <2>4. LockInv'
    <3>1. NoThread \notin Threads
      BY ApiConstants
    <3>2. QED
      BY <1>1, <1>2, <2>1, <2>2, <3>1 DEF TypeInv, LockInv, GoTo
  <2>5. SlotsConserved'
    BY <1>1, <2>1, SlotsKept DEF IInv, GoTo
  <2>6. \A u \in Threads \ {t} : Same(u)
    BY <1>1, <2>1 DEF TypeInv, GoTo, Same
  <2>7. pc'[t] = "review" /\ req'[t] = req[t] /\ answer'[t] = answer[t] /\ own'[t] = own[t]
        /\ since'[t] = since[t] /\ runs' = runs /\ disk' = disk /\ clock' = clock
    BY <1>1, <2>1, <2>2 DEF TypeInv, GoTo, Quiet
  <2>8. ThreadInv(t)'
    BY <1>1, <2>7 DEF ThreadInv, RequestInv, BuildInv, OwnInv, StaleInv, Building,
                      Reading, ReportsOf, RunsOf
  <2>9. QED
    BY <2>2, <2>3, <2>4, <2>5, <2>6, <2>8, OneMovesQuietly
<1>3. CASE launcher # NoThread
  <2>1. Answer(t, Code("REVIEW_IN_PROGRESS")) /\ Unchanged
    BY <1>3 DEF LaunchBegins
  <2>2. Code("REVIEW_IN_PROGRESS") \in [code : Codes, report : 0..MaxReports, run : Nat]
        /\ Code("REVIEW_IN_PROGRESS").code = "REVIEW_IN_PROGRESS"
        /\ Code("REVIEW_IN_PROGRESS").run = 0
    BY CodeFields DEF Codes
  <2>3. Plain(t) /\ 0 <= Len(runs)
    BY <1>1 DEF Plain, TypeInv
  <2>4. QED
    BY <1>1, <2>1, <2>2, <2>3, Answers
<1>4. QED
  BY <1>2, <1>3

(* What is published now cannot be missed by an index of the past.         *)
LEMMA NewReportsAreYoung ==
  ASSUME TypeInv, CacheInv, UNCHANGED <<clock, index, indexedAt>>,
         \A x \in Submissions :
           /\ ReportsOf(x) \subseteq ReportsOf(x)'
           /\ \A q \in ReportsOf(x) : disk'[x][q] = disk[x][q]
           /\ \A q \in ReportsOf(x)' \ ReportsOf(x) : disk'[x][q] = clock
  PROVE  CacheInv'
<1>1. clock \in Int /\ indexedAt \in Int /\ MaxBuild \in Nat
  BY ApiConstants DEF TypeInv
<1>2. ASSUME NEW s \in Submissions, NEW r \in ReportsOf(s)', disk'[s][r] + MaxBuild < indexedAt
      PROVE  r <= index[s]
  <2>1. CASE r \in ReportsOf(s)
    BY <1>2, <2>1 DEF CacheInv
  <2>2. CASE r \notin ReportsOf(s)
    <3>1. disk'[s][r] = clock
      BY <1>2, <2>2
    <3>2. indexedAt <= clock
      BY DEF CacheInv
    <3>3. QED
      BY <1>1, <1>2, <3>1, <3>2
  <2>3. QED
    BY <2>1, <2>2
<1>3. QED
  BY <1>2 DEF CacheInv

LEMMA PublishStep ==
  ASSUME IInv, NEW t \in Threads, Publish(t)
  PROVE  IInv'
<1>1. PICK r \in 1..MaxReports : Write(req[t].sub, r) /\ own' = [own EXCEPT ![t] = r]
  BY DEF Publish
<1>2. pc[t] = "review" /\ own[t] = 0
      /\ UNCHANGED <<clock, runs, lock, index, indexedAt, launcher, slots, pc, req, since, base,
                     stamp, answer>>
  BY DEF Publish, reader
<1>3. ThreadInv(t) /\ TypeInv /\ DiskInv /\ CacheInv /\ LockInv /\ MaxReports \in Nat
  BY ApiConstants DEF IInv
<1>4. req[t] \in Requests /\ req[t].sub \in Submissions /\ req[t].kind = "launch"
  BY <1>2, <1>3, RequestFields DEF ThreadInv, RequestInv
<1>5. clock \in 0..MaxClock
  BY <1>3 DEF TypeInv
<1>6. /\ DiskInv'
      /\ r \in ReportsOf(req[t].sub)'
      /\ \A x \in Submissions :
           /\ ReportsOf(x) \subseteq ReportsOf(x)'
           /\ \A q \in ReportsOf(x) : disk'[x][q] = disk[x][q]
           /\ \A q \in ReportsOf(x)' \ ReportsOf(x) : disk'[x][q] = clock
  <2>1. UNCHANGED clock
    BY <1>2
  <2>2. UNCHANGED req
    BY <1>2
  <2>3. QED
    BY <1>1, <1>3, <1>4, <1>5, <2>1, <2>2, WriteAdds DEF ReportsOf
<1>7. TypeInv'
  BY <1>1, <1>2, <1>3 DEF TypeInv
<1>8. LockInv'
  BY <1>2, <1>3 DEF LockInv
<1>9. CacheInv'
  BY <1>2, <1>3, <1>6, NewReportsAreYoung
<1>10. RunsInv' /\ SlotsConserved'
  BY <1>2 DEF IInv, RunsInv, SlotsConserved
<1>11. Grows
  BY <1>2, <1>3, <1>6 DEF Grows, TypeInv
<1>12. \A u \in Threads \ {t} : Same(u)
  BY <1>1, <1>2, <1>3 DEF TypeInv, Same
<1>13. own'[t] = r /\ r # 0
  BY <1>1, <1>3 DEF TypeInv
<1>14. ThreadInv(t)'
  <2>1. RequestInv(t)' /\ BuildInv(t)'
    BY <1>2, <1>3 DEF ThreadInv, RequestInv, BuildInv, Building, Reading
  <2>2. OwnInv(t)'
    BY <1>2, <1>3, <1>4, <1>6, <1>13 DEF OwnInv, Reading, ReportsOf
  <2>3. StaleInv(t)'
    BY <1>2, <1>3, <1>4 DEF ThreadInv, StaleInv, Reading
  <2>4. QED
    BY <2>1, <2>2, <2>3 DEF ThreadInv
<1>15. QED
  BY <1>2, <1>6, <1>7, <1>8, <1>9, <1>10, <1>11, <1>12, <1>14, OneMoves

LEMMA LaunchEndsStep ==
  ASSUME IInv, NEW t \in Threads, LaunchEnds(t)
  PROVE  IInv'
<1>1. pc[t] = "review" /\ launcher' = NoThread
      /\ UNCHANGED <<clock, files, reader, slots, accepted, since, base, stamp, own>>
  BY DEF LaunchEnds, LaunchReturns
<1>2. ThreadInv(t) /\ TypeInv /\ LockInv /\ NoThread \notin Threads
  BY ApiConstants DEF IInv
<1>3. Quiet /\ lock' = lock
  BY <1>1 DEF Quiet, files, reader
<1>4. PICK where \in {"answered", "refresh"}, a \in {answer[t], Code("REVIEW_FAILED")} :
        /\ pc' = [pc EXCEPT ![t] = where] /\ answer' = [answer EXCEPT ![t] = a] /\ req' = req
        /\ where = "answered" => a = Code("REVIEW_FAILED")
        /\ where = "refresh" => a = answer[t] /\ own[t] # 0
  <2>1. CASE Answer(t, Code("REVIEW_FAILED"))
    BY <2>1 DEF Answer
  <2>2. CASE own[t] # 0 /\ GoTo(t, "refresh")
    <3>1. answer' = [answer EXCEPT ![t] = answer[t]]
      BY <1>2, <2>2 DEF GoTo, TypeInv
    <3>2. QED
      BY <2>2, <3>1 DEF GoTo
  <2>3. QED
    BY <2>1, <2>2 DEF LaunchEnds, LaunchReturns
<1>5. Code("REVIEW_FAILED") \in [code : Codes, report : 0..MaxReports, run : Nat]
      /\ Code("REVIEW_FAILED").code = "REVIEW_FAILED" /\ Code("REVIEW_FAILED").run = 0
  BY CodeFields DEF Codes
<1>6. TypeInv'
  BY <1>1, <1>2, <1>3, <1>4, <1>5 DEF TypeInv, Quiet, Labels
<1>7. LockInv'
  BY <1>1, <1>2, <1>3, <1>4 DEF TypeInv, LockInv
<1>8. SlotsConserved'
  BY <1>1, <1>2, <1>4, SlotsKept DEF IInv
<1>9. \A u \in Threads \ {t} : Same(u)
  BY <1>1, <1>2, <1>4 DEF TypeInv, Same
<1>10. pc'[t] = where /\ req'[t] = req[t] /\ answer'[t] = a /\ own'[t] = own[t]
       /\ since'[t] = since[t] /\ runs' = runs /\ disk' = disk /\ clock' = clock
  BY <1>1, <1>2, <1>3, <1>4 DEF TypeInv, Quiet
<1>11. ThreadInv(t)'
  <2>1. RequestInv(t)' /\ BuildInv(t)'
    BY <1>1, <1>2, <1>4, <1>5, <1>10 DEF ThreadInv, RequestInv, BuildInv, Building, Reading, TypeInv
  <2>2. OwnInv(t)'
    BY <1>1, <1>2, <1>4, <1>5, <1>10 DEF ThreadInv, OwnInv, Reading, ReportsOf
  <2>3. req[t].kind = "launch"
    BY <1>1, <1>2 DEF ThreadInv, RequestInv
  <2>4. StaleInv(t)'
    BY <1>1, <1>2, <1>10, <2>3 DEF ThreadInv, StaleInv, Reading, ReportsOf
  <2>5. QED
    BY <2>1, <2>2, <2>4 DEF ThreadInv
<1>12. QED
  BY <1>3, <1>6, <1>7, <1>8, <1>9, <1>11, OneMovesQuietly

-----------------------------------------------------------------------------
(* Runs.                                                                   *)

(* What holds of an envelope at some time holds of it without a time.      *)
LEMMA VerifiedAtAnyTime ==
  ASSUME NEW service \in {"agent", "plagiarism"}, NEW e, NEW now, Verified(service, e, now)
  PROVE  Verified(service, e, AnyTime)
<1>1. InWindow(e, now) => InWindow(e, AnyTime)
  BY DEF InWindow
<1>2. QED
  BY <1>1 DEF Verified, VerifyReviewBundle, VerifyPlagiarismBundle

(* No envelope is one of both services.                                    *)
LEMMA VerifiedByOne ==
  ASSUME NEW service \in {"agent", "plagiarism"}, NEW other \in {"agent", "plagiarism"}, NEW e,
         NEW now, Verified(service, e, now), Verified(other, e, now)
  PROVE  service = other
  BY DEF Verified, VerifyReviewBundle, VerifyPlagiarismBundle

(* A verified envelope that is not known becomes the last run.             *)
LEMMA RunAppended ==
  ASSUME TypeInv, RunsInv, NEW service \in {"agent", "plagiarism"}, NEW s \in Submissions,
         NEW e \in Envelopes, Verified(service, e, AnyTime), ~Known(service, e),
         runs' = Append(runs, [service |-> service, sub |-> s, env |-> e, state |-> "open"])
  PROVE  /\ runs' \in Seq(RunRecords) /\ RunsInv'
         /\ Len(runs) \in Nat /\ Len(runs') = Len(runs) + 1
         /\ \A i \in 1..Len(runs) : runs'[i] = runs[i]
<1> DEFINE r == [service |-> service, sub |-> s, env |-> e, state |-> "open"]
           n == Len(runs)
<1>1. r \in RunRecords /\ runs \in Seq(RunRecords) /\ n \in Nat
  BY DEF TypeInv, RunRecords
<1>2. r.service = service /\ r.env = e /\ r.state = "open"
  OBVIOUS
<1>3. runs' = Append(runs, r)
  OBVIOUS
<1> HIDE DEF r
<1>4. /\ runs' \in Seq(RunRecords) /\ Len(runs') = n + 1
      /\ \A i \in 1..n : runs'[i] = runs[i]
      /\ runs'[n + 1] = r
  BY <1>1, <1>3, AppendProperties
<1>5. \A i \in 1..n : runs[i].env # e
  <2>1. SUFFICES ASSUME NEW i \in 1..n, runs[i].env = e
                 PROVE  FALSE
    OBVIOUS
  <2>2. runs[i].service \in {"agent", "plagiarism"} /\ i \in DOMAIN runs
    <3>1. runs[i] \in RunRecords /\ i \in DOMAIN runs
      BY <1>1, ElementOfSeq, LenProperties
    <3>2. QED
      BY <3>1 DEF RunRecords
  <2>3. Verified(runs[i].service, e, AnyTime)
    BY <2>1 DEF RunsInv
  <2>4. runs[i].service = service
    BY <2>2, <2>3, VerifiedByOne
  <2>5. QED
    BY <2>1, <2>2, <2>4 DEF Known
<1>6. RunsInv'
  <2>1. ASSUME NEW i \in 1..n + 1
        PROVE  /\ runs'[i].state # "invalid" /\ Verified(runs'[i].service, runs'[i].env, AnyTime)
               /\ \A j \in 1..n + 1 : runs'[i].env = runs'[j].env => i = j
    <3>1. CASE i = n + 1
      BY <1>1, <1>2, <1>4, <1>5, <3>1
    <3>2. CASE i \in 1..n
      BY <1>1, <1>2, <1>4, <1>5, <3>2 DEF RunsInv
    <3>3. QED
      BY <1>1, <3>1, <3>2
  <2>2. QED
    BY <1>4, <2>1 DEF RunsInv, Verified, VerifyReviewBundle, VerifyPlagiarismBundle
<1>7. QED
  BY <1>1, <1>4, <1>6 DEF n

LEMMA CreateRunStep ==
  ASSUME IInv, NEW t \in Threads, CreateRun(t)
  PROVE  IInv'
<1> DEFINE service == req[t].kind
           e == req[t].env
<1>1. pc[t] = "handle" /\ service \in {"agent", "plagiarism"}
      /\ UNCHANGED <<clock, disk, lock, index, indexedAt, launcher, slots, since, base, stamp, own>>
  BY DEF CreateRun, reader
<1>2. ThreadInv(t) /\ TypeInv /\ LockInv /\ DiskInv /\ CacheInv /\ RunsInv /\ Len(runs) \in Nat
  BY DEF IInv, TypeInv
<1>3. req[t].sub \in Submissions /\ e \in Envelopes
  BY <1>1, <1>2, RequestFields DEF ThreadInv, RequestInv
<1>4. PICK c \in {"ACCEPTED", "INVALID_BUNDLE", "QUEUE_FULL"} :
        /\ Answer(t, Code(c))
        /\ \/ runs' = runs
           \/ /\ Verified(service, e, clock) /\ ~Known(service, e)
              /\ runs' = Append(runs, [service |-> service, sub |-> req[t].sub, env |-> e,
                                       state |-> "open"])
  BY DEF CreateRun
<1>5. /\ runs' \in Seq(RunRecords) /\ RunsInv'
      /\ Len(runs) <= Len(runs')
      /\ \A i \in 1..Len(runs) : runs'[i] = runs[i]
  <2>1. CASE runs' = runs
    BY <1>2, <2>1 DEF TypeInv, RunsInv
  <2>2. CASE runs' # runs
    <3>1. Verified(service, e, AnyTime)
      BY <1>1, <1>4, <2>2, VerifiedAtAnyTime
    <3>2. QED
      BY <1>1, <1>2, <1>3, <1>4, <2>2, <3>1, RunAppended
  <2>3. QED
    BY <2>1, <2>2
<1> DEFINE a == Code(c)
<1>6. a \in [code : Codes, report : 0..MaxReports, run : Nat] /\ a.code = c /\ a.run = 0
  BY CodeFields DEF Codes
<1> HIDE DEF a
<1>7. answer' = [answer EXCEPT ![t] = a] /\ pc' = [pc EXCEPT ![t] = "answered"] /\ req' = req
  BY <1>4 DEF Answer, a
<1>8. TypeInv'
  BY <1>1, <1>2, <1>5, <1>6, <1>7 DEF TypeInv, Labels
<1>9. LockInv'
  BY <1>1, <1>2, <1>7 DEF TypeInv, LockInv
<1>10. DiskInv' /\ CacheInv'
  BY <1>1, <1>2 DEF DiskInv, CacheInv, ReportsOf
<1>11. SlotsConserved'
  BY <1>1, <1>2, <1>7, SlotsKept DEF IInv
<1>12. Grows
  BY <1>1, <1>2, <1>5 DEF Grows, TypeInv, ReportsOf
<1>13. \A u \in Threads \ {t} : Same(u)
  BY <1>1, <1>2, <1>7 DEF TypeInv, Same
<1>14. pc'[t] = "answered" /\ req'[t] = req[t] /\ answer'[t] = a /\ own'[t] = own[t]
       /\ since'[t] = since[t]
  BY <1>1, <1>2, <1>7 DEF TypeInv
<1>15. ThreadInv(t)'
  <2>1. RequestInv(t)' /\ BuildInv(t)'
    BY <1>1, <1>2, <1>5, <1>6, <1>14 DEF ThreadInv, RequestInv, BuildInv, Building, Reading
  <2>2. OwnInv(t)'
    BY <1>1, <1>2, <1>14 DEF ThreadInv, OwnInv, Reading, ReportsOf
  <2>3. StaleInv(t)'
    BY <1>1, <1>2, <1>14 DEF ThreadInv, StaleInv, Reading, ReportsOf
  <2>4. QED
    BY <2>1, <2>2, <2>3 DEF ThreadInv
<1>16. QED
  BY <1>1, <1>5, <1>8, <1>9, <1>10, <1>11, <1>12, <1>13, <1>15, OneMoves

LEMMA LatestRunStep ==
  ASSUME IInv, NEW t \in Threads, LatestRun(t)
  PROVE  IInv'
<1>1. Plain(t) /\ Unchanged /\ req[t].kind = "latest" /\ TypeInv /\ MaxReports \in Nat
  BY ApiConstants DEF LatestRun, Handling, Plain, IInv
<1>2. PICK service \in {"agent", "plagiarism"} :
        Answer(t, IF Latest(service, req[t].sub) = 0 THEN Code("NOT_FOUND")
                  ELSE [Code("OK") EXCEPT !.run = Latest(service, req[t].sub)])
  BY DEF LatestRun
<1> DEFINE i == Latest(service, req[t].sub)
           a == IF i = 0 THEN Code("NOT_FOUND") ELSE [Code("OK") EXCEPT !.run = i]
<1>3. i \in 0..Len(runs) /\ Len(runs) \in Nat
  BY <1>1, RunsOfBounded
<1>4. Answer(t, a)
  BY <1>2
<1>5. Code("NOT_FOUND") = [code |-> "NOT_FOUND", report |-> 0, run |-> 0]
      /\ Code("OK") = [code |-> "OK", report |-> 0, run |-> 0]
      /\ "NOT_FOUND" \in Codes /\ "OK" \in Codes
  BY CodeFields DEF Codes
<1> HIDE DEF i
<1>6. a \in [code : Codes, report : 0..MaxReports, run : Nat] /\ a.run <= Len(runs)
  BY <1>1, <1>3, <1>5
<1> HIDE DEF a
<1>7. QED
  BY <1>1, <1>4, <1>6, Answers

-----------------------------------------------------------------------------
(* Steps of no thread.                                                     *)

LEMMA NobodyMoves ==
  ASSUME IInv, DiskInv', TypeInv', CacheInv', RunsInv', Grows,
         UNCHANGED <<index, lock, launcher, slots, threads>>,
         \A t \in Threads : Building(t) => clock' <= stamp[t] + MaxBuild
  PROVE  IInv'
<1>1. \A t \in Threads : Same(t)
  BY DEF threads, Same
<1>2. LockInv' /\ SlotsConserved'
  BY DEF IInv, LockInv, SlotsConserved, threads
<1>3. ASSUME NEW t \in Threads
      PROVE  ThreadInv(t)'
  BY <1>1, <1>3, ThreadStays DEF IInv
<1>4. QED
  BY <1>2, <1>3 DEF IInv

LEMMA RunEndsStep ==
  ASSUME IInv, NEW i \in DOMAIN runs, RunEnds(i)
  PROVE  IInv'
<1>1. TypeInv /\ RunsInv /\ DiskInv /\ CacheInv
      /\ \A t \in Threads : Building(t) => clock <= stamp[t] + MaxBuild
  BY DEF IInv, ThreadInv, BuildInv
<1>2. runs \in Seq(RunRecords) /\ Len(runs) \in Nat /\ i \in 1..Len(runs) /\ runs[i] \in RunRecords
  BY <1>1 DEF TypeInv
<1> DEFINE r == [runs[i] EXCEPT !.state = "completed"]
<1>3. r \in RunRecords /\ r.state = "completed" /\ r.env = runs[i].env
      /\ r.service = runs[i].service /\ r.sub = runs[i].sub
  BY <1>2 DEF RunRecords
<1>4. runs' = [runs EXCEPT ![i] = r]
  <2>1. StoredRequestIsValid(runs[i])
    BY <1>1, <1>2 DEF RunsInv, StoredRequestIsValid
  <2>2. QED
    BY <2>1 DEF RunEnds
<1> HIDE DEF r
<1>5. /\ runs' \in Seq(RunRecords) /\ Len(runs') = Len(runs)
      /\ \A j \in 1..Len(runs) : runs'[j] = IF j = i THEN r ELSE runs[j]
  BY <1>2, <1>3, <1>4, ExceptSeq
<1>6. UNCHANGED <<clock, disk, index, indexedAt, lock, launcher, slots, threads>>
  BY DEF RunEnds, reader
<1>7. TypeInv'
  BY <1>1, <1>5, <1>6 DEF TypeInv, threads
<1>8. DiskInv' /\ CacheInv'
  BY <1>1, <1>6 DEF DiskInv, CacheInv, ReportsOf
<1>9. RunsInv'
  BY <1>1, <1>3, <1>5 DEF RunsInv, Verified, VerifyReviewBundle, VerifyPlagiarismBundle
<1>10. Grows
  BY <1>1, <1>2, <1>3, <1>5, <1>6 DEF Grows, TypeInv, ReportsOf
<1>11. QED
  BY <1>1, <1>6, <1>7, <1>8, <1>9, <1>10, NobodyMoves

LEMMA BatchPublishesStep ==
  ASSUME IInv, NEW s \in Submissions, BatchPublishes(s)
  PROVE  IInv'
<1>1. TypeInv /\ RunsInv /\ DiskInv /\ CacheInv /\ clock \in 0..MaxClock
      /\ \A t \in Threads : Building(t) => clock <= stamp[t] + MaxBuild
  BY DEF IInv, ThreadInv, BuildInv, TypeInv
<1>2. UNCHANGED <<clock, runs, index, indexedAt, lock, launcher, slots, threads>>
  BY DEF BatchPublishes, reader
<1>3. PICK r \in 1..MaxReports : Write(s, r)
  BY DEF BatchPublishes
<1>4. UNCHANGED clock
  BY <1>2
<1>5. /\ DiskInv'
      /\ \A x \in Submissions :
           /\ ReportsOf(x) \subseteq ReportsOf(x)'
           /\ \A q \in ReportsOf(x) : disk'[x][q] = disk[x][q]
           /\ \A q \in ReportsOf(x)' \ ReportsOf(x) : disk'[x][q] = clock
  BY <1>1, <1>3, <1>4, WriteAdds
<1>6. TypeInv' /\ RunsInv'
  BY <1>1, <1>2 DEF TypeInv, RunsInv, threads
<1>7. CacheInv'
  BY <1>1, <1>2, <1>5, NewReportsAreYoung
<1>8. Grows
  BY <1>1, <1>2, <1>5 DEF Grows, TypeInv
<1>9. QED
  BY <1>1, <1>2, <1>5, <1>6, <1>7, <1>8, NobodyMoves

LEMMA TickStep ==
  ASSUME IInv, Tick
  PROVE  IInv'
<1>1. TypeInv /\ RunsInv /\ DiskInv /\ CacheInv /\ MaxBuild \in Nat /\ MaxClock \in Nat
  BY ApiConstants DEF IInv
<1>2. clock' = clock + 1 /\ clock < MaxClock /\ clock \in Nat
      /\ UNCHANGED <<disk, runs, index, indexedAt, lock, launcher, slots, threads>>
  BY <1>1 DEF Tick, files, reader, TypeInv
<1>3. TypeInv' /\ RunsInv'
  BY <1>1, <1>2 DEF TypeInv, RunsInv, threads
<1>4. DiskInv' /\ CacheInv'
  BY <1>1, <1>2 DEF DiskInv, CacheInv, ReportsOf, TypeInv
<1>5. Grows
  BY <1>1, <1>2 DEF Grows, TypeInv, ReportsOf
<1>6. \A t \in Threads : Building(t) => clock' <= stamp[t] + MaxBuild
  BY <1>1, <1>2 DEF Tick, Building, TypeInv
<1>7. QED
  BY <1>2, <1>3, <1>4, <1>5, <1>6, NobodyMoves

LEMMA StutterStep ==
  ASSUME IInv, UNCHANGED vars
  PROVE  IInv'
<1>1. UNCHANGED <<clock, disk, runs, index, indexedAt, lock, launcher, slots, threads>>
  BY DEF vars, files, reader
<1>2. TypeInv' /\ RunsInv' /\ DiskInv' /\ CacheInv'
  BY <1>1 DEF IInv, TypeInv, RunsInv, DiskInv, CacheInv, ReportsOf, threads
<1>3. Grows /\ \A t \in Threads : Building(t) => clock' <= stamp[t] + MaxBuild
  BY <1>1, QuietGrows DEF IInv, ThreadInv, BuildInv, Quiet
<1>4. QED
  BY <1>1, <1>2, <1>3, NobodyMoves

-----------------------------------------------------------------------------
(* The invariant holds.                                                    *)

LEMMA InitHolds == Init => IInv
<1> SUFFICES ASSUME Init
             PROVE  IInv
  OBVIOUS
<1>1. /\ MaxReports \in Nat /\ MaxClock \in Nat /\ RefreshSeconds \in Nat /\ MaxBuild \in Nat
      /\ MaxRequests \in Nat /\ NoThread \notin Threads
  BY ApiConstants
<1>2. DOMAIN <<>> = {} /\ runs = <<>> /\ runs \in Seq(RunRecords) /\ Len(runs) = 0
  BY EmptySeq DEF Init
<1>3. \A s \in Submissions : ReportsOf(s) = {}
  BY <1>2 DEF Init, ReportsOf
<1>4. DiskInv
  BY <1>3 DEF Init, DiskInv
<1>5. TypeInv
  <2>1. NoStart \in [report : 0..MaxReports, run : Nat]
        /\ NoAnswer \in [code : Codes, report : 0..MaxReports, run : Nat]
    BY <1>1 DEF NoStart, NoAnswer, Codes
  <2>2. QED
    BY <1>1, <1>2, <2>1 DEF Init, TypeInv, Labels
<1>6. LockInv
  BY <1>1 DEF Init, LockInv
<1>7. CacheInv
  BY <1>1, <1>3 DEF Init, CacheInv
<1>8. RunsInv
  BY <1>2 DEF RunsInv
<1>9. SlotsConserved
  <2>1. {t \in Threads : pc[t] # "idle"} = {}
    BY DEF Init
  <2>2. Cardinality({t \in Threads : pc[t] # "idle"}) = 0
    BY <2>1, FS_EmptySet
  <2>3. QED
    BY <1>1, <2>2 DEF Init, SlotsConserved
<1>10. ASSUME NEW t \in Threads
       PROVE  ThreadInv(t)
  <2>1. RequestInv(t) /\ BuildInv(t) /\ OwnInv(t)
    BY <1>2 DEF Init, RequestInv, BuildInv, OwnInv, Building, Reading, NoAnswer, NoRequest
  <2>2. StaleInv(t)
    BY DEF Init, StaleInv, NoStart
  <2>3. QED
    BY <2>1, <2>2 DEF ThreadInv
<1>11. QED
  BY <1>4, <1>5, <1>6, <1>7, <1>8, <1>9, <1>10 DEF IInv

LEMMA NextKeeps == IInv /\ [Next]_vars => IInv'
<1> SUFFICES ASSUME IInv, [Next]_vars
             PROVE  IInv'
  OBVIOUS
<1>1. ASSUME NEW t \in Threads, Accept(t)
      PROVE  IInv'
  BY <1>1, AcceptStep
<1>2. ASSUME NEW t \in Threads, Step(t)
      PROVE  IInv'
  <2>1. CASE Fails(t) \/ Close(t)
    BY <2>1, LeaveStep DEF Fails, Close
  <2>2. CASE Refuse(t)
    BY <2>2, RefuseStep
  <2>3. CASE GetReport(t) \/ Check(t) \/ TakeLock(t) \/ RefreshIfNeeded(t) \/ ReadIndex(t)
    BY <2>3, GetReportStep, CheckStep, TakeLockStep, RefreshIfNeededStep, ReadIndexStep
  <2>4. CASE LaunchBegins(t) \/ Publish(t) \/ LaunchEnds(t) \/ RefreshBegins(t) \/ Refresh(t)
    BY <2>4, LaunchBeginsStep, PublishStep, LaunchEndsStep, RefreshBeginsStep, RefreshStep
  <2>5. CASE CreateRun(t) \/ LatestRun(t)
    BY <2>5, CreateRunStep, LatestRunStep
  <2>6. QED
    BY <1>2, <2>1, <2>2, <2>3, <2>4, <2>5 DEF Step
<1>3. ASSUME NEW i \in DOMAIN runs, RunEnds(i)
      PROVE  IInv'
  BY <1>3, RunEndsStep
<1>4. ASSUME NEW s \in Submissions, BatchPublishes(s)
      PROVE  IInv'
  BY <1>4, BatchPublishesStep
<1>5. CASE Tick
  BY <1>5, TickStep
<1>6. CASE UNCHANGED vars
  BY <1>6, StutterStep
<1>7. QED
  BY <1>1, <1>2, <1>3, <1>4, <1>5, <1>6 DEF Next

(* Every state that the service can get into satisfies the invariant: the  *)
(* locks, the cache, the runs, the slots and what each request relies on.  *)
THEOREM Invariance == Spec => []IInv
<1>1. QED
  BY InitHolds, NextKeeps, PTL DEF Spec

-----------------------------------------------------------------------------
(* What follows from it.                                                   *)

(* Every variable keeps its type, and no two threads hold the lock of the  *)
(* reader, or that of the launcher.                                        *)
THEOREM TypeCorrect == Spec => []TypeOK
<1>1. ASSUME IInv
      PROVE  TypeOK
  <2>1. TypeInv /\ DiskInv /\ LockInv /\ \A t \in Threads : RequestInv(t)
    BY <1>1 DEF IInv, ThreadInv
  <2>2. \A i \in DOMAIN runs : runs[i] \in RunRecords
    BY <2>1, ElementOfSeq, LenProperties DEF TypeInv
  <2>3. ASSUME NEW t \in Threads
        PROVE  answer[t].report \in 0..MaxReports /\ answer[t].run \in 0..Len(runs)
    BY <2>1 DEF TypeInv, RequestInv
  <2>4. QED
    BY <2>1, <2>2, <2>3 DEF TypeOK, TypeInv, DiskInv, LockInv, RunRecords
<1>2. QED
  BY <1>1, Invariance, PTL

(* No path through a request loses its slot or gives it back twice         *)
(* (report_api.py: _BoundedThreadingHTTPServer).                           *)
THEOREM SlotsAreConserved == Spec => []SlotsConserved
<1>1. IInv => SlotsConserved
  BY DEF IInv
<1>2. QED
  BY <1>1, Invariance, PTL

(* A successful synchronous review finds its own report in the index, or a *)
(* newer one, whatever other threads and batches do in between.            *)
THEOREM LaunchFindsItsReport == Spec => []LaunchShowsItsReport
<1>1. IInv => LaunchShowsItsReport
  BY DEF IInv, ThreadInv, OwnInv, LaunchShowsItsReport
<1>2. QED
  BY <1>1, Invariance, PTL

(* What a reader misses is younger than one refresh interval and the time  *)
(* of one build.                                                           *)
THEOREM StalenessIsBounded == Spec => []BoundedStaleness
<1>1. IInv => BoundedStaleness
  BY DEF IInv, ThreadInv, StaleInv, BoundedStaleness
<1>2. QED
  BY <1>1, Invariance, PTL

(* A stored request that was accepted verifies for ever, and an envelope   *)
(* is the request of one run of one service at most.                       *)
THEOREM AcceptedStaysValid == Spec => []AcceptedRunsStayValid
<1>1. ASSUME IInv
      PROVE  AcceptedRunsStayValid
  <2>1. DOMAIN runs = 1..Len(runs)
    BY <1>1, LenProperties DEF IInv, TypeInv
  <2>2. QED
    BY <1>1, <2>1 DEF IInv, RunsInv, AcceptedRunsStayValid
<1>2. QED
  BY <1>1, Invariance, PTL

(* No rebuild, by whomever and however long it took, replaces an index by  *)
(* an older one.                                                           *)
THEOREM IndexGrows == Spec => IndexNeverGoesBack
<1>1. ASSUME IInv, [Next]_vars
      PROVE  [\A s \in Submissions : index'[s] >= index[s]]_index
  <2>1. SUFFICES ASSUME index' # index
                 PROVE  \A s \in Submissions : index'[s] >= index[s]
    OBVIOUS
  <2>2. ASSUME NEW t \in Threads, Accept(t) \/ Step(t)
        PROVE  RefreshIfNeeded(t) \/ Refresh(t)
    BY <2>1, <2>2 DEF Accept, Step, Fails, Close, Leave, Refuse, GetReport, Check, TakeLock,
         ReadIndex, LaunchBegins, Publish, LaunchEnds, LaunchReturns, RefreshBegins, CreateRun,
         LatestRun, Unchanged, reader
  <2>3. PICK t \in Threads : RefreshIfNeeded(t) \/ Refresh(t)
    BY <1>1, <2>1, <2>2 DEF Next, RunEnds, BatchPublishes, Tick, vars, reader
  <2>4. Building(t) /\ (Build(t, stamp[t]) \/ Build(t, clock))
    BY <2>3 DEF RefreshIfNeeded, Refresh, Building
  <2>5. \A s \in Submissions : index[s] <= index'[s] /\ index'[s] \in Int
    BY <1>1, <2>4, BuildGrows
  <2>6. \A s \in Submissions : index[s] \in Int
    BY <1>1 DEF IInv, TypeInv
  <2>7. QED
    BY <2>5, <2>6
<1>2. QED
  BY <1>1, Invariance, PTL DEF Spec, IndexNeverGoesBack

=============================================================================
