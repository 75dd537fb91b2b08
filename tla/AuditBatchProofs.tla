-------------------------- MODULE AuditBatchProofs --------------------------
(***************************************************************************)
(* Proofs about AuditBatch, for any number of processes, batches, tasks,   *)
(* answers and executions.                                                 *)
(***************************************************************************)
EXTENDS AuditBatch, TLAPS

-----------------------------------------------------------------------------
(* The inductive invariant.                                                *)

Ended     == {"idle", "conflict"}
AtATask   == {"calling", "record", "result", "attempt", "publish"}
Answered  == {"record", "result", "attempt", "publish"}

(* A task is done in a batch when its result is written and published.     *)
Done(j, k) == results[j][k] # None /\ results[j][k] \in derived[k]

(* A process that executes a batch has a manifest, and stands at a task of *)
(* it or behind the last one.                                              *)
PlaceInv(p) ==
  /\ pc[p] \notin Ended => run[p] \in RunIds /\ manifests[run[p]] # None
  /\ pc[p] \in Ended \cup {"begun"} => pos[p] = 1 /\ count[p] = ZeroCount
  /\ pc[p] \in AtATask => pos[p] \in 1 .. Len(Tasks(p))
  /\ pc[p] = "next"    => pos[p] \in 1 .. Len(Tasks(p)) + 1

(* What the review at hand is, and what of it is stored already.           *)
ReviewInv(p) ==
  /\ pc[p] \notin Answered => review[p] = None
  /\ pc[p] \in Answered \ {"attempt"} => review[p] # None
  /\ pc[p] = "record" => Final(Key(p), review[p])
  /\ pc[p] = "result" => Conclusive(review[p])
  /\ pc[p] \in {"result", "publish"} /\ Final(Key(p), review[p]) =>
       ledger[Key(p)] = review[p]
  /\ pc[p] = "attempt" /\ review[p] # None => ~Conclusive(review[p])
  /\ pc[p] = "publish" /\ Conclusive(review[p]) => results[run[p]][Key(p)] = review[p]

(* The counters count the tasks behind the process, and the one it stands  *)
(* at once it is looked up or answered.                                    *)
CountInv(p) ==
  /\ pc[p] \notin Ended =>
       /\ count[p].hits + count[p].calls =
            pos[p] - 1 + (IF pc[p] \in AtATask THEN 1 ELSE 0)
       /\ count[p].completed + count[p].inconclusive + count[p].failed =
            pos[p] - 1 + (IF pc[p] \in Answered THEN 1 ELSE 0)
  /\ pc[p] = "attempt" => ~AllResolved(count[p])
  /\ pc[p] = "publish" /\ ~Conclusive(review[p]) => ~AllResolved(count[p])

(* As long as nothing failed or stayed open, all tasks behind are done.    *)
DoneInv(p) ==
  pc[p] \notin Ended /\ AllResolved(count[p]) =>
    \A i \in 1 .. pos[p] - 1 : Done(run[p], Tasks(p)[i])

ProcInv(p) == PlaceInv(p) /\ ReviewInv(p) /\ CountInv(p) /\ DoneInv(p)

(* A final verdict, wherever it is, is the one in the ledger.              *)
Agreement ==
  /\ \A k \in Keys : \A v \in derived[k] : Final(k, v) => v = ledger[k]
  /\ \A j \in RunIds, k \in Keys :
       results[j][k] # None /\ Final(k, results[j][k]) => results[j][k] = ledger[k]

IInv ==
  /\ TypeOK
  /\ \A p \in Processes : ProcInv(p)
  /\ Agreement
  /\ SummaryMeansPublished

-----------------------------------------------------------------------------
(* Other processes.                                                        *)

(* What is stored stays as it is.                                          *)
Grows ==
  /\ \A j \in RunIds : manifests[j] # None => manifests'[j] = manifests[j]
  /\ \A k \in Keys : ledger[k] # None => ledger'[k] = ledger[k]
  /\ \A j \in RunIds, k \in Keys : results[j][k] # None => results'[j][k] = results[j][k]
  /\ \A k \in Keys : derived[k] \subseteq derived'[k]

Keeps(q) ==
  /\ pc'[q] = pc[q] /\ run'[q] = run[q] /\ pos'[q] = pos[q]
  /\ review'[q] = review[q] /\ count'[q] = count[q]

OthersKeep(p) == \A q \in Processes : q # p => Keeps(q)

(* A process that executes a batch has a task list, and one that is at a   *)
(* task of it has the key of this task.                                    *)
LEMMA HasTasks ==
  ASSUME TypeOK, NEW p \in Processes, PlaceInv(p), pc[p] \notin Ended
  PROVE  /\ run[p] \in RunIds
         /\ Tasks(p) \in Seq(Keys)
         /\ Len(Tasks(p)) \in Nat
         /\ \A i \in 1 .. Len(Tasks(p)) : Tasks(p)[i] \in Keys
<1>1. run[p] \in RunIds /\ manifests[run[p]] \in Proposals
  BY DEF TypeOK, PlaceInv
<1>2. Tasks(p) \in Seq(Keys)
  BY <1>1, BatchConstants DEF Tasks
<1> QED
  BY <1>1, <1>2

LEMMA HasKey ==
  ASSUME TypeOK, NEW p \in Processes, PlaceInv(p), pc[p] \in AtATask
  PROVE  /\ run[p] \in RunIds
         /\ Len(Tasks(p)) \in Nat
         /\ pos[p] \in 1 .. Len(Tasks(p))
         /\ Key(p) \in Keys
<1>1. pc[p] \notin Ended
  BY DEF AtATask, Ended
<1>2. pos[p] \in 1 .. Len(Tasks(p))
  BY DEF PlaceInv
<1> QED
  BY <1>1, <1>2, HasTasks DEF Key

(* The tasks that are done stay done, as long as nothing more fails.       *)
LEMMA StillDone ==
  ASSUME TypeOK, NEW p \in Processes, PlaceInv(p), DoneInv(p), Grows,
         pc[p] \notin Ended, run'[p] = run[p], pos'[p] = pos[p],
         AllResolved(count'[p]) => AllResolved(count[p])
  PROVE  DoneInv(p)'
<1> SUFFICES ASSUME AllResolved(count[p]), NEW i \in 1 .. pos[p] - 1
             PROVE  Done(run[p], Tasks(p)[i])' /\ Tasks(p)' = Tasks(p)
  BY DEF DoneInv, Done
<1>1. Done(run[p], Tasks(p)[i]) /\ run[p] \in RunIds
  BY DEF DoneInv, PlaceInv
<1>2. pos[p] - 1 <= Len(Tasks(p)) /\ pos[p] \in Nat
  BY HasTasks DEF PlaceInv, TypeOK, AtATask, Ended, PcLabels
<1>3. Tasks(p)[i] \in Keys
  BY <1>2, HasTasks
<1>4. Tasks(p)' = Tasks(p)
  BY DEF PlaceInv, Grows, Tasks
<1> QED
  BY <1>1, <1>3, <1>4 DEF Done, Grows

(* What others write does not disturb a process.                           *)
LEMMA StaysInvariant ==
  ASSUME TypeOK, NEW q \in Processes, ProcInv(q), Grows, Keeps(q)
  PROVE  ProcInv(q)'
<1> USE DEF Keeps
<1>1. pc[q] \notin Ended => Tasks(q)' = Tasks(q) /\ manifests'[run[q]] # None
  BY DEF ProcInv, PlaceInv, Grows, Tasks
<1>2. pc[q] \in AtATask => Key(q)' = Key(q) /\ Key(q) \in Keys
  BY <1>1, HasKey DEF ProcInv, Key, AtATask, Ended
<1>3. PlaceInv(q)'
  BY <1>1 DEF ProcInv, PlaceInv, AtATask, Ended
<1>4. ReviewInv(q)'
  <2>1. CASE pc[q] \in AtATask
    <3>1. /\ run[q] \in RunIds
          /\ pc[q] \in {"result", "publish"} /\ Final(Key(q), review[q]) =>
               ledger'[Key(q)] = review[q]
      BY <2>1, <1>2, HasKey DEF ProcInv, ReviewInv, Grows, Answered
    <3>2. pc[q] = "publish" /\ Conclusive(review[q]) =>
            results'[run[q]][Key(q)] = review[q]
      BY <2>1, <1>2, <3>1 DEF ProcInv, ReviewInv, Grows, Answered
    <3> QED
      BY <2>1, <1>2, <3>1, <3>2 DEF ProcInv, ReviewInv, Final, Reusable, Conclusive
  <2>2. CASE pc[q] \notin AtATask
    BY <2>2 DEF ProcInv, ReviewInv, AtATask, Answered
  <2> QED
    BY <2>1, <2>2
<1>5. CountInv(q)'
  BY DEF ProcInv, CountInv, AllResolved, Conclusive
<1>6. DoneInv(q)'
  <2>1. CASE pc[q] \notin Ended
    BY <2>1, StillDone DEF ProcInv
  <2>2. CASE pc[q] \in Ended
    BY <2>2 DEF DoneInv
  <2> QED
    BY <2>1, <2>2
<1> QED
  BY <1>3, <1>4, <1>5, <1>6 DEF ProcInv

(* A summary, once written, stays true.                                    *)
LEMMA SummaryStaysTrue ==
  ASSUME TypeOK, SummaryMeansPublished, Grows, UNCHANGED summaries
  PROVE  SummaryMeansPublished'
<1> SUFFICES ASSUME NEW j \in RunIds, summaries[j] # None
             PROVE  /\ manifests'[j] # None
                    /\ \A i \in DOMAIN manifests'[j] :
                         LET k == manifests'[j][i] IN
                           results'[j][k] # None /\ results'[j][k] \in derived'[k]
                    /\ summaries[j].completed = Len(manifests'[j])
                    /\ summaries[j].hits + summaries[j].calls = Len(manifests'[j])
  BY DEF SummaryMeansPublished
<1>1. manifests[j] # None /\ manifests'[j] = manifests[j]
  BY DEF SummaryMeansPublished, Grows
<1>2. manifests[j] \in Seq(Keys)
  BY <1>1, BatchConstants DEF TypeOK
<1>3. \A i \in DOMAIN manifests[j] : manifests[j][i] \in Keys
  BY <1>2
<1> QED
  BY <1>1, <1>3 DEF SummaryMeansPublished, Grows

(* Agreement, when only the ledger grows.                                  *)
LEMMA StillAgreed ==
  ASSUME TypeOK, Agreement, Grows, UNCHANGED <<results, derived>>
  PROVE  Agreement'
<1>1. ASSUME NEW k \in Keys, NEW v \in derived[k], Final(k, v)
      PROVE  v = ledger'[k]
  BY <1>1, BatchConstants DEF Agreement, Grows, TypeOK
<1>2. ASSUME NEW j \in RunIds, NEW k \in Keys,
             results[j][k] # None, Final(k, results[j][k])
      PROVE  results[j][k] = ledger'[k]
  BY <1>2 DEF Agreement, Grows
<1> QED
  BY <1>1, <1>2 DEF Agreement

LEMMA Assembled ==
  ASSUME IInv, NEW p \in Processes, Grows, OthersKeep(p), ProcInv(p)',
         TypeOK', Agreement', SummaryMeansPublished'
  PROVE  IInv'
<1>1. ASSUME NEW q \in Processes, q # p PROVE ProcInv(q)'
  BY <1>1, StaysInvariant DEF IInv, OthersKeep
<1> QED
  BY <1>1 DEF IInv

(* The end of an execution.                                                *)
LEMMA ExitsInvariant ==
  ASSUME TypeOK, NEW p \in Processes, NEW label \in Ended, Exit(p, label)
  PROVE  /\ ProcInv(p)' /\ OthersKeep(p)
         /\ pc'     \in [Processes -> PcLabels]
         /\ run'    \in [Processes -> RunIds \cup {None}]
         /\ pos'    \in [Processes -> Nat]
         /\ review' \in [Processes -> Reviews \cup {None}]
         /\ count'  \in [Processes -> Counts]
<1> USE DEF Exit, Goto, SetCount
<1>1. /\ pc'[p] = label /\ pos'[p] = 1 /\ review'[p] = None
      /\ count'[p] = ZeroCount /\ OthersKeep(p)
  BY DEF TypeOK, OthersKeep, Keeps
<1>2. ProcInv(p)'
  BY <1>1 DEF ProcInv, PlaceInv, ReviewInv, CountInv, DoneInv, Ended, AtATask, Answered
<1>3. ZeroCount \in Counts
  BY DEF ZeroCount, Counts
<1> QED
  BY <1>1, <1>2, <1>3 DEF TypeOK, PcLabels, Ended

-----------------------------------------------------------------------------
(* The steps.                                                              *)

(* A step that writes nothing.                                             *)
LEMMA NothingWritten ==
  ASSUME IInv, NEW p \in Processes, UNCHANGED disk, OthersKeep(p), ProcInv(p)', TypeOK'
  PROVE  IInv'
<1>1. Grows
  BY DEF Grows, disk, runDirs
<1>2. Agreement' /\ SummaryMeansPublished'
  BY <1>1, StillAgreed, SummaryStaysTrue DEF IInv, disk, runDirs
<1> QED
  BY <1>1, <1>2, Assembled

LEMMA ExitKeepsInv ==
  ASSUME IInv, NEW p \in Processes, NEW label \in Ended, Exit(p, label),
         UNCHANGED <<disk, calls, executions>>
  PROVE  IInv'
<1>1. ProcInv(p)' /\ OthersKeep(p)
  BY ExitsInvariant DEF IInv
<1>2. TypeOK'
  BY ExitsInvariant DEF IInv, TypeOK, disk, runDirs
<1> QED
  BY <1>1, <1>2, NothingWritten

LEMMA BeginKeepsInv ==
  ASSUME IInv, NEW p \in Processes, NEW j \in RunIds, Begin(p, j)
  PROVE  IInv'
<1> USE DEF IInv
<1>1. PICK tasks \in Proposals :
        /\ CanWrite(manifests[j], tasks)
        /\ manifests' = [manifests EXCEPT ![j] = tasks]
  BY DEF Begin
<1>2. Grows
  BY <1>1 DEF Begin, Grows, CanWrite, TypeOK
<1>3. /\ pc'[p] = "begun" /\ run'[p] = j /\ pos'[p] = pos[p]
      /\ review'[p] = review[p] /\ count'[p] = count[p] /\ manifests'[j] = tasks
      /\ OthersKeep(p)
  BY <1>1 DEF Begin, Goto, TypeOK, OthersKeep, Keeps
<1>4. TypeOK'
  BY <1>1 DEF Begin, Goto, TypeOK, PcLabels
<1>5. pos[p] = 1 /\ count[p] = ZeroCount /\ review[p] = None
  BY DEF Begin, ProcInv, PlaceInv, ReviewInv, Ended, Answered
<1>6. ProcInv(p)'
  <2>1. PlaceInv(p)' /\ ReviewInv(p)'
    BY <1>3, <1>5, BatchConstants DEF PlaceInv, ReviewInv, Ended, AtATask, Answered
  <2>2. CountInv(p)' /\ DoneInv(p)'
    BY <1>3, <1>5 DEF CountInv, DoneInv, ZeroCount, Ended, AtATask, Answered
  <2> QED
    BY <2>1, <2>2 DEF ProcInv
<1>7. Agreement' /\ SummaryMeansPublished'
  BY <1>2, StillAgreed, SummaryStaysTrue DEF Begin
<1> QED
  BY <1>2, <1>3, <1>4, <1>6, <1>7, Assembled

LEMMA ReadSummaryKeepsInv ==
  ASSUME IInv, NEW p \in Processes, ReadSummary(p)
  PROVE  IInv'
<1> USE DEF IInv
<1>1. CASE Exit(p, "idle")
  BY <1>1, ExitKeepsInv DEF ReadSummary, Ended
<1>2. CASE Continue(p, "next")
  <2>1. /\ pc[p] = "begun" /\ pc'[p] = "next" /\ OthersKeep(p)
        /\ UNCHANGED <<disk, run, pos, review, count>>
    BY <1>2 DEF ReadSummary, Continue, Goto, TypeOK, OthersKeep, Keeps
  <2>2. TypeOK'
    BY <1>2 DEF ReadSummary, Continue, Goto, TypeOK, PcLabels, disk, runDirs
  <2>3. Len(Tasks(p)) \in Nat /\ Tasks(p)' = Tasks(p) /\ pos[p] = 1
    BY <2>1, HasTasks DEF ProcInv, PlaceInv, Ended, Tasks, disk, runDirs
  <2>4. PlaceInv(p)' /\ ReviewInv(p)'
    BY <2>1, <2>3 DEF ProcInv, PlaceInv, ReviewInv, Ended, AtATask, Answered, disk, runDirs
  <2>5. CountInv(p)' /\ DoneInv(p)'
    BY <2>1, <2>3 DEF ProcInv, CountInv, DoneInv, Ended, AtATask, Answered
  <2> QED
    BY <2>1, <2>2, <2>4, <2>5, NothingWritten DEF ProcInv
<1> QED
  BY <1>1, <1>2 DEF ReadSummary

(* Standing at a task, with its key.                                       *)
LEMMA NextHasKey ==
  ASSUME TypeOK, NEW p \in Processes, PlaceInv(p), pc[p] = "next",
         pos[p] \in DOMAIN Tasks(p)
  PROVE  pos[p] \in 1 .. Len(Tasks(p)) /\ Key(p) \in Keys
<1>1. Tasks(p) \in Seq(Keys)
  BY HasTasks DEF Ended
<1> QED
  BY <1>1 DEF Key

LEMMA CountsAreNumbers ==
  ASSUME NEW c \in Counts
  PROVE  /\ c.hits \in Nat /\ c.calls \in Nat /\ c.completed \in Nat
         /\ c.inconclusive \in Nat /\ c.failed \in Nat
  BY DEF Counts

(* Each way in which the counters go up.                                   *)
LEMMA CountHit ==
  ASSUME NEW c \in Counts, NEW d, d = [c EXCEPT !.hits = @ + 1, !.completed = @ + 1]
  PROVE  /\ d \in Counts
         /\ d.hits = c.hits + 1 /\ d.calls = c.calls /\ d.completed = c.completed + 1
         /\ d.inconclusive = c.inconclusive /\ d.failed = c.failed
<1>1. /\ c.hits \in Nat /\ c.calls \in Nat /\ c.completed \in Nat
      /\ c.inconclusive \in Nat /\ c.failed \in Nat
  BY CountsAreNumbers
<1>2. /\ d.hits = c.hits + 1 /\ d.calls = c.calls /\ d.completed = c.completed + 1
      /\ d.inconclusive = c.inconclusive /\ d.failed = c.failed
  BY DEF Counts
<1>3. d = [hits |-> c.hits + 1, calls |-> c.calls, completed |-> c.completed + 1,
           inconclusive |-> c.inconclusive, failed |-> c.failed]
  BY DEF Counts
<1> QED
  BY <1>1, <1>2, <1>3 DEF Counts

LEMMA CountCall ==
  ASSUME NEW c \in Counts, NEW d, d = [c EXCEPT !.calls = @ + 1]
  PROVE  /\ d \in Counts
         /\ d.hits = c.hits /\ d.calls = c.calls + 1 /\ d.completed = c.completed
         /\ d.inconclusive = c.inconclusive /\ d.failed = c.failed
<1>1. /\ c.hits \in Nat /\ c.calls \in Nat /\ c.completed \in Nat
      /\ c.inconclusive \in Nat /\ c.failed \in Nat
  BY CountsAreNumbers
<1>2. /\ d.hits = c.hits /\ d.calls = c.calls + 1 /\ d.completed = c.completed
      /\ d.inconclusive = c.inconclusive /\ d.failed = c.failed
  BY DEF Counts
<1>3. d = [hits |-> c.hits, calls |-> c.calls + 1, completed |-> c.completed,
           inconclusive |-> c.inconclusive, failed |-> c.failed]
  BY DEF Counts
<1> QED
  BY <1>1, <1>2, <1>3 DEF Counts

LEMMA CountCompletion ==
  ASSUME NEW c \in Counts, NEW d, d = [c EXCEPT !.completed = @ + 1]
  PROVE  /\ d \in Counts
         /\ d.hits = c.hits /\ d.calls = c.calls /\ d.completed = c.completed + 1
         /\ d.inconclusive = c.inconclusive /\ d.failed = c.failed
<1>1. /\ c.hits \in Nat /\ c.calls \in Nat /\ c.completed \in Nat
      /\ c.inconclusive \in Nat /\ c.failed \in Nat
  BY CountsAreNumbers
<1>2. /\ d.hits = c.hits /\ d.calls = c.calls /\ d.completed = c.completed + 1
      /\ d.inconclusive = c.inconclusive /\ d.failed = c.failed
  BY DEF Counts
<1>3. d = [hits |-> c.hits, calls |-> c.calls, completed |-> c.completed + 1,
           inconclusive |-> c.inconclusive, failed |-> c.failed]
  BY DEF Counts
<1> QED
  BY <1>1, <1>2, <1>3 DEF Counts

LEMMA CountOpenTask ==
  ASSUME NEW c \in Counts, NEW d, d = [c EXCEPT !.inconclusive = @ + 1]
  PROVE  /\ d \in Counts
         /\ d.hits = c.hits /\ d.calls = c.calls /\ d.completed = c.completed
         /\ d.inconclusive = c.inconclusive + 1 /\ d.failed = c.failed
<1>1. /\ c.hits \in Nat /\ c.calls \in Nat /\ c.completed \in Nat
      /\ c.inconclusive \in Nat /\ c.failed \in Nat
  BY CountsAreNumbers
<1>2. /\ d.hits = c.hits /\ d.calls = c.calls /\ d.completed = c.completed
      /\ d.inconclusive = c.inconclusive + 1 /\ d.failed = c.failed
  BY DEF Counts
<1>3. d = [hits |-> c.hits, calls |-> c.calls, completed |-> c.completed,
           inconclusive |-> c.inconclusive + 1, failed |-> c.failed]
  BY DEF Counts
<1> QED
  BY <1>1, <1>2, <1>3 DEF Counts

LEMMA CountFailure ==
  ASSUME NEW c \in Counts, NEW d, d = [c EXCEPT !.failed = @ + 1]
  PROVE  /\ d \in Counts
         /\ d.hits = c.hits /\ d.calls = c.calls /\ d.completed = c.completed
         /\ d.inconclusive = c.inconclusive /\ d.failed = c.failed + 1
<1>1. /\ c.hits \in Nat /\ c.calls \in Nat /\ c.completed \in Nat
      /\ c.inconclusive \in Nat /\ c.failed \in Nat
  BY CountsAreNumbers
<1>2. /\ d.hits = c.hits /\ d.calls = c.calls /\ d.completed = c.completed
      /\ d.inconclusive = c.inconclusive /\ d.failed = c.failed + 1
  BY DEF Counts
<1>3. d = [hits |-> c.hits, calls |-> c.calls, completed |-> c.completed,
           inconclusive |-> c.inconclusive, failed |-> c.failed + 1]
  BY DEF Counts
<1> QED
  BY <1>1, <1>2, <1>3 DEF Counts

LEMMA LookupKeepsInv ==
  ASSUME IInv, NEW p \in Processes, Lookup(p)
  PROVE  IInv'
<1> USE DEF IInv
<1>1. pos[p] \in 1 .. Len(Tasks(p)) /\ Key(p) \in Keys /\ pc[p] = "next" /\ UNCHANGED disk
  BY NextHasKey DEF Lookup, ProcInv
<1>2. Tasks(p)' = Tasks(p) /\ Key(p)' = Key(p) /\ pos' = pos /\ run' = run
  BY DEF Lookup, Tasks, Key, disk, runDirs
<1>3. count[p] \in Counts /\ run[p] \in RunIds /\ manifests[run[p]] # None
      /\ Len(Tasks(p)) \in Nat /\ pos[p] \in Nat
  BY <1>1, HasTasks DEF TypeOK, ProcInv, PlaceInv, Ended
<1>a. /\ pos[p] \in Nat
      /\ count[p].hits \in Nat /\ count[p].calls \in Nat /\ count[p].completed \in Nat
      /\ count[p].inconclusive \in Nat /\ count[p].failed \in Nat
  BY <1>3, CountsAreNumbers
<1>b. /\ count[p].hits + count[p].calls = pos[p] - 1
      /\ count[p].completed + count[p].inconclusive + count[p].failed = pos[p] - 1
  <2>1. CountInv(p) /\ pc[p] = "next"
    BY <1>1 DEF ProcInv
  <2> QED
    BY <2>1, <1>a DEF CountInv, Ended, AtATask, Answered
<1>4. CASE ledger[Key(p)] # None /\ Final(Key(p), ledger[Key(p)])
  <2> DEFINE c == [count[p] EXCEPT !.hits = @ + 1, !.completed = @ + 1]
  <2>1. /\ pc' = [pc EXCEPT ![p] = "result"]
        /\ review' = [review EXCEPT ![p] = ledger[Key(p)]]
        /\ count' = [count EXCEPT ![p] = c]
    BY <1>4 DEF Lookup, Goto, SetCount
  <2>2. /\ pc'[p] = "result" /\ review'[p] = ledger[Key(p)] /\ OthersKeep(p)
        /\ count'[p] = c
    BY <2>1, <1>2 DEF TypeOK, OthersKeep, Keeps
  <2>3. /\ c \in Counts /\ ledger[Key(p)] \in Reviews
        /\ c.hits = count[p].hits + 1 /\ c.calls = count[p].calls
        /\ c.completed = count[p].completed + 1
        /\ c.inconclusive = count[p].inconclusive /\ c.failed = count[p].failed
    BY <1>1, <1>3, <1>4, CountHit DEF TypeOK
  <2>4. TypeOK'
    <3> HIDE DEF c
    <3> QED
      BY <2>1, <2>3, <1>1 DEF Lookup, TypeOK, PcLabels, disk, runDirs
  <2>5. PlaceInv(p)'
    BY <1>1, <1>2, <1>3, <2>2 DEF PlaceInv, Ended, AtATask, disk, runDirs
  <2>6. ReviewInv(p)'
    <3>1. ledger' = ledger /\ review'[p] # None /\ Key(p)' = Key(p)
      BY <1>1, <1>2, <1>4, <2>2 DEF disk
    <3> QED
      BY <1>4, <2>2, <3>1 DEF ReviewInv, Answered, Final, Conclusive, Reusable
  <2>7. CountInv(p)'
    <3>1. pc'[p] = "result" /\ pos'[p] = pos[p]
      BY <1>2, <2>2
    <3>2. /\ count'[p].hits + count'[p].calls = pos[p] - 1 + 1
          /\ count'[p].completed + count'[p].inconclusive + count'[p].failed =
               pos[p] - 1 + 1
      <4>1. /\ count'[p].hits = count[p].hits + 1 /\ count'[p].calls = count[p].calls
            /\ count'[p].completed = count[p].completed + 1
            /\ count'[p].inconclusive = count[p].inconclusive
            /\ count'[p].failed = count[p].failed
        <5> HIDE DEF c
        <5> QED
          BY <2>2, <2>3
      <4> QED
        BY <1>a, <1>b, <4>1
    <3> QED
      BY <3>1, <3>2 DEF CountInv, Ended, AtATask, Answered
  <2>8. DoneInv(p)'
    <3>1. AllResolved(count'[p]) => AllResolved(count[p])
      <4> HIDE DEF c
      <4> QED
        BY <2>2, <2>3 DEF AllResolved
    <3>2. Grows /\ pc[p] \notin Ended /\ run'[p] = run[p] /\ pos'[p] = pos[p]
      BY <1>1, <1>2 DEF Grows, disk, runDirs, Ended
    <3> QED
      BY <3>1, <3>2, StillDone DEF ProcInv
  <2> QED
    BY <1>1, <2>2, <2>4, <2>5, <2>6, <2>7, <2>8, NothingWritten DEF ProcInv
<1>5. CASE ~(ledger[Key(p)] # None /\ Final(Key(p), ledger[Key(p)]))
  <2> DEFINE c == [count[p] EXCEPT !.calls = @ + 1]
  <2>1. /\ pc' = [pc EXCEPT ![p] = "calling"]
        /\ count' = [count EXCEPT ![p] = c]
        /\ UNCHANGED review
    BY <1>5 DEF Lookup, Goto, SetCount
  <2>2. /\ pc'[p] = "calling" /\ OthersKeep(p) /\ count'[p] = c
    BY <2>1, <1>2 DEF TypeOK, OthersKeep, Keeps
  <2>3. /\ c \in Counts
        /\ c.hits = count[p].hits /\ c.calls = count[p].calls + 1
        /\ c.completed = count[p].completed
        /\ c.inconclusive = count[p].inconclusive /\ c.failed = count[p].failed
    BY <1>3, CountCall
  <2>4. TypeOK'
    <3> HIDE DEF c
    <3> QED
      BY <2>1, <2>3, <1>1 DEF Lookup, TypeOK, PcLabels, disk, runDirs
  <2>5. PlaceInv(p)'
    BY <1>1, <1>2, <1>3, <2>2 DEF PlaceInv, Ended, AtATask, disk, runDirs
  <2>6. ReviewInv(p)'
    BY <1>1, <2>1, <2>2 DEF ProcInv, ReviewInv, Answered
  <2>7. CountInv(p)'
    <3>1. pc'[p] = "calling" /\ pos'[p] = pos[p]
      BY <1>2, <2>2
    <3>2. /\ count'[p].hits + count'[p].calls = pos[p] - 1 + 1
          /\ count'[p].completed + count'[p].inconclusive + count'[p].failed =
               pos[p] - 1 + 0
      <4>1. /\ count'[p].hits = count[p].hits /\ count'[p].calls = count[p].calls + 1
            /\ count'[p].completed = count[p].completed
            /\ count'[p].inconclusive = count[p].inconclusive
            /\ count'[p].failed = count[p].failed
        <5> HIDE DEF c
        <5> QED
          BY <2>2, <2>3
      <4> QED
        BY <1>a, <1>b, <4>1
    <3> QED
      BY <3>1, <3>2 DEF CountInv, Ended, AtATask, Answered
  <2>8. DoneInv(p)'
    <3>1. AllResolved(count'[p]) => AllResolved(count[p])
      <4> HIDE DEF c
      <4> QED
        BY <2>2, <2>3 DEF AllResolved
    <3>2. Grows /\ pc[p] \notin Ended /\ run'[p] = run[p] /\ pos'[p] = pos[p]
      BY <1>1, <1>2 DEF Grows, disk, runDirs, Ended
    <3> QED
      BY <3>1, <3>2, StillDone DEF ProcInv
  <2> QED
    BY <1>1, <2>2, <2>4, <2>5, <2>6, <2>7, <2>8, NothingWritten DEF ProcInv
<1> QED
  BY <1>4, <1>5

(* The numbers of a process at a task.                                     *)
LEMMA Numbers ==
  ASSUME TypeOK, NEW p \in Processes, pc[p] \in AtATask, CountInv(p)
  PROVE  /\ pos[p] \in Nat /\ count[p] \in Counts
         /\ count[p].hits \in Nat /\ count[p].calls \in Nat /\ count[p].completed \in Nat
         /\ count[p].inconclusive \in Nat /\ count[p].failed \in Nat
         /\ count[p].hits + count[p].calls = pos[p]
         /\ count[p].completed + count[p].inconclusive + count[p].failed =
              IF pc[p] \in Answered THEN pos[p] ELSE pos[p] - 1
<1>1. pos[p] \in Nat /\ count[p] \in Counts
  BY DEF TypeOK
<1>2. /\ count[p].hits \in Nat /\ count[p].calls \in Nat /\ count[p].completed \in Nat
      /\ count[p].inconclusive \in Nat /\ count[p].failed \in Nat
  BY <1>1, CountsAreNumbers
<1>3. /\ count[p].hits + count[p].calls = pos[p] - 1 + 1
      /\ count[p].completed + count[p].inconclusive + count[p].failed =
           pos[p] - 1 + (IF pc[p] \in Answered THEN 1 ELSE 0)
  BY DEF CountInv, AtATask, Ended
<1> QED
  BY <1>1, <1>2, <1>3

(* A step that only answers: the review at hand and one counter change.    *)
LEMMA AnsweredKeepsInv ==
  ASSUME IInv, NEW p \in Processes, NEW label \in Answered, UNCHANGED <<disk, run, pos>>,
         pc[p] = "calling", pc' = [pc EXCEPT ![p] = label], TypeOK', ReviewInv(p)',
         OthersKeep(p),
         count'[p].hits = count[p].hits, count'[p].calls = count[p].calls,
         count'[p].completed \in Nat, count'[p].inconclusive \in Nat, count'[p].failed \in Nat,
         count'[p].completed + count'[p].inconclusive + count'[p].failed =
           count[p].completed + count[p].inconclusive + count[p].failed + 1,
         AllResolved(count'[p]) => AllResolved(count[p]),
         label = "attempt" => ~AllResolved(count'[p]),
         label # "publish"
  PROVE  IInv'
<1> USE DEF IInv
<1>1. pc'[p] = label /\ pc'[p] \in AtATask /\ pc[p] \in AtATask /\ pc[p] \notin Answered
  BY DEF TypeOK, AtATask, Answered
<1>2. Tasks(p)' = Tasks(p) /\ pos'[p] = pos[p] /\ run'[p] = run[p]
  BY DEF Tasks, disk, runDirs
<1>3. PlaceInv(p)'
  <2>1. PlaceInv(p) /\ manifests' = manifests
    BY DEF ProcInv, disk, runDirs
  <2> QED
    BY <1>1, <1>2, <2>1 DEF PlaceInv, AtATask, Answered, Ended
<1>4. CountInv(p)'
  <2>1. /\ count'[p].hits + count'[p].calls = pos[p] - 1 + 1
        /\ count'[p].completed + count'[p].inconclusive + count'[p].failed = pos[p] - 1 + 1
    BY <1>1, Numbers DEF ProcInv
  <2> QED
    BY <1>1, <1>2, <2>1 DEF CountInv, Answered, AtATask
<1>5. DoneInv(p)'
  <2>1. Grows /\ pc[p] \notin Ended
    BY DEF Grows, disk, runDirs, Ended
  <2> QED
    BY <1>2, <2>1, StillDone DEF ProcInv
<1> QED
  BY <1>3, <1>4, <1>5, NothingWritten DEF ProcInv

LEMMA ReviewFailsKeepsInv ==
  ASSUME IInv, NEW p \in Processes, ReviewFails(p)
  PROVE  IInv'
<1> USE DEF IInv
<1>1. /\ pc[p] = "calling" /\ pc' = [pc EXCEPT ![p] = "attempt"]
      /\ UNCHANGED <<disk, run, pos, review, calls, executions>>
      /\ count' = [count EXCEPT ![p] = [count[p] EXCEPT !.failed = @ + 1]]
  BY DEF ReviewFails, Goto, SetCount
<1>2. /\ count'[p] = [count[p] EXCEPT !.failed = @ + 1]
      /\ pc'[p] = "attempt" /\ OthersKeep(p) /\ count[p] \in Counts
  BY <1>1 DEF TypeOK, OthersKeep, Keeps
<1>3. /\ count'[p] \in Counts
      /\ count'[p].hits = count[p].hits /\ count'[p].calls = count[p].calls
      /\ count'[p].completed = count[p].completed
      /\ count'[p].inconclusive = count[p].inconclusive
      /\ count'[p].failed = count[p].failed + 1
  BY <1>2, CountFailure
<1>4. /\ count[p].completed \in Nat /\ count[p].inconclusive \in Nat
      /\ count[p].failed \in Nat
  BY <1>2, CountsAreNumbers
<1>5. TypeOK'
  <2>1. count' = [count EXCEPT ![p] = count'[p]]
    BY <1>1, <1>2
  <2> QED
    BY <1>1, <1>3, <2>1 DEF TypeOK, PcLabels, disk, runDirs
<1>6. ReviewInv(p)'
  BY <1>1, <1>2 DEF ProcInv, ReviewInv, Answered
<1>7. /\ count'[p].completed + count'[p].inconclusive + count'[p].failed =
           count[p].completed + count[p].inconclusive + count[p].failed + 1
      /\ ~AllResolved(count'[p])
      /\ count'[p].completed \in Nat /\ count'[p].inconclusive \in Nat
      /\ count'[p].failed \in Nat
  BY <1>3, <1>4 DEF AllResolved
<1>8. "attempt" \in Answered
  BY DEF Answered
<1> QED
  BY <1>1, <1>2, <1>3, <1>5, <1>6, <1>7, <1>8, AnsweredKeepsInv

LEMMA AnswersAreReviews ==
  ASSUME TypeOK, NEW k \in Keys, NEW v \in Answers(k)
  PROVE  v \in Reviews /\ v # None
<1>1. v \in Reviews
  BY DEF Answers, Reviews, Decisions, AllDecisions, TypeOK
<1> QED
  BY <1>1, BatchConstants

LEMMA ReviewedKeepsInv ==
  ASSUME IInv, NEW p \in Processes, Reviewed(p)
  PROVE  IInv'
<1> USE DEF IInv
<1>1. pc[p] = "calling" /\ Key(p) \in Keys
  BY HasKey DEF Reviewed, ProcInv, AtATask
<1>2. PICK v \in Answers(Key(p)) :
        /\ review' = [review EXCEPT ![p] = v]
        /\ Goto(p, AfterAnswer(Key(p), v))
        /\ SetCount(p, IF Conclusive(v)
                       THEN [count[p] EXCEPT !.completed = @ + 1]
                       ELSE [count[p] EXCEPT !.inconclusive = @ + 1])
  BY DEF Reviewed
<1> DEFINE label == AfterAnswer(Key(p), v)
<1>3. v \in Reviews /\ v # None
  BY <1>1, AnswersAreReviews
<1>4. /\ label \in {"record", "result", "attempt"}
      /\ label = "record" => Final(Key(p), v)
      /\ label = "result" => Conclusive(v) /\ ~Final(Key(p), v)
      /\ label = "attempt" <=> ~Conclusive(v)
  BY DEF AfterAnswer, Final
<1>5. /\ pc' = [pc EXCEPT ![p] = label] /\ review'[p] = v /\ OthersKeep(p)
      /\ UNCHANGED <<disk, run, pos, executions>> /\ calls' = calls + 1
      /\ count[p] \in Counts /\ pc'[p] = label
      /\ count'[p] = IF Conclusive(v)
                     THEN [count[p] EXCEPT !.completed = @ + 1]
                     ELSE [count[p] EXCEPT !.inconclusive = @ + 1]
      /\ count' = [count EXCEPT ![p] = count'[p]]
  BY <1>2 DEF Reviewed, Goto, SetCount, TypeOK, OthersKeep, Keeps
<1> HIDE DEF label
<1>6. /\ count[p].completed \in Nat /\ count[p].inconclusive \in Nat
      /\ count[p].failed \in Nat
  BY <1>5, CountsAreNumbers
<1>7. /\ count'[p] \in Counts
      /\ count'[p].hits = count[p].hits /\ count'[p].calls = count[p].calls
      /\ count'[p].completed \in Nat /\ count'[p].inconclusive \in Nat
      /\ count'[p].failed \in Nat
      /\ count'[p].completed + count'[p].inconclusive + count'[p].failed =
           count[p].completed + count[p].inconclusive + count[p].failed + 1
      /\ AllResolved(count'[p]) => AllResolved(count[p])
      /\ ~Conclusive(v) => ~AllResolved(count'[p])
  <2>1. CASE Conclusive(v)
    <3>1. count'[p] = [count[p] EXCEPT !.completed = @ + 1]
      BY <1>5, <2>1
    <3>2. /\ count'[p] \in Counts
          /\ count'[p].hits = count[p].hits /\ count'[p].calls = count[p].calls
          /\ count'[p].completed = count[p].completed + 1
          /\ count'[p].inconclusive = count[p].inconclusive
          /\ count'[p].failed = count[p].failed
      BY <1>5, <3>1, CountCompletion
    <3> QED
      BY <1>6, <2>1, <3>2 DEF AllResolved
  <2>2. CASE ~Conclusive(v)
    <3>1. count'[p] = [count[p] EXCEPT !.inconclusive = @ + 1]
      BY <1>5, <2>2
    <3>2. /\ count'[p] \in Counts
          /\ count'[p].hits = count[p].hits /\ count'[p].calls = count[p].calls
          /\ count'[p].completed = count[p].completed
          /\ count'[p].inconclusive = count[p].inconclusive + 1
          /\ count'[p].failed = count[p].failed
      BY <1>5, <3>1, CountOpenTask
    <3> QED
      BY <1>6, <2>2, <3>2 DEF AllResolved
  <2> QED
    BY <2>1, <2>2
<1>8. TypeOK'
  <2>1. review' \in [Processes -> Reviews \cup {None}] /\ calls' \in Nat
    BY <1>2, <1>3, <1>5 DEF TypeOK
  <2>2. pc' \in [Processes -> PcLabels] /\ count' \in [Processes -> Counts]
    BY <1>4, <1>5, <1>7 DEF TypeOK, PcLabels
  <2> QED
    BY <1>5, <2>1, <2>2 DEF TypeOK, disk, runDirs
<1>9. ReviewInv(p)'
  <2>1. Key(p)' = Key(p)
    BY <1>5 DEF Key, Tasks, disk, runDirs
  <2> QED
    BY <1>3, <1>4, <1>5, <2>1 DEF ReviewInv, Final, Reusable, Conclusive, Answered
<1> QED
  BY <1>1, <1>4, <1>5, <1>7, <1>8, <1>9, AnsweredKeepsInv DEF Answered

LEMMA RecordKeepsInv ==
  ASSUME IInv, NEW p \in Processes, Record(p)
  PROVE  IInv'
<1> USE DEF IInv
<1>1. pc[p] = "record" /\ Key(p) \in Keys /\ UNCHANGED <<runDirs, derived, calls, executions>>
  BY HasKey DEF Record, ProcInv, AtATask
<1>2. review[p] # None /\ Final(Key(p), review[p]) /\ review[p] \in Reviews
  BY <1>1 DEF ProcInv, ReviewInv, TypeOK, Answered
<1>3. CASE CanWrite(ledger[Key(p)], review[p])
  <2>1. /\ ledger' = [ledger EXCEPT ![Key(p)] = review[p]]
        /\ Continue(p, "result")
    BY <1>3 DEF Record
  <2>2. /\ pc'[p] = "result" /\ OthersKeep(p) /\ UNCHANGED <<run, pos, review, count>>
        /\ Tasks(p)' = Tasks(p) /\ Key(p)' = Key(p) /\ ledger'[Key(p)] = review[p]
    BY <1>1, <2>1 DEF Continue, Goto, TypeOK, OthersKeep, Keeps, Tasks, Key, runDirs
  <2>3. Grows
    BY <1>1, <1>3, <2>1 DEF Grows, CanWrite, TypeOK, runDirs
  <2>4. TypeOK'
    <3>1. ledger' \in [Keys -> Reviews \cup {None}] /\ pc' \in [Processes -> PcLabels]
      BY <1>1, <1>2, <2>1 DEF TypeOK, Continue, Goto, PcLabels
    <3>2. \A k \in Keys : ledger'[k] # None => Final(k, ledger'[k])
      BY <1>1, <1>2, <2>1 DEF TypeOK
    <3> QED
      BY <1>1, <2>2, <3>1, <3>2 DEF TypeOK, runDirs
  <2>5. PlaceInv(p)'
    <3>1. PlaceInv(p) /\ manifests' = manifests
      BY <1>1 DEF ProcInv, runDirs
    <3> QED
      BY <1>1, <2>2, <3>1 DEF PlaceInv, AtATask, Ended
  <2>6. ReviewInv(p)'
    BY <1>2, <2>2 DEF ReviewInv, Final, Reusable, Conclusive, Answered
  <2>7. CountInv(p)'
    BY <1>1, <2>2 DEF ProcInv, CountInv, AllResolved, AtATask, Answered, Ended
  <2>8. DoneInv(p)'
    BY <1>1, <2>2, <2>3, StillDone DEF ProcInv, Ended
  <2>9. Agreement' /\ SummaryMeansPublished'
    BY <1>1, <2>3, StillAgreed, SummaryStaysTrue DEF runDirs
  <2> QED
    BY <2>2, <2>3, <2>4, <2>5, <2>6, <2>7, <2>8, <2>9, Assembled DEF ProcInv
<1>4. CASE ~CanWrite(ledger[Key(p)], review[p])
  BY <1>1, <1>4, ExitKeepsInv DEF Record, Conflict, disk, Ended
<1> QED
  BY <1>3, <1>4

LEMMA WriteResultKeepsInv ==
  ASSUME IInv, NEW p \in Processes, WriteResult(p)
  PROVE  IInv'
<1> USE DEF IInv
<1>1. /\ pc[p] = "result" /\ Key(p) \in Keys /\ run[p] \in RunIds
      /\ UNCHANGED <<ledger, manifests, attempts, summaries, attemptSummaries, derived,
                     calls, executions>>
  BY HasKey DEF WriteResult, ProcInv, AtATask
<1>2. /\ review[p] # None /\ Conclusive(review[p]) /\ review[p] \in Reviews
      /\ Final(Key(p), review[p]) => ledger[Key(p)] = review[p]
  BY <1>1 DEF ProcInv, ReviewInv, TypeOK, Answered
<1>3. CASE CanWrite(results[run[p]][Key(p)], review[p])
  <2>1. /\ results' = [results EXCEPT ![run[p]] = [@ EXCEPT ![Key(p)] = review[p]]]
        /\ Continue(p, "publish")
    BY <1>3 DEF WriteResult
  <2>2. /\ pc'[p] = "publish" /\ OthersKeep(p) /\ UNCHANGED <<run, pos, review, count>>
        /\ Tasks(p)' = Tasks(p) /\ Key(p)' = Key(p)
        /\ pc' \in [Processes -> PcLabels]
    BY <1>1, <2>1 DEF Continue, Goto, TypeOK, OthersKeep, Keeps, Tasks, Key, PcLabels
  <2>3. /\ results' \in [RunIds -> [Keys -> Reviews \cup {None}]]
        /\ results'[run[p]][Key(p)] = review[p]
        /\ \A j \in RunIds, k \in Keys :
             (j = run[p] /\ k = Key(p)) \/ results'[j][k] = results[j][k]
    BY <1>1, <1>2, <2>1 DEF TypeOK
  <2>4. Grows
    BY <1>1, <1>3, <2>3 DEF Grows, CanWrite
  <2>5. TypeOK'
    <3>1. \A j \in RunIds, k \in Keys : results'[j][k] # None => Conclusive(results'[j][k])
      BY <1>2, <2>3 DEF TypeOK
    <3> QED
      BY <1>1, <2>2, <2>3, <3>1 DEF TypeOK
  <2>6. PlaceInv(p)'
    <3>1. PlaceInv(p)
      BY DEF ProcInv
    <3> QED
      BY <1>1, <2>2, <3>1 DEF PlaceInv, AtATask, Ended
  <2>7. ReviewInv(p)'
    BY <1>1, <1>2, <2>2, <2>3 DEF ReviewInv, Final, Reusable, Conclusive, Answered
  <2>8. CountInv(p)'
    BY <1>1, <1>2, <2>2 DEF ProcInv, CountInv, AllResolved, AtATask, Answered, Ended, Conclusive
  <2>9. DoneInv(p)'
    BY <1>1, <2>2, <2>4, StillDone DEF ProcInv, Ended
  <2>10. Agreement'
    <3>1. ASSUME NEW j \in RunIds, NEW k \in Keys,
                 results'[j][k] # None, Final(k, results'[j][k])
          PROVE  results'[j][k] = ledger[k]
      BY <1>2, <2>3, <3>1 DEF Agreement
    <3> QED
      BY <1>1, <3>1 DEF Agreement
  <2>11. SummaryMeansPublished'
    BY <1>1, <2>4, SummaryStaysTrue
  <2> QED
    BY <2>2, <2>4, <2>5, <2>6, <2>7, <2>8, <2>9, <2>10, <2>11, Assembled DEF ProcInv
<1>4. CASE ~CanWrite(results[run[p]][Key(p)], review[p])
  BY <1>1, <1>4, ExitKeepsInv DEF WriteResult, Conflict, disk, runDirs, Ended
<1> QED
  BY <1>3, <1>4

(* Going on to the next task.                                              *)
LEMMA NextTaskIsPlaced ==
  ASSUME TypeOK, NEW p \in Processes, PlaceInv(p), CountInv(p), pc[p] \in Answered,
         NextTask(p), manifests' = manifests
  PROVE  /\ PlaceInv(p)' /\ ReviewInv(p)' /\ CountInv(p)' /\ OthersKeep(p)
         /\ pc'[p] = "next" /\ pos'[p] = pos[p] + 1 /\ pos[p] \in Nat
         /\ run' = run /\ count' = count /\ Tasks(p)' = Tasks(p)
         /\ pc'     \in [Processes -> PcLabels]
         /\ pos'    \in [Processes -> Nat]
         /\ review' \in [Processes -> Reviews \cup {None}]
<1>1. pc[p] \in AtATask /\ pc[p] \notin Ended
  BY DEF Answered, AtATask, Ended
<1>2. /\ pos[p] \in 1 .. Len(Tasks(p)) /\ Len(Tasks(p)) \in Nat /\ run[p] \in RunIds
      /\ manifests[run[p]] # None
  BY <1>1, HasKey DEF PlaceInv
<1>3. /\ pc'[p] = "next" /\ pos'[p] = pos[p] + 1 /\ review'[p] = None /\ OthersKeep(p)
      /\ run' = run /\ count' = count /\ Tasks(p)' = Tasks(p)
  BY DEF NextTask, Goto, TypeOK, OthersKeep, Keeps, Tasks
<1>4. /\ pc'     \in [Processes -> PcLabels]
      /\ pos'    \in [Processes -> Nat]
      /\ review' \in [Processes -> Reviews \cup {None}]
  BY DEF NextTask, Goto, TypeOK, PcLabels
<1>5. PlaceInv(p)'
  BY <1>2, <1>3 DEF PlaceInv, AtATask, Ended
<1>6. ReviewInv(p)'
  BY <1>3 DEF ReviewInv, Answered
<1>7. CountInv(p)'
  <2>1. /\ count[p].hits + count[p].calls = pos[p]
        /\ count[p].completed + count[p].inconclusive + count[p].failed = pos[p]
        /\ pos[p] \in Nat
    BY <1>1, Numbers
  <2>a. pos[p] = pos[p] + 1 - 1 + 0
    BY <2>1
  <2>2. /\ count'[p].hits + count'[p].calls = pos'[p] - 1 + 0
        /\ count'[p].completed + count'[p].inconclusive + count'[p].failed = pos'[p] - 1 + 0
    BY <1>3, <2>1, <2>a
  <2> QED
    BY <1>3, <2>2 DEF CountInv, AtATask, Answered
<1> QED
  BY <1>2, <1>3, <1>4, <1>5, <1>6, <1>7

LEMMA WriteAttemptKeepsInv ==
  ASSUME IInv, NEW p \in Processes, WriteAttempt(p)
  PROVE  IInv'
<1> USE DEF IInv
<1>1. /\ pc[p] = "attempt" /\ Key(p) \in Keys /\ run[p] \in RunIds
      /\ attempts' = [attempts EXCEPT ![run[p]] = @ \cup {<<Key(p), review[p]>>}]
      /\ UNCHANGED <<ledger, manifests, results, summaries, attemptSummaries, derived,
                     calls, executions>>
  BY HasKey DEF WriteAttempt, ProcInv, AtATask
<1>2. Grows /\ Agreement' /\ SummaryMeansPublished'
  <2>1. Grows
    BY <1>1 DEF Grows
  <2> QED
    BY <1>1, <2>1, StillAgreed, SummaryStaysTrue
<1>3. attempts' \in [RunIds -> SUBSET (Keys \X (Reviews \cup {None}))]
  BY <1>1 DEF TypeOK
<1>4. ~AllResolved(count[p])
  BY <1>1 DEF ProcInv, CountInv
<1>5. CASE NextTask(p)
  <2>1. /\ PlaceInv(p)' /\ ReviewInv(p)' /\ CountInv(p)' /\ OthersKeep(p)
        /\ pc'[p] = "next" /\ run' = run /\ count' = count
        /\ pc'     \in [Processes -> PcLabels]
        /\ pos'    \in [Processes -> Nat]
        /\ review' \in [Processes -> Reviews \cup {None}]
    BY <1>1, <1>5, NextTaskIsPlaced DEF ProcInv, Answered
  <2>2. TypeOK'
    BY <1>1, <1>3, <2>1 DEF TypeOK
  <2>3. DoneInv(p)'
    BY <1>4, <2>1 DEF DoneInv, AllResolved
  <2> QED
    BY <1>2, <2>1, <2>2, <2>3, Assembled DEF ProcInv
<1>6. CASE review[p] # None /\ Continue(p, "publish")
  <2>1. /\ pc'[p] = "publish" /\ OthersKeep(p) /\ UNCHANGED <<run, pos, review, count>>
        /\ Tasks(p)' = Tasks(p) /\ Key(p)' = Key(p)
        /\ pc' \in [Processes -> PcLabels]
    BY <1>1, <1>6 DEF Continue, Goto, TypeOK, OthersKeep, Keeps, Tasks, Key, PcLabels
  <2>2. TypeOK'
    BY <1>1, <1>3, <2>1 DEF TypeOK
  <2>3. PlaceInv(p)'
    <3>1. PlaceInv(p)
      BY DEF ProcInv
    <3> QED
      BY <1>1, <2>1, <3>1 DEF PlaceInv, AtATask, Ended
  <2>4. ReviewInv(p)'
    <3>1. ~Conclusive(review[p])
      BY <1>1, <1>6 DEF ProcInv, ReviewInv
    <3> QED
      BY <1>6, <2>1, <3>1 DEF ReviewInv, Final, Conclusive, Answered
  <2>5. CountInv(p)'
    BY <1>1, <1>4, <2>1 DEF ProcInv, CountInv, AllResolved, AtATask, Answered, Ended
  <2>6. DoneInv(p)'
    BY <1>4, <2>1 DEF DoneInv, AllResolved
  <2> QED
    BY <1>2, <2>1, <2>2, <2>3, <2>4, <2>5, <2>6, Assembled DEF ProcInv
<1> QED
  BY <1>5, <1>6 DEF WriteAttempt

LEMMA PublishKeepsInv ==
  ASSUME IInv, NEW p \in Processes, Publish(p)
  PROVE  IInv'
<1> USE DEF IInv
<1>1. /\ pc[p] = "publish" /\ Key(p) \in Keys /\ run[p] \in RunIds
      /\ UNCHANGED <<ledger, runDirs, calls, executions>>
      /\ pos[p] \in 1 .. Len(Tasks(p)) /\ Len(Tasks(p)) \in Nat
  BY HasKey DEF Publish, ProcInv, AtATask
<1>2. /\ review[p] # None /\ review[p] \in Reviews
      /\ Final(Key(p), review[p]) => ledger[Key(p)] = review[p]
      /\ Conclusive(review[p]) => results[run[p]][Key(p)] = review[p]
      /\ ~Conclusive(review[p]) => ~AllResolved(count[p])
  BY <1>1 DEF ProcInv, ReviewInv, CountInv, TypeOK, Answered
<1>3. CASE CanPublish(Key(p), review[p])
  <2>1. derived' = [derived EXCEPT ![Key(p)] = @ \cup {review[p]}] /\ NextTask(p)
    BY <1>3 DEF Publish
  <2>2. /\ derived' \in [Keys -> SUBSET Reviews]
        /\ review[p] \in derived'[Key(p)]
        /\ \A k \in Keys : derived[k] \subseteq derived'[k]
        /\ \A k \in Keys : \A v \in derived'[k] : v \in derived[k] \/ (k = Key(p) /\ v = review[p])
    BY <1>1, <1>2, <2>1 DEF TypeOK
  <2>3. Grows
    BY <1>1, <2>2 DEF Grows, runDirs
  <2>4. /\ PlaceInv(p)' /\ ReviewInv(p)' /\ CountInv(p)' /\ OthersKeep(p)
        /\ pc'[p] = "next" /\ pos'[p] = pos[p] + 1 /\ pos[p] \in Nat
        /\ run' = run /\ count' = count /\ Tasks(p)' = Tasks(p)
        /\ pc'     \in [Processes -> PcLabels]
        /\ pos'    \in [Processes -> Nat]
        /\ review' \in [Processes -> Reviews \cup {None}]
    BY <1>1, <2>1, NextTaskIsPlaced DEF ProcInv, Answered, runDirs
  <2>5. TypeOK'
    BY <1>1, <2>2, <2>4 DEF TypeOK, runDirs
  <2>6. Agreement'
    <3>1. ASSUME NEW k \in Keys, NEW v \in derived'[k], Final(k, v)
          PROVE  v = ledger[k]
      BY <1>2, <2>2, <3>1 DEF Agreement
    <3> QED
      BY <1>1, <3>1 DEF Agreement, runDirs
  <2>7. SummaryMeansPublished'
    BY <1>1, <2>3, SummaryStaysTrue DEF runDirs
  <2>8. DoneInv(p)'
    <3> SUFFICES ASSUME AllResolved(count[p]), NEW i \in 1 .. pos[p]
                 PROVE  Done(run[p], Tasks(p)[i])'
      BY <2>4 DEF DoneInv, AllResolved, Done
    <3>1. CASE i = pos[p]
      <4>1. Tasks(p)[i] = Key(p) /\ results[run[p]][Key(p)] = review[p]
        BY <1>2, <3>1 DEF Key
      <4>2. Tasks(p)'[i] = Key(p) /\ run'[p] = run[p] /\ results' = results
        BY <1>1, <2>4, <4>1 DEF runDirs
      <4> QED
        BY <1>2, <2>2, <4>1, <4>2 DEF Done
    <3>2. CASE i # pos[p]
      <4>1. i \in 1 .. pos[p] - 1
        BY <2>4, <3>2
      <4>2. Done(run[p], Tasks(p)[i])
        BY <1>1, <4>1 DEF ProcInv, DoneInv, Ended
      <4>3. Tasks(p)[i] \in Keys
        BY <1>1, <4>1, <2>4, HasTasks DEF ProcInv, Ended
      <4>4. Tasks(p)'[i] = Tasks(p)[i] /\ run'[p] = run[p]
        BY <2>4
      <4> QED
        BY <1>1, <2>3, <4>2, <4>3, <4>4 DEF Done, Grows
    <3> QED
      BY <3>1, <3>2
  <2> QED
    BY <2>3, <2>4, <2>5, <2>6, <2>7, <2>8, Assembled DEF ProcInv
<1>4. CASE ~CanPublish(Key(p), review[p])
  BY <1>1, <1>4, ExitKeepsInv DEF Publish, Conflict, disk, Ended
<1> QED
  BY <1>3, <1>4

LEMMA FinishKeepsInv ==
  ASSUME IInv, NEW p \in Processes, Finish(p)
  PROVE  IInv'
<1> USE DEF IInv
<1>1. /\ pc[p] = "next" /\ pc[p] \notin Ended /\ pos[p] = Len(Tasks(p)) + 1
      /\ UNCHANGED <<ledger, manifests, results, attempts, derived, calls, executions>>
  BY DEF Finish, Ended
<1>2. /\ run[p] \in RunIds /\ Tasks(p) \in Seq(Keys) /\ Len(Tasks(p)) \in Nat
      /\ manifests[run[p]] # None
  BY <1>1, HasTasks DEF ProcInv, PlaceInv
<1>3. count[p] \in Counts /\ count[p] # None
  BY BatchConstants DEF TypeOK
<1>4. Grows /\ Agreement'
  <2>1. Grows
    BY <1>1 DEF Grows
  <2> QED
    BY <1>1, <2>1, StillAgreed
<1>5. CASE ~AllResolved(count[p])
  <2>1. /\ attemptSummaries' = [attemptSummaries EXCEPT ![run[p]] = @ \cup {count[p]}]
        /\ Exit(p, "idle") /\ UNCHANGED summaries
    BY <1>5 DEF Finish
  <2>2. ProcInv(p)' /\ OthersKeep(p)
    BY <2>1, ExitsInvariant DEF Ended
  <2>3. TypeOK'
    <3>1. attemptSummaries' \in [RunIds -> SUBSET Counts]
      BY <1>2, <1>3, <2>1 DEF TypeOK
    <3> QED
      BY <1>1, <2>1, <3>1, ExitsInvariant DEF TypeOK, Ended
  <2>4. SummaryMeansPublished'
    BY <1>4, <2>1, SummaryStaysTrue
  <2> QED
    BY <1>4, <2>2, <2>3, <2>4, Assembled
<1>6. CASE AllResolved(count[p]) /\ CanWrite(summaries[run[p]], count[p])
  <2>1. /\ summaries' = [summaries EXCEPT ![run[p]] = count[p]]
        /\ Exit(p, "idle") /\ UNCHANGED attemptSummaries
    BY <1>6 DEF Finish
  <2>2. ProcInv(p)' /\ OthersKeep(p)
    BY <2>1, ExitsInvariant DEF Ended
  <2>3. TypeOK'
    <3>1. summaries' \in [RunIds -> Counts \cup {None}]
      BY <1>2, <1>3, <2>1 DEF TypeOK
    <3> QED
      BY <1>1, <2>1, <3>1, ExitsInvariant DEF TypeOK, Ended
  <2>4. /\ \A i \in 1 .. Len(Tasks(p)) : Done(run[p], Tasks(p)[i])
        /\ count[p].completed = Len(Tasks(p))
        /\ count[p].hits + count[p].calls = Len(Tasks(p))
    <3>1. /\ count[p].hits + count[p].calls = pos[p] - 1 + 0
          /\ count[p].completed + count[p].inconclusive + count[p].failed = pos[p] - 1 + 0
      BY <1>1 DEF ProcInv, CountInv, AtATask, Answered
    <3>2. count[p].completed \in Nat /\ count[p].failed = 0 /\ count[p].inconclusive = 0
      BY <1>3, <1>6, CountsAreNumbers DEF AllResolved
    <3>3. pos[p] - 1 = Len(Tasks(p))
      BY <1>1, <1>2
    <3>4. \A i \in 1 .. pos[p] - 1 : Done(run[p], Tasks(p)[i])
      BY <1>1, <1>6 DEF ProcInv, DoneInv
    <3> QED
      BY <3>1, <3>2, <3>3, <3>4
  <2>5. ASSUME NEW j \in RunIds, summaries'[j] # None
        PROVE  /\ manifests[j] # None
               /\ \A i \in DOMAIN manifests[j] :
                    LET k == manifests[j][i] IN
                      results[j][k] # None /\ results[j][k] \in derived[k]
               /\ summaries'[j].completed = Len(manifests[j])
               /\ summaries'[j].hits + summaries'[j].calls = Len(manifests[j])
    <3>1. CASE j = run[p]
      <4>1. summaries'[j] = count[p] /\ manifests[j] = Tasks(p)
        BY <1>2, <2>1, <3>1 DEF TypeOK, Tasks
      <4>2. DOMAIN manifests[j] = 1 .. Len(Tasks(p))
        BY <1>2, <4>1
      <4> QED
        BY <1>2, <2>4, <3>1, <4>1, <4>2 DEF Done
    <3>2. CASE j # run[p]
      <4>1. summaries'[j] = summaries[j]
        BY <1>2, <2>1, <3>2 DEF TypeOK
      <4> QED
        BY <2>5, <4>1 DEF SummaryMeansPublished
    <3> QED
      BY <3>1, <3>2
  <2>6. SummaryMeansPublished'
    BY <1>1, <2>5 DEF SummaryMeansPublished
  <2> QED
    BY <1>4, <2>2, <2>3, <2>6, Assembled
<1>7. CASE AllResolved(count[p]) /\ ~CanWrite(summaries[run[p]], count[p])
  BY <1>1, <1>7, ExitKeepsInv DEF Finish, Conflict, disk, runDirs, Ended
<1> QED
  BY <1>5, <1>6, <1>7

-----------------------------------------------------------------------------
(* The theorems.                                                           *)

LEMMA InitInv ==
  ASSUME Init
  PROVE  IInv
<1>1. ZeroCount \in Counts
  BY DEF ZeroCount, Counts
<1>2. TypeOK
  BY <1>1 DEF Init, TypeOK, PcLabels
<1>3. ASSUME NEW p \in Processes PROVE ProcInv(p)
  BY <1>3 DEF Init, ProcInv, PlaceInv, ReviewInv, CountInv, DoneInv, Ended, AtATask, Answered
<1>4. Agreement /\ SummaryMeansPublished
  BY DEF Init, Agreement, SummaryMeansPublished
<1> QED
  BY <1>2, <1>3, <1>4 DEF IInv

LEMMA NextKeepsInv ==
  ASSUME IInv, [Next]_vars
  PROVE  IInv'
<1>1. CASE UNCHANGED vars
  BY <1>1
  DEF IInv, TypeOK, ProcInv, PlaceInv, ReviewInv, CountInv, DoneInv, Done, Tasks, Key,
      Agreement, SummaryMeansPublished, vars, disk, runDirs, process
<1>2. ASSUME NEW p \in Processes, Step(p) PROVE IInv'
  BY <1>2, BeginKeepsInv, ReadSummaryKeepsInv, LookupKeepsInv, ReviewedKeepsInv,
     ReviewFailsKeepsInv, RecordKeepsInv, WriteResultKeepsInv, WriteAttemptKeepsInv,
     PublishKeepsInv, FinishKeepsInv, ExitKeepsInv DEF Step, Crash, Ended
<1> QED
  BY <1>1, <1>2 DEF Next

(* The invariant holds in every reachable state.                           *)
THEOREM BatchInvariance == Spec => []IInv
<1>1. Init => IInv
  BY InitInv
<1>2. IInv /\ [Next]_vars => IInv'
  BY NextKeepsInv
<1> QED
  BY <1>1, <1>2, PTL DEF Spec

(* Types; the ledger holds only verdicts that may be reused and results    *)
(* only conclusive ones (runner.py _execute_reviews).                      *)
THEOREM BatchTypeCorrect == Spec => []TypeOK
<1>1. IInv => TypeOK
  BY DEF IInv
<1> QED
  BY <1>1, BatchInvariance, PTL

(* A summary exists only when every task of its batch has a published,     *)
(* conclusive result (runner.py _execute_reviews, write_summary).          *)
THEOREM SummariesAreTrue == Spec => []SummaryMeansPublished
<1>1. IInv => SummaryMeansPublished
  BY DEF IInv
<1> QED
  BY <1>1, BatchInvariance, PTL

-----------------------------------------------------------------------------
(* AuditBatch implements VerdictRegister.                                  *)

(* What is reported of a key, final or not, and what is reported as final: *)
(* the refinement mapping of ImplementsRegister.                           *)
Pool(k) == derived[k] \cup {results[j][k] : j \in RunIds}

Reported == [k \in Keys |-> {v \in Pool(k) : v # None /\ Final(k, v)}]

LEMMA SameReports ==
  ASSUME UNCHANGED <<results, derived>>
  PROVE  Reported' = Reported
  BY DEF Reported, Pool

(* One more review in the pool of one key.                                 *)
LEMMA OneMoreReport ==
  ASSUME NEW k \in Keys, NEW v, v # None, Final(k, v) => ledger[k] = v, UNCHANGED ledger,
         \A m \in Keys : \A w : w # None =>
           (w \in Pool(m)' <=> w \in Pool(m) \/ (m = k /\ w = v))
  PROVE  [Register!Next]_<<ledger, Reported>>
<1>1. CASE Final(k, v)
  <2>1. Reported' = [Reported EXCEPT ![k] = @ \cup {ledger[k]}]
    <3>1. ASSUME NEW m \in Keys
          PROVE  {w \in Pool(m)' : w # None /\ Final(m, w)} =
                   IF m = k THEN {w \in Pool(m) : w # None /\ Final(m, w)} \cup {v}
                            ELSE {w \in Pool(m) : w # None /\ Final(m, w)}
      BY <1>1
    <3> QED
      BY ZenonT(40), <1>1, <3>1 DEF Reported
  <2>2. Register!Report(k)
    BY <1>1, <2>1 DEF Register!Report, Reported, Pool
  <2> QED
    BY <2>2 DEF Register!Next
<1>2. CASE ~Final(k, v)
  <2>1. ASSUME NEW m \in Keys
        PROVE  {w \in Pool(m)' : w # None /\ Final(m, w)} =
                 {w \in Pool(m) : w # None /\ Final(m, w)}
    BY <1>2
  <2> QED
    BY <2>1 DEF Reported
<1> QED
  BY <1>1, <1>2

LEMMA RecordImplements ==
  ASSUME IInv, NEW p \in Processes, Record(p)
  PROVE  [Register!Next]_<<ledger, Reported>>
<1>1. pc[p] = "record" /\ Key(p) \in Keys /\ UNCHANGED <<results, derived>>
  BY HasKey DEF IInv, Record, ProcInv, AtATask, runDirs
<1>2. review[p] \in Reviews
  BY <1>1 DEF IInv, ProcInv, ReviewInv, TypeOK, Answered
<1>3. Reported' = Reported
  BY <1>1, SameReports
<1>4. CASE UNCHANGED ledger
  BY <1>3, <1>4
<1>5. CASE ledger[Key(p)] = None /\ ledger' = [ledger EXCEPT ![Key(p)] = review[p]]
  <2>1. ledger'[Key(p)] = review[p]
    BY <1>1, <1>5 DEF IInv, TypeOK
  <2>2. Register!Choose(Key(p))
    BY <1>1, <1>2, <1>3, <1>5, <2>1 DEF Register!Choose, Reported, Pool
  <2> QED
    BY <1>1, <2>2 DEF Register!Next
<1>6. \/ UNCHANGED ledger
      \/ ledger[Key(p)] = None /\ ledger' = [ledger EXCEPT ![Key(p)] = review[p]]
  BY <1>1 DEF Record, CanWrite, IInv, TypeOK
<1> QED
  BY <1>4, <1>5, <1>6

LEMMA WriteResultImplements ==
  ASSUME IInv, NEW p \in Processes, WriteResult(p)
  PROVE  [Register!Next]_<<ledger, Reported>>
<1>1. pc[p] = "result" /\ Key(p) \in Keys /\ run[p] \in RunIds /\ UNCHANGED <<ledger, derived>>
  BY HasKey DEF IInv, WriteResult, ProcInv, AtATask
<1>2. review[p] # None /\ (Final(Key(p), review[p]) => ledger[Key(p)] = review[p])
  BY <1>1 DEF IInv, ProcInv, ReviewInv, Answered
<1>3. CASE UNCHANGED results
  BY <1>1, <1>3, SameReports
<1>4. CASE /\ results[run[p]][Key(p)] = None
           /\ results' = [results EXCEPT ![run[p]] = [@ EXCEPT ![Key(p)] = review[p]]]
  <2>1. /\ results'[run[p]][Key(p)] = review[p]
        /\ \A j \in RunIds, m \in Keys :
             (j = run[p] /\ m = Key(p)) \/ results'[j][m] = results[j][m]
    BY <1>1, <1>4 DEF IInv, TypeOK
  <2>2. ASSUME NEW m \in Keys, NEW w, w # None
        PROVE  w \in Pool(m)' <=> w \in Pool(m) \/ (m = Key(p) /\ w = review[p])
    BY <1>1, <1>4, <2>1, <2>2 DEF Pool
  <2> QED
    BY <1>1, <1>2, <2>2, OneMoreReport
<1>5. \/ UNCHANGED results
      \/ /\ results[run[p]][Key(p)] = None
         /\ results' = [results EXCEPT ![run[p]] = [@ EXCEPT ![Key(p)] = review[p]]]
  BY <1>1 DEF WriteResult, CanWrite, IInv, TypeOK
<1> QED
  BY <1>3, <1>4, <1>5

LEMMA PublishImplements ==
  ASSUME IInv, NEW p \in Processes, Publish(p)
  PROVE  [Register!Next]_<<ledger, Reported>>
<1>1. pc[p] = "publish" /\ Key(p) \in Keys /\ UNCHANGED <<ledger, results>>
  BY HasKey DEF IInv, Publish, ProcInv, AtATask, runDirs
<1>2. review[p] # None /\ (Final(Key(p), review[p]) => ledger[Key(p)] = review[p])
  BY <1>1 DEF IInv, ProcInv, ReviewInv, Answered
<1>3. CASE UNCHANGED derived
  BY <1>1, <1>3, SameReports
<1>4. CASE derived' = [derived EXCEPT ![Key(p)] = @ \cup {review[p]}]
  <2>1. ASSUME NEW m \in Keys, NEW w, w # None
        PROVE  w \in Pool(m)' <=> w \in Pool(m) \/ (m = Key(p) /\ w = review[p])
    <3>1. derived'[m] = IF m = Key(p) THEN derived[m] \cup {review[p]} ELSE derived[m]
      BY <1>1, <1>4 DEF IInv, TypeOK
    <3> QED
      BY <1>1, <3>1 DEF Pool
  <2> QED
    BY <1>1, <1>2, <2>1, OneMoreReport
<1> QED
  BY <1>3, <1>4 DEF Publish

LEMMA StepImplements ==
  ASSUME IInv, [Next]_vars
  PROVE  [Register!Next]_<<ledger, Reported>>
<1>1. CASE UNCHANGED <<ledger, results, derived>>
  BY <1>1, SameReports
<1>2. ASSUME NEW p \in Processes, Step(p)
      PROVE  \/ Record(p) \/ WriteResult(p) \/ Publish(p)
             \/ UNCHANGED <<ledger, results, derived>>
  BY <1>2 DEF Step, Begin, ReadSummary, Lookup, Reviewed, ReviewFails, WriteAttempt, Finish,
              Crash, disk, runDirs
<1>3. CASE UNCHANGED vars
  BY <1>1, <1>3 DEF vars, disk, runDirs
<1> QED
  BY <1>1, <1>2, <1>3, RecordImplements, WriteResultImplements, PublishImplements DEF Next

(* All batches agree on the final verdict of a key, in the ledger, in the  *)
(* results and in the published reports (review_ledger.py, report_store.py)*)
THEOREM RegisterIsImplemented == Spec => ImplementsRegister
<1>1. Init => Register!Init
  <2>1. Init => Reported = [k \in Keys |-> {}]
    BY DEF Init, Reported, Pool
  <2> QED
    BY <2>1 DEF Init, Register!Init, Reported, Pool
<1>2. IInv /\ [Next]_vars => [Register!Next]_<<ledger, Reported>>
  BY StepImplements
<1>3. Reported = [k \in Keys |->
                   {v \in derived[k] \cup {results[j][k] : j \in RunIds} :
                      v # None /\ Final(k, v)}]
  BY DEF Reported, Pool
<1> QED
  BY <1>1, <1>2, <1>3, BatchInvariance, PTL
  DEF Spec, ImplementsRegister, Register!Spec, Reported, Pool

=============================================================================
