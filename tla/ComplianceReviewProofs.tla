------------------------ MODULE ComplianceReviewProofs ------------------------
(***************************************************************************)
(* The safety of ComplianceReview, for every submission, every limit and   *)
(* every number of prompts and attempts, and whatever the model answers.   *)
(***************************************************************************)
EXTENDS ComplianceReview, EvidenceProofs

-----------------------------------------------------------------------------
(* The inductive invariant.                                                *)

(* The source files before the next one have been read, each as a whole or *)
(* marked as cut, and all together within the limit.                       *)
BundleInv ==
  /\ entry \in 1..(Len(files) + 1)
  /\ pc \in {"prompt", "ask", "done"} => entry = Len(files) + 1
  /\ DOMAIN bundle \subseteq 1..(entry - 1)
  /\ pc # "failed" => DOMAIN bundle = {i \in 1..(entry - 1) : files[i].source}
  /\ \A i \in DOMAIN bundle :
       /\ bundle[i] \in [read : Nat, truncated : BOOLEAN]
       /\ bundle[i].truncated \/ bundle[i].read = files[i].text.len
  /\ BytesRead(bundle) <= EffectiveLimits(job.lab).total

TheTask == ReviewScope(job.lab4, files, bundle, job.removed)

ThePrompts ==
  IF chunked
    THEN ComplianceChunks(EvidenceItems(files, bundle, task), job.chars)
    ELSE <<DeltaPayload(task.delta, DeltaBudget(job.document, job.definition, job.chars))>>

(* Task and prompts are what was made of the bundle.                       *)
TaskInv ==
  /\ pc = "read" => task = NoTask
  /\ pc \in {"prompt", "ask", "done"} => task = TheTask
  /\ task \in {NoTask, TheTask}
  /\ pc \in {"read", "prompt"} => prompts = <<>>
  /\ pc \in {"ask", "done"} => prompts = ThePrompts

(* Every prompt that is over took MaxAttempts calls at most.               *)
CallsInv ==
  /\ attempt \in 0..(MaxAttempts - 1)
  /\ sent \in Nat /\ Len(outcomes) \in Nat /\ Len(prompts) \in Nat
  /\ Len(outcomes) <= Len(prompts)
  /\ sent <= MaxAttempts * Len(prompts)
  /\ pc # "failed" => sent <= MaxAttempts * Len(outcomes) + attempt
  /\ pc \in {"read", "prompt"} => outcomes = <<>> /\ attempt = 0

Conclusions == {"compliant", "violation", "inconclusive"}

IsOutcome(o) ==
  /\ o = Failed \/ o.decision \in Conclusions
  /\ o.violations \in Seq(Range(o.violations))

(* An answer counts only if it owns up to evidence that is not complete.   *)
OutcomesInv ==
  /\ outcomes \in Seq(Range(outcomes))
  /\ \A c \in DOMAIN outcomes :
       /\ IsOutcome(outcomes[c])
       /\ EvidenceIncomplete => outcomes[c] = Failed \/ outcomes[c].decision = "inconclusive"
       /\ ~chunked /\ pc # "failed" => outcomes[c] # Failed

TheResult ==
  IF chunked
    THEN MergeVerdicts(AtPositions(outcomes, {c \in DOMAIN outcomes : outcomes[c] # Failed}),
                       Len(prompts))
    ELSE outcomes[1]

ResultInv ==
  /\ pc # "done" => result = NoResult
  /\ pc = "done" => result = TheResult /\ Len(outcomes) = Len(prompts)

Inv ==
  /\ job \in Submissions
  /\ pc \in {"read", "prompt", "ask", "done", "failed"}
  /\ BundleInv /\ TaskInv /\ CallsInv /\ OutcomesInv /\ ResultInv

-----------------------------------------------------------------------------
(* What the constants are.                                                 *)

(* The files of a submission ...                                           *)
LEMMA FilesAre ==
  ASSUME job \in Submissions
  PROVE  /\ Len(files) \in Nat /\ DOMAIN files = 1..Len(files)
         /\ \A i \in DOMAIN files :
              /\ IsFile(files[i]) /\ files[i].text.len \in Nat /\ files[i].source \in BOOLEAN
              /\ files[i].includes \subseteq 1..Len(files)
<1>1. JobOK(job)
  BY ReviewConstants
<1>2. files \in Seq(Range(files))
  BY <1>1 DEF JobOK, files
<1>3. Len(files) \in Nat /\ DOMAIN files = 1..Len(files)
  BY <1>2
<1>4. ASSUME NEW i \in DOMAIN files
      PROVE  /\ IsFile(files[i]) /\ files[i].text.len \in Nat /\ files[i].source \in BOOLEAN
             /\ files[i].includes \subseteq 1..Len(files)
  <2>1. PICK f : f = files[i] /\ FileOK(f, Len(files))
    BY <1>1, <1>4 DEF JobOK, files
  <2>2. f.text.len \in Nat /\ f.text.lines \subseteq Nat
    BY <2>1 DEF FileOK, TextOK
  <2>3. \A b \in DOMAIN f.hunks : f.hunks[b] \in Seq(Text)
    BY <2>1 DEF FileOK, Hunks, Text
  <2>4. IsFile(f)
    BY <2>1, <2>2, <2>3 DEF FileOK, IsFile, Kinds
  <2>5. f.source \in BOOLEAN /\ f.includes \subseteq 1..Len(files)
    BY <2>1 DEF FileOK
  <2>6. QED
    BY <2>1, <2>2, <2>4, <2>5
<1>5. QED
  BY <1>3, <1>4

(* ... and the rest of it.                                                 *)
LEMMA RestOfJob ==
  ASSUME job \in Submissions
  PROVE  /\ job.removed \in Seq(Seq(Text)) /\ job.lab4 \in BOOLEAN
         /\ job.chars \in Nat /\ job.document \in Nat /\ job.definition \in Nat
         /\ EffectiveLimits(job.lab).file \in Nat \ {0}
         /\ EffectiveLimits(job.lab).total \in Nat \ {0}
<1>1. JobOK(job)
  BY ReviewConstants
<1>2. job.removed \in Seq(Seq(Text))
  <2>1. \A k \in DOMAIN job.removed : job.removed[k] \in Seq(Text)
    BY <1>1 DEF JobOK, Hunks, Text
  <2>2. job.removed \in Seq(Range(job.removed))
    BY <1>1 DEF JobOK
  <2>3. PICK r : r = job.removed
    OBVIOUS
  <2>4. r = [k \in 1..Len(r) |-> r[k]] /\ Len(r) \in Nat /\ DOMAIN r = 1..Len(r)
    BY <2>2, <2>3
  <2>5. QED
    BY <2>1, <2>3, <2>4
<1>3. {PolicyFileBytes, PolicyTotalBytes} \subseteq Nat \ {0}
  BY SourceConstants
<1>4. job.lab.file \in Nat /\ job.lab.total \in Nat
  BY <1>1 DEF JobOK
<1>5. /\ EffectiveLimits(job.lab).file \in Nat \ {0}
      /\ EffectiveLimits(job.lab).total \in Nat \ {0}
  BY <1>3, <1>4, MaxOfTwo DEF EffectiveLimits
<1>6. QED
  BY <1>1, <1>2, <1>5 DEF JobOK

(* A valid verdict is one of the three, and says so if it could not see    *)
(* everything.                                                             *)
IsVerdict(v) == v.decision \in Conclusions /\ v.violations \in Seq(Range(v.violations))

(* The answer that counts is a valid verdict.                              *)
LEMMA FirstValid ==
  ASSUME NEW reply \in Replies, NEW incomplete \in BOOLEAN,
         ValidVerdicts(reply, incomplete) # {}
  PROVE  LET v == Objects(reply)[Min(ValidVerdicts(reply, incomplete))]
         IN  IsVerdict(v) /\ (incomplete => v.decision = "inconclusive")
<1>1. ReplyOK(reply)
  BY ReviewConstants
<1>2. PICK a : a = reply.content
  OBVIOUS
<1>3. PICK b : b = reply.reasoning
  OBVIOUS
<1>4. /\ a \in Seq(Range(a)) /\ \A i \in DOMAIN a : VerdictOK(a[i])
      /\ b \in Seq(Range(b)) /\ \A i \in DOMAIN b : VerdictOK(b[i])
  BY <1>1, <1>2, <1>3 DEF ReplyOK
<1>5. PICK s : s = a \o b
  OBVIOUS
<1>6. Objects(reply) = s
  BY <1>2, <1>3, <1>5 DEF Objects
<1>7. DOMAIN s = 1..(Len(a) + Len(b)) /\ Len(a) \in Nat /\ Len(b) \in Nat
  BY <1>4, <1>5
<1>8. \A i \in DOMAIN s : VerdictOK(s[i])
  <2>1. ASSUME NEW i \in DOMAIN s PROVE VerdictOK(s[i])
    <3>1. i \in 1..(Len(a) + Len(b))
      BY <1>7
    <3>2. CASE i <= Len(a)
      <4>1. s[i] = a[i] /\ i \in DOMAIN a
        BY <1>4, <1>5, <1>7, <3>1, <3>2
      <4>2. QED
        BY <1>4, <4>1
    <3>3. CASE i > Len(a)
      <4>1. s[i] = b[i - Len(a)] /\ i - Len(a) \in DOMAIN b
        BY <1>4, <1>5, <1>7, <3>1, <3>3
      <4>2. QED
        BY <1>4, <4>1
    <3>4. QED
      BY <1>7, <3>1, <3>2, <3>3
  <2>2. QED
    BY <2>1
<1>9. PICK S : S = ValidVerdicts(reply, incomplete)
  OBVIOUS
<1>10. S \subseteq DOMAIN s /\ \A i \in S : ValidVerdict(s[i], incomplete)
  BY <1>6, <1>9 DEF ValidVerdicts
<1>11. S \subseteq Int /\ S # {} /\ \A x \in S : 1 <= x
  BY <1>7, <1>9, <1>10
<1>12. Min(S) \in S
  <2>1. 1 \in Int
    OBVIOUS
  <2>2. QED
    BY <1>11, <2>1, MinIs, Zenon
<1>13. PICK v : v = s[Min(S)]
  OBVIOUS
<1>14. VerdictOK(v) /\ ValidVerdict(v, incomplete)
  BY <1>8, <1>10, <1>12, <1>13
<1>15. IsVerdict(v) /\ (incomplete => v.decision = "inconclusive")
  BY <1>14 DEF VerdictOK, ValidVerdict, IsVerdict, Conclusions
<1>16. QED
  BY <1>6, <1>9, <1>13, <1>15

-----------------------------------------------------------------------------
(* What is made of the bundle.                                             *)

(* What was read is finitely much.                                         *)
LEMMA BundleIs ==
  ASSUME job \in Submissions, BundleInv
  PROVE  /\ DOMAIN bundle \subseteq 1..Len(files) /\ IsFiniteSet(DOMAIN bundle)
         /\ BytesRead(bundle) \in Nat
<1>1. entry \in 1..(Len(files) + 1) /\ Len(files) \in Nat
  BY FilesAre DEF BundleInv
<1>2. DOMAIN bundle \subseteq 1..Len(files)
  BY <1>1 DEF BundleInv
<1>3. IsFiniteSet(DOMAIN bundle)
  <2>1. IsFiniteSet(1..Len(files))
    BY <1>1, FS_Interval
  <2>2. QED
    BY <1>2, <2>1, FS_Subset
<1>4. BytesRead(bundle) \in Nat
  <2>1. PICK f : f = [i \in DOMAIN bundle |-> bundle[i].read]
    OBVIOUS
  <2>2. BytesRead(bundle) = SumFunctionOnSet(f, DOMAIN f) /\ DOMAIN f = DOMAIN bundle
    BY <2>1 DEF BytesRead, SumFunction
  <2>3. \A i \in DOMAIN f : f[i] \in Nat
    BY <2>1 DEF BundleInv
  <2>4. SumFunctionOnSet(f, DOMAIN f) \in Nat
    BY <1>3, <2>2, <2>3, SumIsNat
  <2>5. QED
    BY <2>2, <2>4
<1>5. QED
  BY <1>2, <1>3, <1>4

(* The task is chosen from what was read.                                  *)
LEMMA TaskIs ==
  ASSUME job \in Submissions, BundleInv
  PROVE  /\ IsTask(TheTask, job.lab4, files, bundle, job.removed)
         /\ TheTask.scope \subseteq DOMAIN bundle
<1>1. IsTask(TheTask, job.lab4, files, bundle, job.removed)
  <2>1. /\ job.lab4 \in BOOLEAN /\ job.removed \in Seq(Seq(Text)) /\ Len(files) \in Nat
        /\ DOMAIN bundle \subseteq 1..Len(files)
        /\ \A i \in 1..Len(files) : IsFile(files[i])
    BY FilesAre, RestOfJob, BundleIs
  <2>2. QED
    BY <2>1, ReviewScopeIs DEF TheTask
<1>2. ExecutionScope(files, bundle) \subseteq DOMAIN bundle
  BY BundleIs, ExecutionScopeIs
<1>3. QED
  BY <1>1, <1>2 DEF IsTask

(* Its evidence ...                                                        *)
LEMMA ItemsAre ==
  ASSUME job \in Submissions, BundleInv, task = TheTask
  PROVE  /\ EvidenceItems(files, bundle, task) \in Seq(Evidence)
         /\ Itemizes(EvidenceItems(files, bundle, task), task.delta.files)
<1>1. IsTask(task, job.lab4, files, bundle, job.removed) /\ task.scope \subseteq DOMAIN bundle
  BY TaskIs
<1>2. /\ task.delta.files \in Seq(DeltaFile)
      /\ \A a, b \in DOMAIN task.delta.files :
           task.delta.files[a].path = task.delta.files[b].path => a = b
  BY <1>1 DEF IsTask, IsDelta
<1>3. Len(files) \in Nat /\ task.scope \subseteq 1..Len(files)
  BY <1>1, FilesAre, BundleIs
<1>4. \A i \in task.scope : files[i].text.lines \subseteq Nat /\ bundle[i].read \in Nat
  BY <1>1, <1>3, FilesAre DEF BundleInv, IsFile
<1>5. QED
  BY <1>2, <1>3, <1>4, EvidenceItemsAre

(* ... and its prompts.                                                    *)
LEMMA PromptsAre ==
  ASSUME job \in Submissions, BundleInv, task = TheTask
  PROVE  /\ Len(ThePrompts) \in Nat
         /\ ~chunked => Len(ThePrompts) = 1
         /\ chunked => ThePrompts \in Seq(Seq(Part)) /\ ChunksSize(ThePrompts, job.chars)
<1>1. CASE chunked
  <2>1. job.chars \in Nat
    BY RestOfJob
  <2>2. ThePrompts = ComplianceChunks(EvidenceItems(files, bundle, task), job.chars)
    BY <1>1 DEF ThePrompts
  <2>3. ThePrompts \in Seq(Seq(Part)) /\ ChunksSize(ThePrompts, job.chars)
    BY <2>1, <2>2, ItemsAre, ChunksAre
  <2>4. QED
    BY <1>1, <2>3
<1>2. CASE ~chunked
  BY <1>2 DEF ThePrompts
<1>3. QED
  BY <1>1, <1>2

-----------------------------------------------------------------------------
(* The invariant holds initially and is kept by every step.                *)

(* The invariant holds initially.                                          *)
LEMMA InitInv == ASSUME Init PROVE Inv
<1>1. DOMAIN bundle = {} /\ entry = 1 /\ 1..(entry - 1) = {}
  BY DEF Init
<1>2. BytesRead(bundle) = 0
  <2>1. PICK f : f = [i \in DOMAIN bundle |-> bundle[i].read]
    OBVIOUS
  <2>2. BytesRead(bundle) = SumFunctionOnSet(f, DOMAIN f) /\ DOMAIN f = {}
    BY <1>1, <2>1 DEF BytesRead, SumFunction
  <2>3. QED
    BY <2>2, SumOfNone
<1>3. job \in Submissions
  BY DEF Init
<1>4. BundleInv
  <2>1. EffectiveLimits(job.lab).total \in Nat /\ Len(files) \in Nat
    BY <1>3, RestOfJob, FilesAre
  <2>2. 1 \in 1..(Len(files) + 1)
    BY <2>1
  <2>3. pc = "read"
    BY DEF Init
  <2>4. QED
    BY <1>1, <1>2, <2>1, <2>2, <2>3 DEF BundleInv
<1>5. TaskInv
  BY DEF Init, TaskInv
<1>6. CallsInv
  <2>1. MaxAttempts \in Nat \ {0}
    BY ReviewConstants
  <2>2. Len(outcomes) = 0 /\ Len(prompts) = 0 /\ sent = 0 /\ attempt = 0 /\ outcomes = <<>>
    BY DEF Init
  <2>3. QED
    BY <2>1, <2>2 DEF CallsInv
<1>7. OutcomesInv
  <2>1. outcomes = <<>> /\ DOMAIN outcomes = {}
    BY DEF Init
  <2>2. QED
    BY <2>1 DEF OutcomesInv
<1>8. ResultInv
  BY DEF Init, ResultInv
<1>9. QED
  BY <1>3, <1>4, <1>5, <1>6, <1>7, <1>8 DEF Init, Inv

(* What is read of a file fits what is left of the limit.                  *)
Whole(r, size) == r.truncated \/ r.read = size

(* A file is read within the limits, as a whole or marked as cut.          *)
LEMMA ReadFileIs ==
  ASSUME NEW size \in Nat, NEW limits, limits.file \in Nat \ {0}, limits.total \in Nat \ {0},
         NEW spent \in Nat, spent <= limits.total, NEW r, r = ReadFile(size, limits, spent)
  PROVE  /\ r \in [read : Nat, truncated : BOOLEAN]
         /\ spent + r.read <= limits.total
         /\ Whole(r, size)
<1>1. PICK left \in Nat : left = limits.total - spent
  OBVIOUS
<1>2. CASE left = 0
  BY <1>1, <1>2 DEF ReadFile, Whole
<1>3. CASE left > 0
  <2>1. PICK limit : limit = ReadLimit(limits, spent)
    OBVIOUS
  <2>2. limit \in Nat /\ limit <= left
    BY <1>1, <2>1, MinOfTwo DEF ReadLimit
  <2>3. PICK read : read = Min({size, limit})
    OBVIOUS
  <2>4. read \in Nat /\ read <= limit /\ (size > limit \/ read = size)
    BY <2>2, <2>3, MinOfTwo
  <2>5. r = [read |-> read, truncated |-> size > limit]
    BY <1>1, <1>3, <2>1, <2>3 DEF ReadFile
  <2>6. r.read = read /\ r.truncated = (size > limit) /\ (size > limit) \in BOOLEAN
    <3>1. (size > limit) \in BOOLEAN
      BY <2>2
    <3>2. PICK t : t = (size > limit)
      BY Zenon
    <3>3. r = [read |-> read, truncated |-> t]
      BY <2>5, <3>2, Zenon
    <3>4. r.read = read /\ r.truncated = t
      BY <3>3
    <3>5. QED
      BY <3>1, <3>2, <3>4, Zenon
  <2>7. spent + read <= limits.total
    BY <1>1, <2>2, <2>4
  <2>8. r = [read |-> read, truncated |-> r.truncated]
    BY <2>5
  <2>9. r \in [read : Nat, truncated : BOOLEAN]
    <3>1. r.truncated \in BOOLEAN
      BY <2>6, Zenon
    <3>2. QED
      BY <2>4, <2>6, <2>8, <3>1
  <2>10. r.truncated \/ r.read = size
    <3>1. size > limit => r.truncated
      BY <2>6, Zenon
    <3>2. QED
      BY <2>4, <2>6, <3>1
  <2>11. QED
    BY <2>6, <2>7, <2>9, <2>10 DEF Whole
<1>4. QED
  BY <1>1, <1>2, <1>3

(* One more file adds what was read of it.                                 *)
LEMMA BytesReadMore ==
  ASSUME NEW a, IsFiniteSet(DOMAIN a), \A i \in DOMAIN a : a[i].read \in Nat,
         NEW n, n \notin DOMAIN a, NEW r, r.read \in Nat,
         NEW b, b = [i \in DOMAIN a \cup {n} |-> IF i = n THEN r ELSE a[i]]
  PROVE  BytesRead(b) = BytesRead(a) + r.read
<1>1. PICK f : f = [i \in DOMAIN a |-> a[i].read]
  OBVIOUS
<1>2. PICK g : g = [i \in DOMAIN b |-> b[i].read]
  OBVIOUS
<1>3. /\ BytesRead(a) = SumFunctionOnSet(f, DOMAIN f) /\ DOMAIN f = DOMAIN a
      /\ BytesRead(b) = SumFunctionOnSet(g, DOMAIN g) /\ DOMAIN g = DOMAIN a \cup {n}
  BY <1>1, <1>2 DEF BytesRead, SumFunction
<1>4. \A i \in DOMAIN a : f[i] \in Nat /\ g[i] = f[i]
  BY <1>1, <1>2
<1>5. g[n] = r.read
  BY <1>2
<1>6. SumFunctionOnSet(g, DOMAIN a \cup {n}) = SumFunctionOnSet(f, DOMAIN a) + g[n]
  BY <1>4, <1>5, SumExtend
<1>7. QED
  BY <1>3, <1>5, <1>6

(* Reading the next file keeps the invariant: the total stays within the   *)
(* limit.                                                                  *)
LEMMA ReadStep ==
  ASSUME Inv, SkipFile \/ LoadFile
  PROVE  Inv'
<1>1. /\ pc = "read" /\ entry \in 1..Len(files) /\ entry' = entry + 1 /\ Len(files) \in Nat
      /\ pc' \in {"read", "failed"} /\ task = NoTask /\ prompts = <<>> /\ outcomes = <<>>
      /\ job \in Submissions
  BY FilesAre DEF Inv, SkipFile, LoadFile, Pass, BundleInv, TaskInv, CallsInv
<1>2. UNCHANGED <<job, task, prompts, attempt, sent, outcomes, result>> /\ files' = files
  BY DEF SkipFile, LoadFile, Pass, files
<1>3. BundleInv'
  <2>1. BundleInv
    BY DEF Inv
  <2>2. 1..(entry' - 1) = 1..(entry - 1) \cup {entry} /\ entry' \in 1..(Len(files) + 1)
    BY <1>1
  <2>3. DOMAIN bundle = {i \in 1..(entry - 1) : files[i].source}
    BY <1>1, <2>1 DEF BundleInv
  <2>4. CASE SkipFile
    <3>1. bundle' = bundle /\ ~files[entry].source
      BY <2>4 DEF SkipFile
    <3>2. BytesRead(bundle)' = BytesRead(bundle) /\ EffectiveLimits(job.lab)' = EffectiveLimits(job.lab)
      BY <1>2, <3>1
    <3>3. (DOMAIN bundle)' = {i \in 1..(entry' - 1) : files[i].source}
      BY <2>2, <2>3, <3>1
    <3>4. QED
      BY <1>1, <1>2, <2>1, <2>2, <3>1, <3>2, <3>3 DEF BundleInv
  <2>5. CASE LoadFile /\ ~files[entry].there
    <3>1. bundle' = bundle /\ pc' = "failed"
      BY <2>5 DEF LoadFile, Pass
    <3>2. BytesRead(bundle)' = BytesRead(bundle) /\ EffectiveLimits(job.lab)' = EffectiveLimits(job.lab)
      BY <1>2, <3>1
    <3>3. QED
      BY <1>1, <1>2, <2>1, <2>2, <2>3, <3>1, <3>2 DEF BundleInv
  <2>6. CASE LoadFile /\ files[entry].there
    <3>1. PICK limits : limits = EffectiveLimits(job.lab)
      OBVIOUS
    <3>2. limits.file \in Nat \ {0} /\ limits.total \in Nat \ {0}
      BY <1>1, <3>1, RestOfJob
    <3>3. PICK spent \in Nat : spent = BytesRead(bundle)
      BY <1>1, <2>1, BundleIs
    <3>4. spent <= limits.total
      BY <2>1, <3>1, <3>3 DEF BundleInv
    <3>6. PICK size \in Nat : size = files[entry].text.len
      BY <1>1, FilesAre
    <3>5. PICK r : r = ReadFile(size, limits, spent)
      OBVIOUS
    <3>7. /\ r \in [read : Nat, truncated : BOOLEAN] /\ spent + r.read <= limits.total
          /\ Whole(r, size)
      <4>1. r \in [read : Nat, truncated : BOOLEAN]
        BY <3>2, <3>4, <3>5, <3>6, ReadFileIs
      <4>2. spent + r.read <= limits.total
        BY <3>2, <3>4, <3>5, <3>6, ReadFileIs
      <4>3. Whole(r, size)
        BY <3>2, <3>4, <3>5, <3>6, ReadFileIs
      <4>4. QED
        BY <4>1, <4>2, <4>3
    <3>8. bundle' = [i \in DOMAIN bundle \cup {entry} |-> IF i = entry THEN r ELSE bundle[i]]
      BY <2>6, <3>1, <3>3, <3>5, <3>6 DEF LoadFile
    <3>9. entry \notin DOMAIN bundle /\ files[entry].source
      BY <1>1, <2>3, <2>6 DEF LoadFile
    <3>10. BytesRead(bundle') = spent + r.read
      <4>1. IsFiniteSet(DOMAIN bundle) /\ \A i \in DOMAIN bundle : bundle[i].read \in Nat
        BY <1>1, <2>1, BundleIs DEF BundleInv
      <4>2. PICK b : b = bundle'
        OBVIOUS
      <4>3. r.read \in Nat
        BY <3>7
      <4>4. BytesRead(b) = BytesRead(bundle) + r.read
        <5>1. b = [i \in DOMAIN bundle \cup {entry} |-> IF i = entry THEN r ELSE bundle[i]]
          BY <3>8, <4>2
        <5>2. entry \notin DOMAIN bundle
          BY <3>9
        <5>3. QED
          BY <4>1, <4>3, <5>1, <5>2, BytesReadMore
      <4>5. QED
        BY <3>3, <4>2, <4>4
    <3>11. EffectiveLimits(job.lab)' = limits
      BY <1>2, <3>1
    <3>12. DOMAIN bundle' = {i \in 1..(entry' - 1) : files[i].source}
      BY <2>2, <2>3, <3>8, <3>9
    <3>13. \A i \in DOMAIN bundle' :
             /\ bundle'[i] \in [read : Nat, truncated : BOOLEAN]
             /\ bundle'[i].truncated \/ bundle'[i].read = files[i].text.len
      BY <2>1, <3>6, <3>7, <3>8 DEF BundleInv, Whole
    <3>14. BytesRead(bundle)' <= EffectiveLimits(job.lab).total'
      BY <3>7, <3>10, <3>11
    <3>15. QED
      BY <1>1, <1>2, <2>2, <3>12, <3>13, <3>14 DEF BundleInv
  <2>7. QED
    BY <2>4, <2>5, <2>6
<1>4. TaskInv'
  BY <1>1, <1>2 DEF Inv, TaskInv
<1>5. CallsInv'
  BY <1>1, <1>2 DEF Inv, CallsInv
<1>6. OutcomesInv'
  <2>1. outcomes' = <<>> /\ DOMAIN outcomes' = {}
    BY <1>1, <1>2
  <2>2. QED
    BY <2>1 DEF OutcomesInv
<1>7. ResultInv'
  BY <1>1, <1>2 DEF Inv, ResultInv
<1>8. QED
  BY <1>1, <1>2, <1>3, <1>4, <1>5, <1>6, <1>7 DEF Inv

(* Calls are counted in multiples of the attempts.                         *)
LEMMA Product ==
  ASSUME NEW m \in Nat \ {0}, NEW a \in Nat, NEW b \in Nat, a <= b
  PROVE  m * a \in Nat /\ m * a <= m * b /\ m * (a + 1) = m * a + m
<1>1. PICK d \in Nat : b = a + d
  <2>1. b - a \in Nat /\ b = a + (b - a)
    OBVIOUS
  <2>2. QED
    BY <2>1
<1>2. m * a \in Nat /\ m * d \in Nat
  OBVIOUS
<1>3. m * (a + d) = m * a + m * d /\ m * (a + 1) = m * a + m
  OBVIOUS
<1>4. QED
  BY <1>1, <1>2, <1>3

(* Building the task keeps the invariant, ...                              *)
LEMMA BuildTaskStep ==
  ASSUME Inv, BuildTask
  PROVE  Inv'
<1>1. /\ pc = "read" /\ pc' = "prompt" /\ entry > Len(files) /\ Len(files) \in Nat
      /\ job \in Submissions /\ prompts = <<>>
  BY FilesAre DEF Inv, BuildTask, TaskInv
<1>2. /\ UNCHANGED <<job, entry, bundle, prompts, attempt, sent, outcomes, result>>
      /\ files' = files /\ chunked' = chunked
  BY DEF BuildTask, files, chunked
<1>3. BundleInv'
  <2>1. BundleInv /\ entry = Len(files) + 1
    BY <1>1 DEF Inv, BundleInv
  <2>2. BytesRead(bundle)' = BytesRead(bundle) /\ EffectiveLimits(job.lab)' = EffectiveLimits(job.lab)
    BY <1>2
  <2>3. QED
    BY <1>1, <1>2, <2>1, <2>2 DEF BundleInv
<1>4. TaskInv'
  <2>1. TheTask' = TheTask /\ task' = TheTask
    BY <1>2 DEF TheTask, BuildTask
  <2>2. QED
    BY <1>1, <1>2, <2>1 DEF TaskInv
<1>5. CallsInv'
  BY <1>1, <1>2 DEF Inv, CallsInv
<1>6. OutcomesInv'
  <2>1. outcomes' = <<>> /\ DOMAIN outcomes' = {}
    BY <1>1, <1>2 DEF Inv, CallsInv
  <2>2. QED
    BY <2>1 DEF OutcomesInv
<1>7. ResultInv'
  BY <1>1, <1>2 DEF Inv, ResultInv
<1>8. QED
  BY <1>1, <1>2, <1>3, <1>4, <1>5, <1>6, <1>7 DEF Inv

(* ... and so does building the prompts.                                   *)
LEMMA BuildPromptsStep ==
  ASSUME Inv, BuildPrompts
  PROVE  Inv'
<1>1. pc = "prompt" /\ pc' = "ask" /\ job \in Submissions /\ BundleInv /\ task = TheTask
  BY DEF Inv, BuildPrompts, TaskInv
<1>2. /\ UNCHANGED <<job, entry, bundle, task, attempt, sent, outcomes, result>>
      /\ files' = files /\ chunked' = chunked
  BY DEF BuildPrompts, files, chunked
<1>3. BundleInv'
  <2>1. BytesRead(bundle)' = BytesRead(bundle) /\ EffectiveLimits(job.lab)' = EffectiveLimits(job.lab)
    BY <1>2
  <2>2. QED
    BY <1>1, <1>2, <2>1 DEF BundleInv
<1>4. prompts' = ThePrompts /\ ThePrompts' = ThePrompts
  <2>1. prompts' = ThePrompts
    BY DEF BuildPrompts, ThePrompts
  <2>2. ThePrompts' = ThePrompts
    BY <1>2 DEF ThePrompts
  <2>3. QED
    BY <2>1, <2>2
<1>5. TaskInv'
  <2>1. TheTask' = TheTask
    BY <1>2 DEF TheTask
  <2>2. QED
    BY <1>1, <1>2, <1>4, <2>1 DEF TaskInv
<1>6. CallsInv'
  <2>1. Len(prompts)' \in Nat
    BY <1>1, <1>4, PromptsAre
  <2>2. outcomes = <<>> /\ Len(outcomes) = 0 /\ attempt = 0 /\ sent \in Nat
    BY <1>1 DEF Inv, CallsInv
  <2>3. MaxAttempts \in Nat \ {0}
    BY ReviewConstants
  <2>4. sent <= MaxAttempts * 0 + 0
    BY <1>1, <2>2 DEF Inv, CallsInv
  <2>5. MaxAttempts * 0 <= MaxAttempts * Len(prompts)'
    BY <2>1, <2>3, Product
  <2>6. sent = 0 /\ sent <= MaxAttempts * Len(prompts)' /\ sent <= MaxAttempts * Len(outcomes) + attempt
    BY <2>2, <2>3, <2>4, <2>5
  <2>7. QED
    BY <1>1, <1>2, <2>1, <2>2, <2>3, <2>6 DEF CallsInv
<1>7. OutcomesInv'
  <2>1. outcomes' = <<>> /\ DOMAIN outcomes' = {}
    BY <1>1, <1>2 DEF Inv, CallsInv
  <2>2. QED
    BY <2>1 DEF OutcomesInv
<1>8. ResultInv'
  BY <1>1, <1>2 DEF Inv, ResultInv
<1>9. QED
  BY <1>1, <1>2, <1>3, <1>5, <1>6, <1>7, <1>8 DEF Inv

(* The steps that make calls leave job, bundle, task and prompts alone.    *)
LEMMA EvidenceStays ==
  ASSUME Inv, UNCHANGED <<job, entry, bundle, task, prompts>>, pc = "ask",
         pc' \in {"ask", "done", "failed"}
  PROVE  BundleInv' /\ TaskInv' /\ (EvidenceIncomplete' <=> EvidenceIncomplete)
         /\ chunked' = chunked
<1>1. files' = files /\ chunked' = chunked
  BY DEF files, chunked
<1>2. BundleInv'
  <2>1. BytesRead(bundle)' = BytesRead(bundle) /\ EffectiveLimits(job.lab)' = EffectiveLimits(job.lab)
    OBVIOUS
  <2>2. QED
    BY <1>1, <2>1 DEF Inv, BundleInv
<1>3. TaskInv'
  <2>1. TheTask' = TheTask /\ ThePrompts' = ThePrompts
    BY <1>1 DEF TheTask, ThePrompts
  <2>2. QED
    BY <2>1 DEF Inv, TaskInv
<1>4. EvidenceIncomplete' <=> EvidenceIncomplete
  BY <1>1 DEF EvidenceIncomplete
<1>5. QED
  BY <1>1, <1>2, <1>3, <1>4

(* A sequence with one element more.                                       *)
LEMMA RangeOfAppend ==
  ASSUME NEW s, s \in Seq(Range(s)), NEW o, NEW r, r = Append(s, o)
  PROVE  /\ r \in Seq(Range(r)) /\ Len(r) = Len(s) + 1
         /\ \A c \in DOMAIN r : r[c] = o \/ (c \in DOMAIN s /\ r[c] = s[c])
<1>1. PICK V : V = Range(s) \cup {o}
  OBVIOUS
<1>2. Len(s) \in Nat /\ DOMAIN s = 1..Len(s) /\ s = [c \in 1..Len(s) |-> s[c]]
  OBVIOUS
<1>3. \A c \in 1..Len(s) : s[c] \in V
  BY <1>1, <1>2 DEF Range
<1>4. s \in Seq(V) /\ o \in V
  BY <1>1, <1>2, <1>3
<1>5. /\ r \in Seq(V) /\ Len(r) = Len(s) + 1
      /\ \A c \in 1..Len(s) : r[c] = s[c]
      /\ r[Len(s) + 1] = o
  BY <1>4, AppendProperties
<1>6. Len(r) \in Nat /\ DOMAIN r = 1..Len(r) /\ r = [c \in 1..Len(r) |-> r[c]]
  <2>1. r \in Seq(V)
    BY <1>5
  <2>2. Len(r) \in Nat /\ r \in [1..Len(r) -> V]
    BY <2>1, LenProperties
  <2>3. QED
    BY <2>2, Zenon
<1>7. \A c \in 1..Len(r) : r[c] \in Range(r)
  BY <1>6 DEF Range
<1>8. r \in Seq(Range(r))
  BY <1>6, <1>7
<1>9. \A c \in DOMAIN r : r[c] = o \/ (c \in DOMAIN s /\ r[c] = s[c])
  <2>1. ASSUME NEW c \in DOMAIN r PROVE r[c] = o \/ (c \in 1..Len(s) /\ r[c] = s[c])
    <3>1. c \in 1..(Len(s) + 1)
      BY <1>5, <1>6, <2>1
    <3>2. c = Len(s) + 1 \/ c \in 1..Len(s)
      BY <1>2, <3>1
    <3>3. QED
      BY <1>5, <3>2
  <2>2. QED
    BY <1>2, <2>1
<1>10. QED
  BY <1>5, <1>8, <1>9

(* A prompt that is over, answered or failed, keeps the invariant.         *)
LEMMA SettleStep ==
  ASSUME Inv, Asking, NEW o, IsOutcome(o), Settle(o), pc' \in {"ask", "failed"},
         EvidenceIncomplete => o = Failed \/ o.decision = "inconclusive",
         ~chunked /\ pc' # "failed" => o # Failed
  PROVE  Inv'
<1>1. pc = "ask" /\ Len(outcomes) < Len(prompts) /\ job \in Submissions
  BY DEF Inv, Asking
<1>2. /\ UNCHANGED <<job, entry, bundle, task, prompts, result>>
      /\ outcomes' = Append(outcomes, o) /\ attempt' = 0 /\ sent' = sent + 1
  BY DEF Settle
<1>3. BundleInv' /\ TaskInv' /\ (EvidenceIncomplete' <=> EvidenceIncomplete) /\ chunked' = chunked
  BY <1>1, <1>2, EvidenceStays
<1>4. /\ outcomes' \in Seq(Range(outcomes')) /\ Len(outcomes') = Len(outcomes) + 1
      /\ \A c \in DOMAIN outcomes' :
           outcomes'[c] = o \/ (c \in DOMAIN outcomes /\ outcomes'[c] = outcomes[c])
  <2>1. outcomes \in Seq(Range(outcomes))
    BY DEF Inv, OutcomesInv
  <2>2. PICK r : r = outcomes'
    OBVIOUS
  <2>3. r = Append(outcomes, o)
    BY <1>2, <2>2
  <2>4. r \in Seq(Range(r))
    BY <2>1, <2>3, RangeOfAppend
  <2>5. Len(r) = Len(outcomes) + 1
    BY <2>1, <2>3, RangeOfAppend
  <2>6. \A c \in DOMAIN r : r[c] = o \/ (c \in DOMAIN outcomes /\ r[c] = outcomes[c])
    BY <2>1, <2>3, RangeOfAppend
  <2>7. QED
    BY <2>2, <2>4, <2>5, <2>6
<1>5. CallsInv'
  <2>1. PICK n \in Nat : n = Len(outcomes)
    BY DEF Inv, CallsInv
  <2>2. PICK l \in Nat : l = Len(prompts)
    BY DEF Inv, CallsInv
  <2>3. MaxAttempts \in Nat \ {0} /\ n + 1 <= l
    BY <1>1, <2>1, <2>2, ReviewConstants
  <2>4. attempt \in 0..(MaxAttempts - 1) /\ sent \in Nat /\ sent <= MaxAttempts * n + attempt
    BY <1>1, <2>1 DEF Inv, CallsInv
  <2>5. MaxAttempts * n \in Nat /\ MaxAttempts * (n + 1) = MaxAttempts * n + MaxAttempts
    BY <2>1, <2>2, <2>3, Product
  <2>6. MaxAttempts * (n + 1) \in Nat /\ MaxAttempts * (n + 1) <= MaxAttempts * l
    BY <2>1, <2>2, <2>3, Product
  <2>7. PICK k \in Nat : k = MaxAttempts * (n + 1)
    BY <2>6
  <2>8. sent' <= k
    BY <1>2, <2>3, <2>4, <2>5, <2>7
  <2>9. sent' <= MaxAttempts * l
    <3>1. MaxAttempts * l \in Int
      BY <2>2, <2>3
    <3>2. QED
      BY <1>2, <2>4, <2>6, <2>7, <2>8, <3>1
  <2>10. Len(outcomes') = n + 1 /\ Len(prompts') = l
    BY <1>2, <1>4, <2>1, <2>2
  <2>11. sent' <= MaxAttempts * Len(outcomes') + attempt' /\ sent' <= MaxAttempts * Len(prompts')
    BY <1>2, <2>4, <2>7, <2>8, <2>9, <2>10
  <2>12. QED
    BY <1>2, <2>1, <2>2, <2>3, <2>4, <2>10, <2>11 DEF CallsInv
<1>6. OutcomesInv'
  <2>1. ASSUME NEW c \in DOMAIN outcomes'
        PROVE  /\ IsOutcome(outcomes'[c])
               /\ EvidenceIncomplete' =>
                    outcomes'[c] = Failed \/ outcomes'[c].decision = "inconclusive"
               /\ ~chunked' /\ pc' # "failed" => outcomes'[c] # Failed
    <3>1. CASE outcomes'[c] = o
      BY <1>3, <3>1
    <3>2. CASE c \in DOMAIN outcomes /\ outcomes'[c] = outcomes[c]
      BY <1>1, <1>3, <3>2 DEF Inv, OutcomesInv
    <3>3. QED
      BY <1>4, <3>1, <3>2
  <2>2. QED
    BY <1>4, <2>1 DEF OutcomesInv, IsOutcome, Failed, Conclusions
<1>7. ResultInv'
  BY <1>1, <1>2 DEF Inv, ResultInv
<1>8. QED
  BY <1>1, <1>2, <1>3, <1>5, <1>6, <1>7 DEF Inv

(* A failure is an outcome.                                                *)
LEMMA FailedIsOutcome == IsOutcome(Failed)
<1>1. <<>> \in Seq(Range(<<>>))
  OBVIOUS
<1>2. QED
  BY <1>1 DEF IsOutcome, Failed

(* A prompt that fails keeps the invariant, ...                            *)
LEMMA PromptFailsStep ==
  ASSUME Inv, Asking, PromptFails
  PROVE  Inv'
<1>1. Settle(Failed) /\ pc' \in {"ask", "failed"} /\ (~chunked => pc' = "failed")
  BY DEF PromptFails
<1>2. QED
  BY <1>1, FailedIsOutcome, SettleStep

(* ... and so does one that is answered, ...                               *)
LEMMA AnsweredStep ==
  ASSUME Inv, NEW reply \in Replies, Answered(reply)
  PROVE  Inv'
<1>1. Asking
  BY DEF Answered
<1>2. PICK incomplete \in BOOLEAN : incomplete <=> EvidenceIncomplete
  <2>1. CASE EvidenceIncomplete
    BY <2>1
  <2>2. CASE ~EvidenceIncomplete
    BY <2>2
  <2>3. QED
    BY <2>1, <2>2
<1>3. ValidVerdicts(reply, EvidenceIncomplete) = ValidVerdicts(reply, incomplete)
  BY <1>2 DEF ValidVerdicts, ValidVerdict
<1>4. PICK v : v = Objects(reply)[Min(ValidVerdicts(reply, incomplete))]
  OBVIOUS
<1>5. CASE ValidVerdicts(reply, incomplete) # {}
  <2>1. IsVerdict(v) /\ (incomplete => v.decision = "inconclusive")
    BY <1>4, <1>5, FirstValid
  <2>2. PICK o : o = [decision |-> v.decision, violations |-> v.violations]
    OBVIOUS
  <2>3. Settle(o) /\ pc' = pc
    BY <1>3, <1>4, <1>5, <2>2 DEF Answered
  <2>4. IsOutcome(o) /\ o # Failed
    BY <2>1, <2>2 DEF IsVerdict, IsOutcome, Failed, Conclusions
  <2>5. EvidenceIncomplete => o.decision = "inconclusive"
    BY <1>2, <2>1, <2>2
  <2>6. pc' \in {"ask", "failed"}
    BY <1>1, <2>3 DEF Asking
  <2>7. QED
    BY <1>1, <2>3, <2>4, <2>5, <2>6, SettleStep
<1>6. CASE ValidVerdicts(reply, incomplete) = {}
  <2>1. PromptFails
    BY <1>3, <1>6 DEF Answered
  <2>2. QED
    BY <1>1, <2>1, PromptFailsStep
<1>7. QED
  BY <1>5, <1>6

(* ... is sent once more, ...                                              *)
LEMMA RetryStep ==
  ASSUME Inv, Asking, attempt + 1 < MaxAttempts, Retry
  PROVE  Inv'
<1>1. /\ pc = "ask" /\ pc' = "ask" /\ job \in Submissions
      /\ UNCHANGED <<job, entry, bundle, task, prompts, outcomes, result>>
      /\ attempt' = attempt + 1 /\ sent' = sent + 1
  BY DEF Inv, Asking, Retry
<1>2. BundleInv' /\ TaskInv' /\ (EvidenceIncomplete' <=> EvidenceIncomplete) /\ chunked' = chunked
  BY <1>1, EvidenceStays
<1>3. CallsInv'
  <2>1. PICK n \in Nat : n = Len(outcomes)
    BY DEF Inv, CallsInv
  <2>2. PICK l \in Nat : l = Len(prompts)
    BY DEF Inv, CallsInv
  <2>3. MaxAttempts \in Nat \ {0} /\ n + 1 <= l
    BY <2>1, <2>2, ReviewConstants DEF Asking
  <2>4. attempt \in 0..(MaxAttempts - 1) /\ sent \in Nat /\ sent <= MaxAttempts * n + attempt
    BY <1>1, <2>1 DEF Inv, CallsInv
  <2>5. MaxAttempts * n \in Nat /\ MaxAttempts * (n + 1) = MaxAttempts * n + MaxAttempts
    BY <2>1, <2>2, <2>3, Product
  <2>6. MaxAttempts * (n + 1) \in Nat /\ MaxAttempts * (n + 1) <= MaxAttempts * l
    BY <2>1, <2>2, <2>3, Product
  <2>7. PICK k \in Nat : k = MaxAttempts * n
    BY <2>5
  <2>8. sent' <= k + attempt' /\ sent' <= k + MaxAttempts /\ attempt' \in 0..(MaxAttempts - 1)
    BY <1>1, <2>3, <2>4, <2>7
  <2>9. PICK m \in Int : m = MaxAttempts * l
    BY <2>2, <2>3
  <2>10. sent' <= m
    <3>1. MaxAttempts * (n + 1) = k + MaxAttempts
      BY <2>5, <2>7
    <3>2. k + MaxAttempts <= m
      BY <2>6, <2>9, <3>1
    <3>3. QED
      BY <1>1, <2>3, <2>4, <2>8, <2>9, <3>2
  <2>11. QED
    BY <1>1, <2>1, <2>2, <2>3, <2>4, <2>7, <2>8, <2>9, <2>10 DEF CallsInv
<1>4. OutcomesInv'
  BY <1>1, <1>2 DEF Inv, OutcomesInv
<1>5. ResultInv'
  BY <1>1 DEF Inv, ResultInv
<1>6. QED
  BY <1>1, <1>2, <1>3, <1>4, <1>5 DEF Inv

(* ... or breaks the review.                                               *)
LEMMA BrokenStep ==
  ASSUME Inv, Broken
  PROVE  Inv'
<1>1. /\ Asking /\ pc = "ask" /\ pc' = "failed" /\ job \in Submissions
      /\ UNCHANGED <<job, entry, bundle, task, prompts, attempt, outcomes, result>>
      /\ sent' = sent + 1
  BY DEF Inv, Asking, Broken
<1>2. BundleInv' /\ TaskInv' /\ (EvidenceIncomplete' <=> EvidenceIncomplete) /\ chunked' = chunked
  BY <1>1, EvidenceStays
<1>3. CallsInv'
  <2>1. PICK n \in Nat : n = Len(outcomes)
    BY DEF Inv, CallsInv
  <2>2. PICK l \in Nat : l = Len(prompts)
    BY DEF Inv, CallsInv
  <2>3. MaxAttempts \in Nat \ {0} /\ n + 1 <= l
    BY <1>1, <2>1, <2>2, ReviewConstants DEF Asking
  <2>4. attempt \in 0..(MaxAttempts - 1) /\ sent \in Nat /\ sent <= MaxAttempts * n + attempt
    BY <1>1, <2>1 DEF Inv, CallsInv
  <2>5. MaxAttempts * n \in Nat /\ MaxAttempts * (n + 1) = MaxAttempts * n + MaxAttempts
    BY <2>1, <2>2, <2>3, Product
  <2>6. MaxAttempts * (n + 1) \in Nat /\ MaxAttempts * (n + 1) <= MaxAttempts * l
    BY <2>1, <2>2, <2>3, Product
  <2>7. PICK k \in Nat : k = MaxAttempts * n
    BY <2>5
  <2>8. PICK m \in Int : m = MaxAttempts * l
    BY <2>2, <2>3
  <2>9. sent' <= m
    BY <1>1, <2>3, <2>4, <2>5, <2>6, <2>7, <2>8
  <2>10. QED
    BY <1>1, <2>1, <2>2, <2>3, <2>4, <2>8, <2>9 DEF CallsInv
<1>4. OutcomesInv'
  BY <1>1, <1>2 DEF Inv, OutcomesInv
<1>5. ResultInv'
  BY <1>1 DEF Inv, ResultInv
<1>6. QED
  BY <1>1, <1>2, <1>3, <1>4, <1>5 DEF Inv

(* The end of a review keeps the invariant, ...                            *)
LEMMA ConcludeStep ==
  ASSUME Inv, Conclude
  PROVE  Inv'
<1>1. /\ pc = "ask" /\ pc' = "done" /\ job \in Submissions /\ Len(outcomes) = Len(prompts)
      /\ UNCHANGED <<job, entry, bundle, task, prompts, attempt, sent, outcomes>>
  BY DEF Inv, Conclude
<1>2. BundleInv' /\ TaskInv' /\ (EvidenceIncomplete' <=> EvidenceIncomplete) /\ chunked' = chunked
  BY <1>1, EvidenceStays
<1>3. CallsInv'
  BY <1>1 DEF Inv, CallsInv
<1>4. OutcomesInv'
  BY <1>1, <1>2 DEF Inv, OutcomesInv
<1>5. ResultInv'
  <2>1. TheResult' = TheResult /\ result' = TheResult
    BY <1>1, <1>2 DEF TheResult, Conclude
  <2>2. QED
    BY <1>1, <2>1 DEF ResultInv
<1>6. QED
  BY <1>1, <1>2, <1>3, <1>4, <1>5 DEF Inv

(* ... and so does a step that changes nothing of it.                      *)
LEMMA StutterStep ==
  ASSUME Inv, UNCHANGED vars
  PROVE  Inv'
<1>1. /\ UNCHANGED <<job, pc, entry, bundle, task, prompts, attempt, sent, outcomes, result>>
      /\ files' = files /\ chunked' = chunked
  BY DEF vars, files, chunked
<1>2. BundleInv'
  <2>1. BytesRead(bundle)' = BytesRead(bundle) /\ EffectiveLimits(job.lab)' = EffectiveLimits(job.lab)
    BY <1>1
  <2>2. QED
    BY <1>1, <2>1 DEF Inv, BundleInv
<1>3. TaskInv'
  <2>1. TheTask' = TheTask /\ ThePrompts' = ThePrompts
    BY <1>1 DEF TheTask, ThePrompts
  <2>2. QED
    BY <1>1, <2>1 DEF Inv, TaskInv
<1>4. CallsInv'
  BY <1>1 DEF Inv, CallsInv
<1>5. OutcomesInv'
  <2>1. EvidenceIncomplete' <=> EvidenceIncomplete
    BY <1>1 DEF EvidenceIncomplete
  <2>2. QED
    BY <1>1, <2>1 DEF Inv, OutcomesInv
<1>6. ResultInv'
  <2>1. TheResult' = TheResult
    BY <1>1 DEF TheResult
  <2>2. QED
    BY <1>1, <2>1 DEF Inv, ResultInv
<1>7. QED
  BY <1>1, <1>2, <1>3, <1>4, <1>5, <1>6 DEF Inv

(* Every step keeps the invariant.                                         *)
LEMMA NextInv == ASSUME Inv, [Next]_vars PROVE Inv'
<1>1. CASE SkipFile \/ LoadFile
  BY <1>1, ReadStep
<1>2. CASE BuildTask
  BY <1>2, BuildTaskStep
<1>3. CASE BuildPrompts
  BY <1>3, BuildPromptsStep
<1>4. ASSUME NEW reply \in Replies, Answered(reply) PROVE Inv'
  BY <1>4, AnsweredStep
<1>5. CASE Transient
  <2>1. Asking
    BY <1>5 DEF Transient
  <2>2. CASE attempt + 1 < MaxAttempts
    <3>1. Retry
      BY <1>5, <2>2 DEF Transient
    <3>2. QED
      BY <2>1, <2>2, <3>1, RetryStep
  <2>3. CASE ~(attempt + 1 < MaxAttempts)
    <3>1. PromptFails
      BY <1>5, <2>3 DEF Transient
    <3>2. QED
      BY <2>1, <3>1, PromptFailsStep
  <2>4. QED
    BY <2>2, <2>3
<1>6. CASE Refused
  BY <1>6, PromptFailsStep DEF Refused
<1>7. CASE Broken
  BY <1>7, BrokenStep
<1>8. CASE Conclude
  BY <1>8, ConcludeStep
<1>9. CASE UNCHANGED vars
  BY <1>9, StutterStep
<1>10. QED
  BY <1>1, <1>2, <1>3, <1>4, <1>5, <1>6, <1>7, <1>8, <1>9 DEF Next

(* Inv is an invariant of the review, whatever is submitted and answered.  *)
THEOREM Invariance == Spec => []Inv
<1>1. Init => Inv
  BY InitInv
<1>2. Inv /\ [Next]_vars => Inv'
  BY NextInv
<1>3. QED
  BY <1>1, <1>2, PTL DEF Spec

-----------------------------------------------------------------------------
(* The state and the bundle.                                               *)

(* A review that is done has a conclusion.                                 *)
LEMMA ResultIs ==
  ASSUME Inv, pc = "done"
  PROVE  result.decision \in Conclusions
<1>1. result = TheResult
  BY DEF Inv, ResultInv
<1>2. CASE chunked
  BY <1>1, <1>2 DEF TheResult, MergeVerdicts, Conclusions
<1>3. CASE ~chunked
  <2>1. Len(outcomes) = 1 /\ outcomes \in Seq(Range(outcomes))
    <3>1. Len(prompts) = 1
      BY <1>3, PromptsAre DEF Inv, TaskInv
    <3>2. QED
      BY <3>1 DEF Inv, ResultInv, OutcomesInv
  <2>2. 1 \in DOMAIN outcomes
    BY <2>1
  <2>3. outcomes[1].decision \in Conclusions
    BY <1>3, <2>2 DEF Inv, OutcomesInv, IsOutcome
  <2>4. QED
    BY <1>1, <1>3, <2>3 DEF TheResult
<1>4. QED
  BY <1>2, <1>3

(* The invariant implies the type invariant.                               *)
LEMMA InvTyped == ASSUME Inv PROVE TypeOK
<1>1. entry \in 1..(Len(files) + 1) /\ Len(files) \in Nat /\ DOMAIN files = 1..Len(files)
  BY FilesAre DEF Inv, BundleInv
<1>2. DOMAIN bundle \subseteq DOMAIN files
  BY <1>1, BundleIs DEF Inv
<1>3. \A i \in DOMAIN bundle : bundle[i] \in [read : Nat, truncated : BOOLEAN]
  BY DEF Inv, BundleInv
<1>4. task.scope \subseteq DOMAIN bundle
  <2>1. CASE task = NoTask
    BY <2>1 DEF NoTask
  <2>2. CASE task = TheTask
    BY <2>2, TaskIs DEF Inv
  <2>3. QED
    BY <2>1, <2>2 DEF Inv, TaskInv
<1>5. /\ attempt \in 0..(MaxAttempts - 1) /\ Len(outcomes) <= Len(prompts)
      /\ sent \in 0..(MaxAttempts * Len(prompts))
  <2>1. PICK m \in Int : m = MaxAttempts * Len(prompts)
    BY ReviewConstants DEF Inv, CallsInv
  <2>2. sent \in Nat /\ sent <= m
    BY <2>1 DEF Inv, CallsInv
  <2>3. sent \in 0..m
    BY <2>2
  <2>4. QED
    BY <2>1, <2>3 DEF Inv, CallsInv
<1>6. \A c \in DOMAIN outcomes :
        outcomes[c].decision \in {"compliant", "violation", "inconclusive", "failed"}
  BY DEF Inv, OutcomesInv, IsOutcome, Failed, Conclusions
<1>7. result.decision \in {"compliant", "violation", "inconclusive", "none"}
  <2>1. CASE pc = "done"
    BY <2>1, ResultIs DEF Conclusions
  <2>2. CASE pc # "done"
    BY <2>2 DEF Inv, ResultInv, NoResult
  <2>3. QED
    BY <2>1, <2>2
<1>8. QED
  BY <1>1, <1>2, <1>3, <1>4, <1>5, <1>6, <1>7 DEF Inv, TypeOK

(* The state of a review is of the right kind: no prompt takes more than   *)
(* MaxAttempts calls, and there is one outcome per prompt.                 *)
THEOREM Typed == Spec => []TypeOK
<1>1. Inv => TypeOK
  BY InvTyped
<1>2. QED
  BY <1>1, Invariance, PTL

(* The total budget holds over all files, and what is not marked as        *)
(* truncated is a whole file.                                              *)
THEOREM BundleAccounts == Spec => []BundleAccountsForFiles
<1>1. Inv => BundleAccountsForFiles
  BY DEF Inv, BundleInv, BundleAccountsForFiles
<1>2. QED
  BY <1>1, Invariance, PTL

(* The chunks are as few and as large as the limit allows.  One of several *)
(* parts was measured within the limit, and is larger when it is sent only *)
(* by the digits of its numbers.                                           *)
THEOREM ChunksAlwaysFit == Spec => []ChunksFit
<1>1. ASSUME Inv, chunked, pc = "ask" PROVE ChunksSize(prompts, job.chars)
  <2>1. prompts = ThePrompts /\ task = TheTask
    BY <1>1 DEF Inv, TaskInv
  <2>2. QED
    BY <1>1, <2>1, PromptsAre DEF Inv
<1>2. ASSUME Inv, chunked, pc = "ask", NEW c \in DOMAIN prompts, Len(prompts[c]) > 1
      PROVE  PromptChars(prompts[c], c - 1, Len(prompts))
               <= job.chars + 4 * (Digits(Len(prompts)) - 1)
  <2>1. prompts \in Seq(Seq(Part)) /\ job.chars \in Nat
    <3>1. prompts = ThePrompts /\ task = TheTask
      BY <1>2 DEF Inv, TaskInv
    <3>2. QED
      BY <1>2, <3>1, PromptsAre, RestOfJob DEF Inv
  <2>2. PICK parts \in Seq(Part) : parts = prompts[c]
    BY <2>1
  <2>3. PICK n \in Nat : n = Len(prompts) /\ c \in 1..n
    BY <2>1
  <2>4. PromptChars(parts, c - 1, n) <= ChunkPromptChars(parts) + 4 * (Digits(n) - 1)
    BY <2>3, NumbersAdd
  <2>5. ChunkPromptChars(parts) \in Nat /\ Digits(n) \in Nat
    BY ChunkPromptCharsIsNat, DigitsAre
  <2>6. ~(ChunkPromptChars(parts) > job.chars)
    <3>1. ChunkPromptChars(parts) > job.chars => Len(parts) <= 1
      BY <1>1, <1>2, <2>2 DEF ChunksSize
    <3>2. QED
      BY <1>2, <2>2, <3>1
  <2>7. ChunkPromptChars(parts) <= job.chars
    BY <2>1, <2>5, <2>6
  <2>8. PromptChars(parts, c - 1, n) \in Int
    <3>1. PICK size \in Nat : PromptChars(parts, c - 1, n)
            = size + Digits(c - 1) + Digits((c - 1) + 1) + 2 * Digits(n)
      BY PromptCharsAre
    <3>2. c - 1 \in Nat /\ (c - 1) + 1 \in Nat
      BY <2>3
    <3>3. Digits(c - 1) \in Nat /\ Digits((c - 1) + 1) \in Nat
      BY <3>2, DigitsAre
    <3>4. QED
      BY <2>5, <3>1, <3>3
  <2>9. PromptChars(parts, c - 1, n) <= job.chars + 4 * (Digits(n) - 1)
    BY <2>1, <2>4, <2>5, <2>7, <2>8
  <2>10. QED
    BY <2>2, <2>3, <2>9
<1>3. Inv => ChunksFit
  BY <1>1, <1>2 DEF ChunksFit, ChunksSize
<1>4. QED
  BY <1>3, Invariance, PTL

-----------------------------------------------------------------------------
(* Merging.                                                                *)

Answers == {c \in DOMAIN outcomes : outcomes[c] # Failed}

(* What merging keeps are the answers, ...                                 *)
LEMMA KeptAre ==
  ASSUME OutcomesInv, NEW kept, kept = AtPositions(outcomes, Answers)
  PROVE  /\ Len(kept) \in Nat /\ DOMAIN kept = 1..Len(kept)
         /\ Len(kept) = Len(outcomes) => Answers = DOMAIN outcomes
         /\ \A a \in DOMAIN kept : \E c \in Answers : kept[a] = outcomes[c]
         /\ \A c \in Answers : \E a \in DOMAIN kept : kept[a] = outcomes[c]
<1>1. PICK V : V = Range(outcomes)
  OBVIOUS
<1>2. outcomes \in Seq(V)
  BY <1>1 DEF OutcomesInv
<1>3. PICK I : I = Answers
  OBVIOUS
<1>4. I \subseteq DOMAIN outcomes
  BY <1>3 DEF Answers
<1>5. kept = AtPositions(outcomes, I)
  BY <1>3
<1>6. kept \in Seq(V) /\ Selects(kept, outcomes, DOMAIN outcomes \cap I)
  BY <1>2, <1>5, AtPositionsSelects
<1>7. \A i \in DOMAIN outcomes : i \notin I => Len(kept) < Len(outcomes)
  BY <1>2, <1>5, AtPositionsSelects
<1>8. PICK p \in [DOMAIN kept -> DOMAIN outcomes \cap I] :
        /\ \A j \in DOMAIN outcomes \cap I : \E a \in DOMAIN kept : p[a] = j
        /\ \A a \in DOMAIN kept : kept[a] = outcomes[p[a]]
  BY <1>6 DEF Selects
<1>9. \A a \in DOMAIN kept : p[a] \in I /\ kept[a] = outcomes[p[a]]
  BY <1>8
<1>10. \A c \in I : \E a \in DOMAIN kept : kept[a] = outcomes[c]
  BY <1>4, <1>8
<1>11. Len(kept) \in Nat /\ DOMAIN kept = 1..Len(kept) /\ Len(outcomes) \in Nat
  BY <1>2, <1>6
<1>12. Len(kept) = Len(outcomes) => I = DOMAIN outcomes
  <2>1. SUFFICES ASSUME Len(kept) = Len(outcomes), NEW i \in DOMAIN outcomes, i \notin I
                 PROVE  FALSE
    BY <1>4
  <2>2. Len(kept) < Len(outcomes)
    BY <1>7, <2>1
  <2>3. QED
    BY <1>11, <2>1, <2>2
<1>13. QED
  BY <1>3, <1>9, <1>10, <1>11, <1>12

(* ... and they hold every violation that was reported.                    *)
LEMMA KeptReport ==
  ASSUME OutcomesInv, NEW kept, kept = AtPositions(outcomes, Answers), NEW v
  PROVE  Reported(kept, v) <=> Reported(outcomes, v)
<1>1. /\ \A a \in DOMAIN kept : \E c \in Answers : kept[a] = outcomes[c]
      /\ \A c \in Answers : \E a \in DOMAIN kept : kept[a] = outcomes[c]
  BY KeptAre
<1>2. ASSUME Reported(kept, v) PROVE Reported(outcomes, v)
  <2>1. PICK a \in DOMAIN kept :
          \E x \in DOMAIN kept[a].violations : kept[a].violations[x] = v
    BY <1>2 DEF Reported
  <2>2. PICK c \in Answers : kept[a] = outcomes[c]
    BY <1>1, <2>1
  <2>3. c \in DOMAIN outcomes
    BY <2>2 DEF Answers
  <2>4. \E x \in DOMAIN outcomes[c].violations : outcomes[c].violations[x] = v
    BY <2>1, <2>2
  <2>5. QED
    BY <2>3, <2>4 DEF Reported
<1>3. ASSUME Reported(outcomes, v) PROVE Reported(kept, v)
  <2>1. PICK c \in DOMAIN outcomes :
          \E x \in DOMAIN outcomes[c].violations : outcomes[c].violations[x] = v
    BY <1>3 DEF Reported
  <2>2. outcomes[c] # Failed
    <3>1. SUFFICES ASSUME outcomes[c] = Failed PROVE FALSE
      OBVIOUS
    <3>2. DOMAIN outcomes[c].violations = {}
      BY <3>1 DEF Failed
    <3>3. QED
      BY <2>1, <3>2
  <2>3. c \in Answers
    BY <2>1, <2>2 DEF Answers
  <2>4. PICK a \in DOMAIN kept : kept[a] = outcomes[c]
    BY <1>1, <2>3
  <2>5. \E x \in DOMAIN kept[a].violations : kept[a].violations[x] = v
    BY <2>1, <2>4
  <2>6. QED
    BY <2>4, <2>5 DEF Reported
<1>4. QED
  BY <1>2, <1>3

(* The verdict lists what the outcomes report, each violation once if      *)
(* they were merged.                                                       *)
LEMMA MergedIs ==
  ASSUME Inv, pc = "done"
  PROVE  /\ chunked => IsInjective(result.violations)
         /\ \A v : (\E a \in DOMAIN result.violations : result.violations[a] = v)
                     <=> Reported(outcomes, v)
<1>1. result = TheResult /\ OutcomesInv
  BY DEF Inv, ResultInv
<1>2. CASE chunked
  <2>1. PICK kept : kept = AtPositions(outcomes, Answers)
    OBVIOUS
  <2>2. result.violations = AllViolations(kept)
    BY <1>1, <1>2, <2>1 DEF TheResult, MergeVerdicts, MergedViolations, Answers
  <2>3. /\ Len(kept) \in Nat /\ DOMAIN kept = 1..Len(kept)
        /\ \A a \in DOMAIN kept : \E c \in Answers : kept[a] = outcomes[c]
    BY <1>1, <2>1, KeptAre
  <2>4. PICK V : V = UNION {Range(outcomes[c].violations) : c \in DOMAIN outcomes}
    OBVIOUS
  <2>5. ASSUME NEW a \in DOMAIN kept PROVE kept[a].violations \in Seq(V)
    <3>1. PICK c \in DOMAIN outcomes : kept[a] = outcomes[c]
      BY <2>3, <2>5 DEF Answers
    <3>2. PICK s : s = outcomes[c].violations
      OBVIOUS
    <3>3. s \in Seq(Range(s))
      BY <1>1, <3>1, <3>2 DEF OutcomesInv, IsOutcome
    <3>4. Range(s) \subseteq V
      BY <2>4, <3>1, <3>2
    <3>5. Len(s) \in Nat /\ s = [x \in 1..Len(s) |-> s[x]] /\ \A x \in 1..Len(s) : s[x] \in Range(s)
      BY <3>3
    <3>6. \A x \in 1..Len(s) : s[x] \in V
      BY <3>4, <3>5
    <3>7. s \in Seq(V)
      BY <3>5, <3>6
    <3>8. QED
      BY <3>1, <3>2, <3>7
  <2>6. IsInjective(AllViolations(kept))
    BY <2>3, <2>5, AllViolationsIs
  <2>7. \A v : (\E a \in DOMAIN AllViolations(kept) : AllViolations(kept)[a] = v)
                 <=> Reported(kept, v)
    BY <2>3, <2>5, AllViolationsIs
  <2>8. \A v : Reported(kept, v) <=> Reported(outcomes, v)
    BY <1>1, <2>1, KeptReport
  <2>9. QED
    BY <2>2, <2>6, <2>7, <2>8
<1>3. CASE ~chunked
  <2>1. Len(outcomes) = 1 /\ DOMAIN outcomes = 1..1
    <3>1. Len(prompts) = 1
      BY <1>3, PromptsAre DEF Inv, TaskInv
    <3>2. QED
      BY <3>1 DEF Inv, ResultInv, OutcomesInv
  <2>2. DOMAIN outcomes = {1} /\ result = outcomes[1]
    BY <1>1, <1>3, <2>1 DEF TheResult
  <2>3. QED
    BY <1>3, <2>2 DEF Reported
<1>4. QED
  BY <1>2, <1>3

(* No chunk of a conclusive review is without a conclusive answer.         *)
LEMMA ConclusiveOutcomes ==
  ASSUME Inv, pc = "done", result.decision # "inconclusive"
  PROVE  /\ \A c \in DOMAIN prompts : /\ c \in DOMAIN outcomes
                                     /\ outcomes[c].decision \in {"compliant", "violation"}
         /\ result.decision = "compliant" =>
              \A c \in DOMAIN outcomes : outcomes[c].decision = "compliant"
<1>1. result = TheResult /\ OutcomesInv /\ Len(outcomes) = Len(prompts)
  BY DEF Inv, ResultInv
<1>2. DOMAIN outcomes = 1..Len(outcomes) /\ Len(outcomes) \in Nat
  BY <1>1 DEF OutcomesInv
<1>3. CASE chunked
  <2>1. PICK kept : kept = AtPositions(outcomes, Answers)
    OBVIOUS
  <2>2. result = MergeVerdicts(kept, Len(prompts))
    BY <1>1, <1>3, <2>1 DEF TheResult, Answers
  <2>3. Len(kept) = Len(prompts) /\ "inconclusive" \notin Decisions(kept)
    BY <2>2 DEF MergeVerdicts
  <2>4. result.decision = "compliant" => "violation" \notin Decisions(kept)
    BY <2>2, <2>3 DEF MergeVerdicts
  <2>5. Answers = DOMAIN outcomes
    BY <1>1, <2>1, <2>3, KeptAre
  <2>6. ASSUME NEW c \in DOMAIN outcomes
        PROVE  outcomes[c].decision \in Decisions(kept) /\ outcomes[c].decision \in Conclusions
    <3>1. PICK a \in DOMAIN kept : kept[a] = outcomes[c]
      BY <1>1, <2>1, <2>5, <2>6, KeptAre
    <3>2. outcomes[c] # Failed
      BY <2>5, <2>6 DEF Answers
    <3>3. QED
      BY <1>1, <2>6, <3>1, <3>2 DEF Decisions, OutcomesInv, IsOutcome
  <2>7. DOMAIN prompts = DOMAIN outcomes
    <3>1. prompts \in Seq(Seq(Part))
      BY <1>3, PromptsAre DEF Inv, TaskInv
    <3>2. QED
      BY <1>1, <1>2, <3>1
  <2>8. \A c \in DOMAIN outcomes : outcomes[c].decision \in {"compliant", "violation"}
    BY <2>3, <2>6 DEF Conclusions
  <2>9. QED
    BY <2>4, <2>6, <2>7, <2>8
<1>4. CASE ~chunked
  <2>1. Len(prompts) = 1 /\ DOMAIN prompts = {1}
    <3>1. prompts = ThePrompts /\ task = TheTask
      BY DEF Inv, TaskInv
    <3>2. QED
      BY <1>4, <3>1 DEF ThePrompts
  <2>2. DOMAIN outcomes = {1} /\ result = outcomes[1] /\ outcomes[1] # Failed
    BY <1>1, <1>2, <1>4, <2>1 DEF TheResult, OutcomesInv
  <2>3. outcomes[1].decision \in Conclusions
    BY <1>1, <2>2 DEF OutcomesInv, IsOutcome
  <2>4. QED
    BY <2>1, <2>2, <2>3 DEF Conclusions
<1>5. QED
  BY <1>3, <1>4

(* Merging loses no violation and invents none, lists none twice, and      *)
(* finds a submission compliant only if every chunk was answered so.       *)
THEOREM MergedInFull == Spec => []MergeLosesNothing
<1>1. ASSUME Inv, pc = "done"
      PROVE  ToSet(result.violations) = UNION {ToSet(outcomes[c].violations) : c \in DOMAIN outcomes}
  <2>1. ASSUME NEW v
        PROVE  v \in ToSet(result.violations)
                 <=> v \in UNION {ToSet(outcomes[c].violations) : c \in DOMAIN outcomes}
    <3>1. v \in ToSet(result.violations) <=> Reported(outcomes, v)
      <4>1. v \in ToSet(result.violations)
              <=> \E a \in DOMAIN result.violations : result.violations[a] = v
        BY DEF ToSet
      <4>2. QED
        BY <1>1, <4>1, MergedIs
    <3>2. v \in UNION {ToSet(outcomes[c].violations) : c \in DOMAIN outcomes}
            <=> \E c \in DOMAIN outcomes : v \in ToSet(outcomes[c].violations)
      OBVIOUS
    <3>3. \A c \in DOMAIN outcomes :
            v \in ToSet(outcomes[c].violations)
              <=> \E x \in DOMAIN outcomes[c].violations : outcomes[c].violations[x] = v
      BY DEF ToSet
    <3>4. QED
      BY <3>1, <3>2, <3>3 DEF Reported
  <2>2. QED
    BY <2>1
<1>2. ASSUME Inv, pc = "done", chunked
      PROVE  IsInjective(result.violations)
  BY <1>2, MergedIs
<1>3. ASSUME Inv, pc = "done", result.decision = "compliant", NEW c \in DOMAIN prompts
      PROVE  outcomes[c].decision = "compliant"
  BY <1>3, ConclusiveOutcomes
<1>4. Inv => MergeLosesNothing
  BY <1>1, <1>2, <1>3 DEF MergeLosesNothing
<1>5. QED
  BY <1>4, Invariance, PTL

-----------------------------------------------------------------------------
(* What a conclusive review has seen.                                      *)

(* Whatever takes part in a run is in the scope of the task.               *)
LEMMA ScopeHolds ==
  ASSUME Inv, pc = "done"
  PROVE  /\ Executed({"header"}) \subseteq task.scope
         /\ Truncated(bundle) # {} =>
              \A i \in DOMAIN bundle : files[i].kind # "input" => i \in task.scope
<1>1. /\ job \in Submissions /\ BundleInv /\ task = TheTask
      /\ IsFiniteSet(DOMAIN bundle) /\ DOMAIN files = 1..Len(files)
  BY BundleIs, FilesAre DEF Inv, TaskInv
<1>2. DOMAIN bundle = Source
  <2>1. entry = Len(files) + 1 /\ Len(files) \in Nat
    BY <1>1, FilesAre DEF BundleInv
  <2>2. 1..(entry - 1) = DOMAIN files
    BY <1>1, <2>1
  <2>3. QED
    BY <1>1, <2>2 DEF BundleInv, Source
<1>3. task.scope = IF job.lab4 THEN ExecutionScope(files, bundle) ELSE DOMAIN bundle
  BY <1>1, TaskIs DEF IsTask
<1>4. CASE ~job.lab4
  <2>1. Executed({"header"}) = Source
    BY <1>4 DEF Executed
  <2>2. QED
    BY <1>2, <1>3, <1>4, <2>1
<1>5. CASE job.lab4
  <2>1. PICK C \in SUBSET ExecutionScope(files, bundle) :
          /\ BuildInputs(files, bundle) \subseteq C /\ AddIncludes(files, bundle, C) = C
          /\ RuntimeAssets(files, bundle, C) \subseteq ExecutionScope(files, bundle)
    BY <1>1, ExecutionScopeIs
  <2>2. ExecutionScope(files, bundle) \subseteq Source
    BY <1>1, <1>2, ExecutionScopeIs
  <2>3. C \in SUBSET Source
    BY <2>1, <2>2
  <2>4. BuildInputs(files, [i \in Source |-> i]) \subseteq C
    <3>1. PICK b : b = [i \in Source |-> i]
      OBVIOUS
    <3>2. DOMAIN b = DOMAIN bundle
      BY <1>2, <3>1
    <3>3. BuildInputs(files, b) = BuildInputs(files, bundle)
      BY <3>2, BuildInputsOfDomain
    <3>4. QED
      BY <2>1, <3>1, <3>3
  <2>5. Closed(C, {"header"})
    <3>1. ASSUME NEW j \in C, NEW i \in files[j].includes,
                 files[j].kind \in IsCode, files[i].kind \in {"header"}, files[i].source
          PROVE  i \in C
      <4>1. j \in DOMAIN files /\ j \in DOMAIN bundle
        BY <1>2, <2>3, <3>1 DEF Source
      <4>2. i \in DOMAIN files
        BY <1>1, <4>1, FilesAre
      <4>3. i \in DOMAIN bundle
        BY <1>2, <3>1, <4>2 DEF Source
      <4>4. i \in OfKind(files, bundle, {"header"}) /\ j \in OfKind(files, bundle, IsCode)
        BY <3>1, <4>1, <4>3 DEF OfKind
      <4>5. i \in AddIncludes(files, bundle, C)
        BY <3>1, <4>4 DEF AddIncludes
      <4>6. QED
        BY <2>1, <4>5
    <3>2. QED
      BY <3>1 DEF Closed
  <2>6. Compiled({"header"}) \subseteq C
    BY <2>3, <2>4, <2>5 DEF Compiled
  <2>7. Assets(Compiled({"header"})) \subseteq RuntimeAssets(files, bundle, C)
    <3>1. PICK S : S = Compiled({"header"}) /\ S \subseteq C
      BY <2>6
    <3>2. Scripts(files, bundle) = {j \in Source : files[j].kind \in {"script", "fragment"}}
      BY <1>2 DEF Scripts, OfKind
    <3>3. \A kinds : OfKind(files, bundle, kinds) = {j \in Source : files[j].kind \in kinds}
      BY <1>2 DEF OfKind
    <3>4. ASSUME NEW i \in Assets(S)
          PROVE  i \in RuntimeAssets(files, bundle, C)
      <4>1. i \in Source /\ files[i].kind \in InSrc /\ i \in OfKind(files, bundle, InSrc)
        BY <3>3, <3>4 DEF Assets
      <4>2. CASE \E j \in Scripts(files, bundle) : i \in files[j].literals
        BY <4>1, <4>2 DEF RuntimeAssets
      <4>3. CASE "variable" \in Styles(files, bundle) /\ files[i].kind \in NotCode
        <5>1. i \in OfKind(files, bundle, NotCode)
          BY <3>3, <4>1, <4>3
        <5>2. QED
          BY <4>3, <5>1 DEF RuntimeAssets
      <4>4. CASE /\ "cd" \in Styles(files, bundle)
                 /\ \E j \in S : i \in files[j].names \cup files[j].includes
        BY <3>1, <4>1, <4>4 DEF RuntimeAssets
      <4>5. \A style : (\E j \in Scripts(files, bundle) : style \in files[j].styles)
                        => style \in Styles(files, bundle)
        BY DEF Styles
      <4>6. QED
        BY <3>2, <3>4, <4>2, <4>3, <4>4, <4>5 DEF Assets
    <3>5. QED
      BY <3>1, <3>4
  <2>8. Executed({"header"}) \subseteq ExecutionScope(files, bundle)
    BY <1>5, <2>1, <2>6, <2>7 DEF Executed
  <2>9. QED
    BY <1>1, <1>3, <1>5, <2>8, ExecutionScopeIs
<1>6. QED
  BY <1>4, <1>5

(* A conclusion means that nothing was cut.                                *)
LEMMA ConclusiveIsComplete ==
  ASSUME Inv, pc = "done", result.decision # "inconclusive"
  PROVE  ~EvidenceIncomplete
<1>1. 1 \in DOMAIN prompts
  <2>1. prompts = ThePrompts /\ task = TheTask /\ job \in Submissions /\ BundleInv
    BY DEF Inv, TaskInv
  <2>2. CASE chunked
    <3>1. PICK items \in Seq(Evidence) : items = EvidenceItems(files, bundle, task)
      BY <2>1, ItemsAre
    <3>2. prompts = ComplianceChunks(items, job.chars) /\ job.chars \in Nat
      BY <2>1, <2>2, <3>1, RestOfJob DEF ThePrompts
    <3>3. prompts # <<>> /\ prompts \in Seq(Seq(Part))
      BY <2>1, <2>2, <3>2, ChunksNotEmpty, PromptsAre
    <3>4. QED
      BY <3>3
  <2>3. CASE ~chunked
    BY <2>1, <2>3 DEF ThePrompts
  <2>4. QED
    BY <2>2, <2>3
<1>2. 1 \in DOMAIN outcomes /\ outcomes[1].decision \in {"compliant", "violation"}
  BY <1>1, ConclusiveOutcomes
<1>3. EvidenceIncomplete => outcomes[1] = Failed \/ outcomes[1].decision = "inconclusive"
  BY <1>2 DEF Inv, OutcomesInv
<1>4. QED
  BY <1>2, <1>3 DEF Failed

(* When the evidence is complete, every file in scope was read as a        *)
(* whole, ...                                                              *)
LEMMA AllRead ==
  ASSUME Inv, pc = "done", ~EvidenceIncomplete
  PROVE  \A i \in task.scope : ~bundle[i].truncated /\ bundle[i].read = files[i].text.len
<1>1. IsTask(task, job.lab4, files, bundle, job.removed) /\ task.scope \subseteq DOMAIN bundle
  BY TaskIs DEF Inv, TaskInv
<1>2. ~task.delta.incomplete
  BY DEF EvidenceIncomplete
<1>3. \A i \in task.scope : ~bundle[i].truncated
  BY <1>1, <1>2 DEF IsTask
<1>4. QED
  BY <1>1, <1>3 DEF Inv, BundleInv

Delivered(i, hunks) ==
  \E k \in DOMAIN task.delta.files :
    task.delta.files[k].path = i /\ task.delta.files[k].hunks = hunks

(* ... and all its changes are in the delta.                               *)
LEMMA ChangesAreDelivered ==
  ASSUME Inv, pc = "done", ~EvidenceIncomplete
  PROVE  /\ \A i \in task.scope : ChangesOf(i) # <<>> => Delivered(i, ChangesOf(i))
         /\ ~job.lab4 => \A k \in DOMAIN job.removed : Delivered(Len(files) + k, job.removed[k])
<1>1. IsTask(task, job.lab4, files, bundle, job.removed) /\ task.scope \subseteq DOMAIN bundle
  BY TaskIs DEF Inv, TaskInv
<1>2. PICK base :
        /\ \A i \in task.scope : base[i] = BaselineOf(job.lab4, files, bundle, task.scope, i)
        /\ IsDelta(task.delta.files, files, Changed(files, bundle, task.scope, base), base,
                   IF job.lab4 THEN <<>> ELSE job.removed)
  BY <1>1 DEF IsTask
<1>3. ASSUME NEW i \in task.scope PROVE ChangesOf(i) = files[i].hunks[base[i]]
  <2>1. base[i] = BaselineOf(job.lab4, files, bundle, task.scope, i)
    BY <1>2, <1>3
  <2>2. PICK f : f = files[i]
    OBVIOUS
  <2>3. PICK public \in BOOLEAN : public = SelectReference(files, bundle, task.scope)
    BY DEF SelectReference
  <2>4. CASE job.lab4
    <3>1. base[i] = SelectedBaseline(f, public)
      BY <2>1, <2>2, <2>3, <2>4 DEF BaselineOf
    <3>2. CASE "course" \in DOMAIN f.hunks /\ (f.kind \notin InSrc \/ f.critical)
      BY <2>2, <2>4, <3>1, <3>2 DEF ChangesOf, SelectedBaseline
    <3>3. CASE ~("course" \in DOMAIN f.hunks /\ (f.kind \notin InSrc \/ f.critical))
      BY <2>2, <2>3, <2>4, <3>1, <3>3 DEF ChangesOf, SelectedBaseline
    <3>4. QED
      BY <3>2, <3>3
  <2>5. CASE ~job.lab4
    <3>1. base[i] = CourseBaseline(f)
      BY <2>1, <2>2, <2>5 DEF BaselineOf
    <3>2. QED
      BY <2>2, <2>5, <3>1 DEF ChangesOf, SelectedBaseline, CourseBaseline
  <2>6. QED
    BY <2>4, <2>5
<1>4. ASSUME NEW i \in task.scope, ChangesOf(i) # <<>> PROVE Delivered(i, ChangesOf(i))
  <2>1. i \in Changed(files, bundle, task.scope, base)
    BY <1>3, <1>4, AllRead DEF Changed
  <2>2. QED
    BY <1>2, <1>3, <2>1 DEF IsDelta, Delivered
<1>5. ASSUME ~job.lab4, NEW k \in DOMAIN job.removed
      PROVE  Delivered(Len(files) + k, job.removed[k])
  BY <1>2, <1>5 DEF IsDelta, Delivered
<1>6. QED
  BY <1>4, <1>5

(* What is in the delta was put to the model by one chunk, and answered.   *)
LEMMA ChunksShow ==
  ASSUME Inv, pc = "done", result.decision # "inconclusive", chunked,
         NEW i, NEW hunks, Delivered(i, hunks), NEW h \in DOMAIN hunks,
         NEW p \in 0..(hunks[h].len - 1)
  PROVE  Covered(i, h, p)
<1>1. prompts = ThePrompts /\ task = TheTask /\ job \in Submissions /\ BundleInv
  BY DEF Inv, TaskInv
<1>2. PICK items \in Seq(Evidence) : items = EvidenceItems(files, bundle, task)
  BY <1>1, ItemsAre
<1>3. prompts = ComplianceChunks(items, job.chars) /\ job.chars \in Nat
  BY <1>1, <1>2, RestOfJob DEF ThePrompts
<1>4. PICK x \in DOMAIN items :
        items[x].path = i /\ items[x].hunk = h /\ items[x].text = hunks[h] /\ Alone(items, x)
  <2>1. Itemizes(items, task.delta.files)
    BY <1>1, <1>2, ItemsAre
  <2>2. QED
    BY <2>1 DEF Itemizes, Delivered
<1>5. HeldOnce(prompts, i, h, p)
  <2>1. p \in 0..(items[x].text.len - 1)
    BY <1>4
  <2>2. HeldOnce(ComplianceChunks(items, job.chars), items[x].path, items[x].hunk, p)
    BY <1>3, <1>4, <2>1, ChunksAre
  <2>3. QED
    BY <1>3, <1>4, <2>2
<1>6. PICK c \in DOMAIN prompts : \E q \in DOMAIN prompts[c] :
        /\ Holds(prompts[c][q], i, h, p)
        /\ \A d \in DOMAIN prompts : \A o \in DOMAIN prompts[d] :
             Holds(prompts[d][o], i, h, p) => d = c /\ o = q
  BY <1>5 DEF HeldOnce
<1>7. PICK q \in DOMAIN prompts[c] :
        /\ Holds(prompts[c][q], i, h, p)
        /\ \A d \in DOMAIN prompts : \A o \in DOMAIN prompts[d] :
             Holds(prompts[d][o], i, h, p) => d = c /\ o = q
  BY <1>6
<1>8. ASSUME NEW z \in PartsWith(i, h, p) PROVE z = <<c, q>>
  <2>1. PICK d \in DOMAIN prompts : z \in {d} \X DOMAIN prompts[d]
    BY DEF PartsWith
  <2>2. PICK o \in DOMAIN prompts[d] : z = <<d, o>>
    BY <2>1
  <2>3. Holds(prompts[d][o], i, h, p)
    BY <2>2 DEF PartsWith, PartAt, Holds
  <2>4. QED
    BY <1>7, <2>2, <2>3
<1>9. <<c, q>> \in PartsWith(i, h, p)
  <2>1. <<c, q>> \in UNION {{d} \X DOMAIN prompts[d] : d \in DOMAIN prompts}
    BY <1>6, <1>7
  <2>2. PartAt(<<c, q>>) = prompts[c][q]
    BY DEF PartAt
  <2>3. QED
    BY <1>7, <2>1, <2>2 DEF PartsWith, Holds
<1>10. PartsWith(i, h, p) = {<<c, q>>}
  BY <1>8, <1>9
<1>11. Cardinality({<<c, q>>}) = 1
  BY FS_Singleton
<1>12. outcomes[c].decision \in {"compliant", "violation"}
  BY <1>6, ConclusiveOutcomes
<1>13. QED
  BY <1>10, <1>11, <1>12 DEF Covered


-----------------------------------------------------------------------------
(* The bounded strategy.                                                   *)

(* What the one prompt of the bounded strategy shows.                      *)
LEMMA BoundedPrompt ==
  ASSUME Inv, ~chunked, pc \in {"ask", "done"},
         NEW max, max = DeltaBudget(job.document, job.definition, job.chars)
  PROVE  /\ DOMAIN prompts[1] = DOMAIN task.delta.files
         /\ max \in Nat \ {0}
         /\ UsedOf(prompts[1]) <= max + Len(task.delta.files)
         /\ \A k \in DOMAIN task.delta.files :
              /\ Pays(prompts[1][k], task.delta.files[k])
              /\ prompts[1][k].budget < FileItems(task.delta)[k].size =>
                   UsedOf(prompts[1]) >= max
<1>1. prompts = ThePrompts /\ task = TheTask /\ job \in Submissions /\ BundleInv
  BY DEF Inv, TaskInv
<1>2. PICK payload : payload = DeltaPayload(task.delta, max)
  OBVIOUS
<1>3. prompts[1] = payload
  <2>1. prompts = <<payload>>
    BY <1>1, <1>2 DEF ThePrompts
  <2>2. QED
    BY <2>1
<1>4. task.delta.files \in Seq(DeltaFile)
  BY <1>1, TaskIs DEF IsTask, IsDelta
<1>5. max \in Nat \ {0}
  <2>1. job.document \in Nat /\ job.definition \in Nat /\ job.chars \in Nat
    BY <1>1, RestOfJob
  <2>2. {DocumentCap, DefinitionCap} \subseteq Nat
    BY PromptConstants
  <2>3. \A a, b, c \in Nat : Min({a, b, c}) \in Nat
    <3>1. ASSUME NEW a \in Nat, NEW b \in Nat, NEW c \in Nat PROVE Min({a, b, c}) \in Nat
      <4>1. PICK S : S = {a, b, c}
        OBVIOUS
      <4>2. S \subseteq Nat /\ S # {} /\ S \subseteq Int /\ 0 \in Int /\ \A x \in S : 0 <= x
        BY <4>1
      <4>3. Min(S) \in S
        BY <4>2, MinIs
      <4>4. QED
        BY <4>1, <4>2, <4>3
    <3>2. QED
      BY <3>1
  <2>4. DocumentBudget(job.document, job.chars) \in Nat
    <3>1. PICK third \in Nat : third = job.chars \div 3
      BY <2>1
    <3>2. Min({job.document, DocumentCap, third}) \in Nat
      BY <2>1, <2>2, <2>3
    <3>3. QED
      BY <3>1, <3>2, MaxOfTwo DEF DocumentBudget
  <2>5. DefinitionBudget(job.definition, job.chars) \in Nat
    <3>1. PICK part \in Nat : part = job.chars \div 8
      BY <2>1
    <3>2. Min({job.definition, DefinitionCap, part}) \in Nat
      BY <2>1, <2>2, <2>3
    <3>3. QED
      BY <3>1, <3>2, MaxOfTwo DEF DefinitionBudget
  <2>6. PICK left \in Int :
          left = job.chars - DocumentBudget(job.document, job.chars)
                           - DefinitionBudget(job.definition, job.chars)
    BY <2>1, <2>4, <2>5
  <2>7. PICK rest \in Nat : rest = Max({2, left})
    BY MaxOfTwo
  <2>8. (rest * 2) \div 3 \in Int
    OBVIOUS
  <2>9. PICK d \in Int : d = (rest * 2) \div 3
    BY <2>8
  <2>10. max = Max({1, d})
    BY <2>6, <2>7, <2>9 DEF DeltaBudget
  <2>11. QED
    BY <2>10, MaxOfTwo
<1>6. /\ DOMAIN payload = DOMAIN task.delta.files
      /\ UsedOf(payload) <= max + Len(task.delta.files)
      /\ \A k \in DOMAIN task.delta.files :
           /\ Pays(payload[k], task.delta.files[k])
           /\ payload[k].budget < FileItems(task.delta)[k].size => UsedOf(payload) >= max
  BY <1>2, <1>4, <1>5, PayloadIs
<1>7. QED
  BY <1>3, <1>5, <1>6

(* The budgets of the bounded prompt are spent where there is use for      *)
(* them, and exceeded by one character for each file at most.              *)
THEOREM BudgetsAreSpent == Spec => []CutsOnlyWhenFull
<1>1. ASSUME Inv PROVE CutsOnlyWhenFull
  <2>1. SUFFICES ASSUME ~chunked, pc = "ask" PROVE CutsOnlyWhenFull
    BY DEF CutsOnlyWhenFull
  <2>2. PICK max : max = DeltaBudget(job.document, job.definition, job.chars)
    OBVIOUS
  <2>3. PICK shown : shown = prompts[1]
    OBVIOUS
  <2>4. PICK f : f = task.delta.files
    OBVIOUS
  <2>5. /\ DOMAIN shown = DOMAIN f
        /\ UsedOf(shown) <= max + Len(f)
        /\ \A k \in DOMAIN f :
             /\ Pays(shown[k], f[k])
             /\ shown[k].budget < FileItems(task.delta)[k].size => UsedOf(shown) >= max
    BY <1>1, <2>1, <2>2, <2>3, <2>4, BoundedPrompt
  <2>6. ASSUME NEW k \in DOMAIN f, NEW h \in DOMAIN f[k].hunks,
               CutShort(f[k].hunks[h].len, shown[k].hunks[h])
        PROVE  TotalOf(shown[k].hunks) >= shown[k].budget
    <3>1. /\ shown[k].hunks[h] \in Nat /\ shown[k].hunks[h] >= 1 /\ f[k].hunks[h].len \in Nat
          /\ shown[k].hunks[h] < f[k].hunks[h].len => TotalOf(shown[k].hunks) >= shown[k].budget
      BY <2>5, <2>6 DEF Pays
    <3>2. shown[k].hunks[h] < f[k].hunks[h].len
      BY <2>6, <3>1, MaxOfTwo DEF CutShort
    <3>3. QED
      BY <3>1, <3>2
  <2>7. QED
    BY <2>2, <2>3, <2>4, <2>5, <2>6 DEF CutsOnlyWhenFull, UsedOf
<1>2. Inv => CutsOnlyWhenFull
  BY <1>1
<1>3. QED
  BY <1>2, Invariance, PTL

(* A hunk that is delivered is in the one prompt in full.                  *)
LEMMA PromptShows ==
  ASSUME Inv, pc = "done", ~chunked, ~EvidenceIncomplete,
         NEW i, NEW hunks, Delivered(i, hunks), NEW h \in DOMAIN hunks
  PROVE  InFull(i, h, hunks[h].len)
<1>1. PICK k \in DOMAIN task.delta.files :
        task.delta.files[k].path = i /\ task.delta.files[k].hunks = hunks
  BY DEF Delivered
<1>2. DOMAIN prompts[1] = DOMAIN task.delta.files /\ Pays(prompts[1][k], task.delta.files[k])
  BY <1>1, BoundedPrompt
<1>3. /\ prompts[1][k].hunks[h] \in Nat /\ prompts[1][k].hunks[h] >= 1
      /\ hunks[h].len \in Nat /\ DOMAIN prompts[1][k].hunks = DOMAIN hunks
  BY <1>1, <1>2 DEF Pays
<1>4. ~CutShort(hunks[h].len, prompts[1][k].hunks[h])
  <2>1. ~PromptIncomplete(job.document, job.definition, task.delta, prompts[1], job.chars)
    BY DEF EvidenceIncomplete
  <2>2. QED
    BY <1>1, <1>2, <1>3, <2>1 DEF PromptIncomplete
<1>5. prompts[1][k].hunks[h] >= hunks[h].len
  BY <1>3, <1>4, MaxOfTwo DEF CutShort
<1>6. QED
  BY <1>1, <1>5 DEF InFull

(* A review that reaches a conclusion stands on this evidence: no file but *)
(* the input file was cut; every file that takes part in a run, with the   *)
(* headers that are included and the assets, was read as a whole, and      *)
(* every character of the changes was put to the model once and answered   *)
(* conclusively.                                                           *)
THEOREM ConclusionsStandOnAll == Spec => []ConclusiveMeansAllSeen
<1>1. ASSUME Inv, pc = "done", result.decision # "inconclusive", NEW i, NEW hunks,
             Delivered(i, hunks)
      PROVE  Shown(i, hunks)
  <2>1. ~EvidenceIncomplete
    BY <1>1, ConclusiveIsComplete
  <2>2. CASE chunked
    <3>1. ASSUME NEW h \in DOMAIN hunks, NEW p \in 0..(hunks[h].len - 1)
          PROVE  Covered(i, h, p)
      BY <1>1, <2>2, <3>1, ChunksShow
    <3>2. QED
      BY <2>2, <3>1 DEF Shown
  <2>3. CASE ~chunked
    <3>1. ASSUME NEW h \in DOMAIN hunks PROVE InFull(i, h, hunks[h].len)
      BY <1>1, <2>1, <2>3, <3>1, PromptShows
    <3>2. QED
      BY <2>3, <3>1 DEF Shown
  <2>4. QED
    BY <2>2, <2>3
<1>2. ASSUME Inv, pc = "done", result.decision # "inconclusive", NEW i \in Executed({"header"})
      PROVE  bundle[i].read = files[i].text.len /\ Shown(i, ChangesOf(i))
  <2>1. ~EvidenceIncomplete
    BY <1>2, ConclusiveIsComplete
  <2>2. i \in task.scope
    BY <1>2, ScopeHolds
  <2>3. bundle[i].read = files[i].text.len
    BY <1>2, <2>1, <2>2, AllRead
  <2>4. PICK hunks : hunks = ChangesOf(i)
    OBVIOUS
  <2>5. CASE hunks = <<>>
    <3>1. DOMAIN hunks = {}
      BY <2>5
    <3>2. QED
      BY <2>3, <2>4, <3>1 DEF Shown
  <2>6. CASE hunks # <<>>
    <3>1. Delivered(i, hunks)
      BY <1>2, <2>1, <2>2, <2>4, <2>6, ChangesAreDelivered
    <3>2. Shown(i, hunks)
      BY <1>1, <1>2, <3>1
    <3>3. QED
      BY <2>3, <2>4, <3>2
  <2>7. QED
    BY <2>5, <2>6
<1>3. ASSUME Inv, pc = "done", result.decision # "inconclusive", ~job.lab4,
             NEW k \in DOMAIN job.removed
      PROVE  Shown(Len(files) + k, job.removed[k])
  <2>1. Delivered(Len(files) + k, job.removed[k])
    BY <1>3, ConclusiveIsComplete, ChangesAreDelivered
  <2>2. QED
    BY <1>1, <1>3, <2>1
<1>4. ASSUME Inv, pc = "done", result.decision # "inconclusive", NEW i \in Truncated(bundle)
      PROVE  files[i].kind = "input"
  <2>1. SUFFICES ASSUME files[i].kind # "input" PROVE FALSE
    OBVIOUS
  <2>2. i \in DOMAIN bundle /\ bundle[i].truncated /\ Truncated(bundle) # {}
    BY <1>4 DEF Truncated
  <2>3. i \in task.scope
    BY <1>4, <2>1, <2>2, ScopeHolds
  <2>4. QED
    BY <1>4, <2>2, <2>3, ConclusiveIsComplete, AllRead
<1>5. Inv => ConclusiveMeansAllSeen
  BY <1>2, <1>3, <1>4 DEF ConclusiveMeansAllSeen, Concluded
<1>6. QED
  BY <1>5, Invariance, PTL
=============================================================================
