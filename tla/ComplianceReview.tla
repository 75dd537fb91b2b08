-------------------------- MODULE ComplianceReview --------------------------
(***************************************************************************)
(* One compliance review by OpenAICompatibleReviewer (reviewer.py), from   *)
(* the files of the submission to the verdict: the files are read one by   *)
(* one, the evidence is chosen and put into prompts, each prompt is sent   *)
(* until it is answered or has failed, and the answers become one verdict. *)
(* The model may answer anything, the network may fail at every call.      *)
(***************************************************************************)
EXTENDS PromptEvidence

CONSTANTS
  MaxAttempts, \* calls per prompt
  Submissions, \* what can be reviewed, and how
  Replies      \* what the model can answer

TextOK(t) == t.len \in Nat /\ t.lines \subseteq 0..(t.len - 1)

Hunks(h) == h \in Seq([len : Nat, lines : SUBSET Nat]) /\ \A k \in DOMAIN h : TextOK(h[k])

FileOK(f, count) ==
  /\ f.kind \in {"script", "fragment", "compiled", "header", "asset", "artifact", "input", "other"}
  /\ {f.source, f.there, f.critical} \subseteq BOOLEAN
  /\ TextOK(f.text)
  /\ UNION {f.names, f.literals, f.includes} \subseteq 1..count
  /\ f.styles \subseteq {"dynamic", "variable", "cd"}
  /\ "addition" \in DOMAIN f.hunks /\ DOMAIN f.hunks \subseteq {"addition", "course", "public"}
  /\ \A b \in DOMAIN f.hunks : Hunks(f.hunks[b])

JobOK(j) ==
  /\ j.files \in Seq(Range(j.files)) /\ j.removed \in Seq(Range(j.removed))
  /\ \A i \in DOMAIN j.files : FileOK(j.files[i], Len(j.files))
  /\ {j.lab.file, j.lab.total, j.document, j.definition, j.chars} \subseteq Nat
  /\ j.lab4 \in BOOLEAN /\ j.strategy \in {"chunked-v1", "bounded-v2"}
  /\ \A k \in DOMAIN j.removed : Hunks(j.removed[k])

(* A verdict that is well-formed has one of the three decisions.           *)
VerdictOK(v) ==
  /\ v.wellFormed \in BOOLEAN
  /\ v.wellFormed => v.decision \in {"compliant", "violation", "inconclusive"}
  /\ v.violations \in Seq(Range(v.violations))

ReplyOK(r) ==
  \A texts \in {r.content, r.reasoning} :
    texts \in Seq(Range(texts)) /\ \A i \in DOMAIN texts : VerdictOK(texts[i])

ASSUME ReviewConstants ==
  /\ MaxAttempts \in Nat \ {0}
  /\ \A j \in Submissions : JobOK(j)
  /\ \A r \in Replies : ReplyOK(r)

VARIABLES
  job,      \* the submission and the parameters of its review; never changes
  pc,       \* "read", "prompt", "ask", "done" or "failed"
  entry,    \* the file to be read next
  bundle,   \* what was read of each file
  task,     \* the scope and the delta
  prompts,  \* chunked: the parts in each; bounded: the one budget
  attempt,  \* calls for the current prompt
  sent,     \* calls in all
  outcomes, \* per prompt that is over: a verdict or Failed
  result    \* the verdict returned

vars == <<job, pc, entry, bundle, task, prompts, attempt, sent, outcomes, result>>

files == job.files
chunked == job.strategy = "chunked-v1"

Failed   == [decision |-> "failed", violations |-> <<>>]
NoResult == [decision |-> "none", violations |-> <<>>]
NoTask   == [scope |-> {}, delta |-> [files |-> <<>>, incomplete |-> FALSE]]

Init ==
  /\ job \in Submissions
  /\ pc = "read" /\ entry = 1 /\ bundle = <<>>
  /\ task = NoTask /\ prompts = <<>>
  /\ attempt = 0 /\ sent = 0 /\ outcomes = <<>> /\ result = NoResult

-----------------------------------------------------------------------------
(* NfsSubmissionStore.load_bundle.  A file that is not source code is not  *)
(* opened; one that cannot be opened in any root ends the review, even if  *)
(* nothing of it would be read.                                            *)

Pass(next) ==
  /\ entry' = entry + 1
  /\ pc' = next
  /\ UNCHANGED <<job, task, prompts, attempt, sent, outcomes, result>>

SkipFile ==
  /\ pc = "read" /\ entry <= Len(files) /\ ~files[entry].source
  /\ Pass("read") /\ UNCHANGED bundle

LoadFile ==
  /\ pc = "read" /\ entry <= Len(files) /\ files[entry].source
  /\ IF files[entry].there
       THEN /\ bundle' =
                 [i \in DOMAIN bundle \cup {entry} |->
                    IF i = entry
                      THEN ReadFile(files[entry].text.len, EffectiveLimits(job.lab),
                                    BytesRead(bundle))
                      ELSE bundle[i]]
            /\ Pass("read")
       ELSE Pass("failed") /\ UNCHANGED bundle

(* The task (AuditRunner) ...                                              *)
BuildTask ==
  /\ pc = "read" /\ entry > Len(files)
  /\ task' = ReviewScope(job.lab4, files, bundle, job.removed)
  /\ pc' = "prompt"
  /\ UNCHANGED <<job, entry, bundle, prompts, attempt, sent, outcomes, result>>

(* ... and its prompts (review).                                           *)
BuildPrompts ==
  /\ pc = "prompt"
  /\ prompts' =
       IF chunked
         THEN ComplianceChunks(EvidenceItems(files, bundle, task), job.chars)
         ELSE <<DeltaPayload(task.delta,
                  DeltaBudget(job.document, job.definition, job.chars))>>
  /\ pc' = "ask"
  /\ UNCHANGED <<job, entry, bundle, task, attempt, sent, outcomes, result>>

(* Only the bounded strategy can have cut the evidence itself.             *)
EvidenceIncomplete ==
  \/ task.delta.incomplete
  \/ ~chunked /\ PromptIncomplete(job.document, job.definition, task.delta, prompts[1], job.chars)

-----------------------------------------------------------------------------
(* Calls.                                                                  *)

Asking == pc = "ask" /\ Len(outcomes) < Len(prompts)

Settle(outcome) ==
  /\ outcomes' = Append(outcomes, outcome)
  /\ attempt' = 0 /\ sent' = sent + 1
  /\ UNCHANGED <<job, entry, bundle, task, prompts, result>>

(* A failed prompt is one of the chunks without an answer, or ends the     *)
(* bounded review.                                                         *)
PromptFails ==
  /\ Settle(Failed)
  /\ pc' = IF chunked THEN "ask" ELSE "failed"

(* The answer holds a valid verdict or it does not; neither is retried.    *)
Answered(reply) ==
  LET valid == ValidVerdicts(reply, EvidenceIncomplete)
      first == Objects(reply)[Min(valid)]
  IN  /\ Asking
      /\ IF valid # {}
           THEN /\ Settle([decision |-> first.decision, violations |-> first.violations])
                /\ UNCHANGED pc
           ELSE PromptFails

Retry ==
  /\ attempt' = attempt + 1 /\ sent' = sent + 1
  /\ UNCHANGED <<job, pc, entry, bundle, task, prompts, outcomes, result>>

(* Mutant of Transient: no end to the attempts.                            *)
TransientForEver ==
  /\ Asking
  /\ attempt' = (attempt + 1) % MaxAttempts
  /\ UNCHANGED <<job, pc, entry, bundle, task, prompts, sent, outcomes, result>>

(* Mutant of Transient: one attempt too many.                              *)
TransientOnceMore == Asking /\ IF attempt + 1 <= MaxAttempts THEN Retry ELSE PromptFails

(* No connection, a timeout, or status 408, 429 or 5xx.                    *)
Transient == Asking /\ IF attempt + 1 < MaxAttempts THEN Retry ELSE PromptFails

(* Another status, or a stream that is not JSON.                           *)
Refused == Asking /\ PromptFails

(* Errors that complete does not translate, such as a connection closed in *)
(* the middle of a response, pass through every handler of the review.     *)
Broken ==
  /\ Asking
  /\ pc' = "failed" /\ sent' = sent + 1
  /\ UNCHANGED <<job, entry, bundle, task, prompts, attempt, outcomes, result>>

Conclude ==
  /\ pc = "ask" /\ Len(outcomes) = Len(prompts)
  /\ result' =
       IF chunked
         THEN MergeVerdicts(AtPositions(outcomes, {c \in DOMAIN outcomes : outcomes[c] # Failed}),
                            Len(prompts))
         ELSE outcomes[1]
  /\ pc' = "done"
  /\ UNCHANGED <<job, entry, bundle, task, prompts, attempt, sent, outcomes>>

Next ==
  \/ SkipFile \/ LoadFile \/ BuildTask \/ BuildPrompts
  \/ \E reply \in Replies : Answered(reply)
  \/ Transient \/ Refused \/ Broken
  \/ Conclude

Spec == Init /\ [][Next]_vars

(* A call ends by its answer or by the timeout of its socket.              *)
FairSpec == Spec /\ WF_vars(Next)

-----------------------------------------------------------------------------
(* Properties.                                                             *)

(* The state is of the right kind: calls within the attempts, and one      *)
(* outcome per prompt.                                                     *)
TypeOK ==
  /\ pc \in {"read", "prompt", "ask", "done", "failed"}
  /\ entry \in 1..(Len(files) + 1)
  /\ DOMAIN bundle \subseteq DOMAIN files
  /\ \A i \in DOMAIN bundle : bundle[i] \in [read : Nat, truncated : BOOLEAN]
  /\ task.scope \subseteq DOMAIN bundle
  /\ attempt \in 0..(MaxAttempts - 1)
  /\ sent \in 0..(MaxAttempts * Len(prompts))
  /\ Len(outcomes) <= Len(prompts)
  /\ \A c \in DOMAIN outcomes :
       outcomes[c].decision \in {"compliant", "violation", "inconclusive", "failed"}
  /\ result.decision \in {"compliant", "violation", "inconclusive", "none"}

(* The total budget holds over all files together, and a file of which     *)
(* something is missing is never taken for a whole one: what is kept of a  *)
(* file that is not marked as truncated is all of it.                      *)
BundleAccountsForFiles ==
  /\ BytesRead(bundle) <= EffectiveLimits(job.lab).total
  /\ \A i \in DOMAIN bundle : bundle[i].truncated \/ bundle[i].read = files[i].text.len

(* What takes part in a run: all source files, or in Lab 4 the smallest    *)
(* set that has the scripts, the sources they build and whatever files of  *)
(* these kinds a member includes ...                                       *)
Closed(S, kinds) ==
  \A j \in S : \A i \in files[j].includes :
    files[j].kind \in IsCode /\ files[i].kind \in kinds /\ files[i].source => i \in S

Source == {i \in DOMAIN files : files[i].source}

Compiled(kinds) ==
  LET built  == BuildInputs(files, [i \in Source |-> i])
      closed == {S \in SUBSET Source : built \subseteq S /\ Closed(S, kinds)}
  IN  {i \in Source : \A S \in closed : i \in S}

(* ... with the files under src that a script names, makes up a name for,  *)
(* or, if it enters src, finds by a name that a member mentions.           *)
Assets(S) ==
  LET scripts == {j \in Source : files[j].kind \in {"script", "fragment"}}
      Some(style) == \E j \in scripts : style \in files[j].styles
  IN  {i \in Source : files[i].kind \in InSrc /\
         \/ \E j \in scripts : i \in files[j].literals
         \/ Some("variable") /\ files[i].kind \in NotCode
         \/ Some("cd") /\ \E j \in S : i \in files[j].names \cup files[j].includes}

Executed(kinds) ==
  LET compiled == Compiled(kinds)
  IN  IF job.lab4 THEN compiled \cup Assets(compiled) ELSE Source

(* The changes of file i that a review is about.  What the course fixes is *)
(* always compared with the course.                                        *)
ChangesOf(i) ==
  LET f == files[i]
  IN  IF "course" \in DOMAIN f.hunks /\ (~job.lab4 \/ f.kind \notin InSrc \/ f.critical)
        THEN f.hunks["course"]
        ELSE f.hunks[SelectedBaseline(f,
                       job.lab4 /\ SelectReference(files, bundle, task.scope))]

(* The parts with character p of hunk h of file i in their core, as places *)
(* <<chunk, position>> in the prompts.                                     *)
PartAt(x) == prompts[x[1]][x[2]]

PartsWith(i, h, p) ==
  {x \in UNION {{c} \X DOMAIN prompts[c] : c \in DOMAIN prompts} :
     /\ PartAt(x).path = i /\ PartAt(x).hunk = h
     /\ PartAt(x).core[1] <= p /\ p < PartAt(x).core[2]}

(* There is one, and its prompt has a conclusive answer.                   *)
Covered(i, h, p) ==
  /\ Cardinality(PartsWith(i, h, p)) = 1
  /\ \A x \in PartsWith(i, h, p) : outcomes[x[1]].decision \in {"compliant", "violation"}

(* Hunk h of file i is in the one prompt in full.                          *)
InFull(i, h, len) ==
  \E k \in DOMAIN task.delta.files :
    task.delta.files[k].path = i /\ prompts[1][k].hunks[h] >= len

Shown(i, hunks) ==
  \A h \in DOMAIN hunks :
    IF chunked THEN \A p \in 0..(hunks[h].len - 1) : Covered(i, h, p)
               ELSE InFull(i, h, hunks[h].len)

(* The conclusion that is returned, if there is one.                       *)
Concluded == pc = "done" /\ result.decision # "inconclusive"

(* A review that reaches a conclusion stands on this evidence: no file was *)
(* cut, executed or not, except the input file; every file that takes part *)
(* in a run, of included files the headers, was read as a whole, and every *)
(* character of its changes, and of the deletions, was put to the model    *)
(* once and answered conclusively, whatever was cut, split, packed,        *)
(* refused or lost on the way.                                             *)
ConclusiveMeansAllSeen ==
  Concluded =>
    /\ \A i \in Truncated(bundle) : files[i].kind = "input"
    /\ \A i \in Executed({"header"}) :
         bundle[i].read = files[i].text.len /\ Shown(i, ChangesOf(i))
    /\ ~job.lab4 => \A k \in DOMAIN job.removed : Shown(Len(files) + k, job.removed[k])

(* The policy that the model is given says that its evidence has the       *)
(* recursive closure of local includes (review_scope.py:73): sources that  *)
(* are included by sources belong to it as headers do.                     *)
IncludeClosureIsSeen ==
  Concluded => \A i \in Executed(IsCode) : Shown(i, ChangesOf(i))

(* Merging loses no violation that any chunk reported, invents none, lists *)
(* none twice, and finds a submission compliant only if every chunk was    *)
(* answered so.                                                            *)
MergeLosesNothing ==
  pc = "done" =>
    /\ ToSet(result.violations) = UNION {ToSet(outcomes[c].violations) : c \in DOMAIN outcomes}
    /\ chunked => IsInjective(result.violations)
    /\ result.decision = "compliant" =>
         \A c \in DOMAIN prompts : outcomes[c].decision = "compliant"

(* The chunks are as few and as large as the limit allows.  Chunk c, sent  *)
(* as one of so many, keeps to the limit if it has several parts, but for  *)
(* the digits of four numbers, which packing took to have one digit each;  *)
(* a part has at most half the limit of text or the floor; and no chunk    *)
(* had room for the first part of the next.                                *)
ChunksFit ==
  chunked /\ pc = "ask" /\ outcomes = <<>> =>
    \A c \in DOMAIN prompts :
      /\ Len(prompts[c]) > 1 =>
           PromptChars(prompts[c], c - 1, Len(prompts))
             <= job.chars + 4 * (Digits(Len(prompts)) - 1)
      /\ \A q \in DOMAIN prompts[c] : prompts[c][q].chars <= PartLimit(job.chars)
      /\ c > 1 => ChunkPromptChars(Append(prompts[c - 1], prompts[c][1])) > job.chars

(* The budgets of the bounded prompt are spent where there is use for      *)
(* them: a file is cut short only when the budget of the delta is used up, *)
(* a hunk only when that of its file is; and they are exceeded by at most  *)
(* one character for each file, the least that is always shown.            *)
CutsOnlyWhenFull ==
  ~chunked /\ pc = "ask" =>
    LET max  == DeltaBudget(job.document, job.definition, job.chars)
        f    == task.delta.files
        shown == prompts[1]
        used == TotalOf([k \in DOMAIN shown |-> shown[k].budget])
    IN  /\ used <= max + Len(f)
        /\ \A k \in DOMAIN f :
             /\ shown[k].budget < FileItems(task.delta)[k].size => used >= max
             /\ \A h \in DOMAIN f[k].hunks :
                  CutShort(f[k].hunks[h].len, shown[k].hunks[h]) =>
                    TotalOf(shown[k].hunks) >= shown[k].budget

(* Every review ends, with a verdict or an error, whatever is answered.    *)
ReviewEnds == <>(pc \in {"done", "failed"})

=============================================================================
