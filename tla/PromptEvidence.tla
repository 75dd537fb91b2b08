--------------------------- MODULE PromptEvidence ---------------------------
(***************************************************************************)
(* How a delta becomes prompts (reviewer.py): cut to a budget of           *)
(* characters, or split into parts that are packed into several prompts;   *)
(* and what is made of the answers to several prompts.                     *)
(***************************************************************************)
EXTENDS SourceEvidence

CONSTANTS
  PartFloor,   \* 16000: a part may be so long however small the chunks
  ContextCap,  \* 6000: the longest context of a part on either side
  Envelope,    \* characters of a prompt without evidence and numbers
  Powers,      \* 10, 100, 1000, ...: where a number gets one more digit
  ItemChars,   \* characters of an item of evidence without its text
  DocumentCap, DefinitionCap \* 80000 and 30000

ASSUME PromptConstants ==
  /\ {ContextCap, Envelope, ItemChars, DocumentCap, DefinitionCap} \subseteq Nat
  /\ PartFloor \in Nat \ {0}
  /\ IsFiniteSet(Powers) /\ Powers \subseteq Nat \ 0..2

TotalOf(s) == SumFunction(s)

-----------------------------------------------------------------------------
(* Budgets (_allocate_budgets).  An item has a size and a priority.  Every *)
(* item gets its share by weight, at least 1 and at most its size; what is *)
(* left is dealt out one by one, the most important and largest first.     *)

Weight(item) == Max({item.size, 1}) * Max({item.priority, 1})

Shares(items, max) ==
  LET total == TotalOf([i \in DOMAIN items |-> Weight(items[i])])
  IN  [i \in DOMAIN items |->
         Min({items[i].size, Max({1, (max * Weight(items[i])) \div total})})]

Before(items, i, j) ==
  \/ items[i].priority > items[j].priority
  \/ items[i].priority = items[j].priority /\ items[i].size > items[j].size
  \/ items[i].priority = items[j].priority /\ items[i].size = items[j].size /\ i < j

(* A round gives one more to every item that is not complete, as long as   *)
(* something is left.                                                      *)
Unfilled(items, budgets) == {i \in DOMAIN items : budgets[i] < items[i].size}

Ahead(items, S, i) == {j \in S : Before(items, j, i)}

Round(items, budgets, left) ==
  LET unfilled == Unfilled(items, budgets)
  IN  [i \in DOMAIN items |->
         IF i \in unfilled /\ Cardinality(Ahead(items, unfilled, i)) < left
           THEN budgets[i] + 1 ELSE budgets[i]]

Deal(items, shares, rest) ==
  LET deal[s \in [budgets : [DOMAIN items -> Nat], left : Int]] ==
        IF s.left <= 0 \/ Unfilled(items, s.budgets) = {} THEN s.budgets
        ELSE deal[[budgets |-> Round(items, s.budgets, s.left),
                   left |-> s.left - Cardinality(Unfilled(items, s.budgets))]]
  IN  deal[[budgets |-> shares, left |-> rest]]

Item == [size : Nat, priority : Nat]

(* Mutant of AllocateBudgets: what rounding leaves over is not dealt out.  *)
AllocateBudgetsRounded(items, max) ==
  IF items = <<>> THEN <<>> ELSE Shares(items, Max({1, max}))

Allocated(items, max) ==
  LET deal[shares \in [DOMAIN items -> Nat]] == Deal(items, shares, max - TotalOf(shares))
  IN  deal[Shares(items, max)]

AllocateBudgets(items, max) ==
  LET allocate[i \in Seq(Item)] == Allocated(i, Max({1, max}))
  IN  IF items = <<>> THEN <<>> ELSE allocate[items]

HunkItems(file) ==
  [h \in DOMAIN file.hunks |-> [size |-> Max({file.hunks[h].len, 1}), priority |-> 1]]

(* Copies an editor or a patch leaves behind come last.                    *)
Priority(kind) == CASE kind = "script" -> 4 [] kind = "artifact" -> 1 [] OTHER -> 2

FileItems(delta) ==
  [k \in DOMAIN delta.files |->
     [size |-> Max({TotalOf([h \in DOMAIN delta.files[k].hunks |-> delta.files[k].hunks[h].len]), 1}),
      priority |-> Priority(delta.files[k].kind)]]

(* Per file of the delta its budget and those of its hunks.                *)
DeltaPayload(delta, max) ==
  LET payload[budgets \in Seq(Nat)] ==
        [k \in DOMAIN delta.files |->
           [budget |-> budgets[k],
            hunks |-> AllocateBudgets(HunkItems(delta.files[k]), budgets[k])]]
  IN  payload[AllocateBudgets(FileItems(delta), max)]

CutShort(len, budget) == len > Max({1, budget})

(* The one prompt of the bounded strategy: document, lab definition and    *)
(* delta share "max" characters.                                           *)
DocumentBudget(doc, max) == Max({1, Min({doc, DocumentCap, max \div 3})})
DefinitionBudget(def, max) == Max({1, Min({def, DefinitionCap, max \div 8})})
DeltaBudget(doc, def, max) ==
  LET rest == Max({2, max - DocumentBudget(doc, max) - DefinitionBudget(def, max)})
  IN  Max({1, (rest * 2) \div 3})

PromptIncomplete(doc, def, delta, payload, max) ==
  \/ CutShort(doc, DocumentBudget(doc, max)) \/ CutShort(def, DefinitionBudget(def, max))
  \/ \E k \in DOMAIN payload : \E h \in DOMAIN payload[k].hunks :
       CutShort(delta.files[k].hunks[h].len, payload[k].hunks[h])

-----------------------------------------------------------------------------
(* Splitting (_split_evidence_item).  The cores of the parts follow each   *)
(* other; a core ends after the last newline it can hold, if there is one. *)
(* Every part also shows some text before and after its core.              *)

CoreChars(max) == Max({1, max - 2 * Min({ContextCap, max \div 8})})

CoreEnd(text, start, max) ==
  LET proposed == Min({text.len, start + CoreChars(max)})
      breaks   == {n \in text.lines : start <= n /\ n < proposed}
  IN  IF proposed < text.len /\ breaks # {} THEN Max(breaks) + 1 ELSE proposed

PartAround(text, start, end, max) ==
  LET context == Min({ContextCap, max \div 8})
      low     == Max({0, start - context})
      high    == Min({text.len, end + context})
      after   == {n \in text.lines : low <= n /\ n < start}
      before  == {n \in text.lines : end <= n /\ n < high}
  IN  [core |-> <<start, end>>,
       first |-> IF low > 0 /\ after # {} THEN Min(after) + 1 ELSE low,
       last  |-> IF high < text.len /\ before # {} THEN Max(before) + 1 ELSE high]

(* Mutant of SplitEvidenceItem: the loop ends when no full core is left.   *)
SplitEvidenceItemLosesTail(text, max) ==
  IF text.len <= max THEN <<[core |-> <<0, text.len>>, first |-> 0, last |-> text.len]>>
  ELSE LET from[s \in 0..text.len] ==
             IF s + CoreChars(max) > text.len THEN <<>>
             ELSE <<PartAround(text, s, CoreEnd(text, s, max), max)>>
                    \o from[CoreEnd(text, s, max)]
       IN  from[0]

SplitEvidenceItem(text, max) ==
  IF text.len <= max THEN <<[core |-> <<0, text.len>>, first |-> 0, last |-> text.len]>>
  ELSE LET from[s \in 0..text.len] ==
             IF s = text.len THEN <<>>
             ELSE <<PartAround(text, s, CoreEnd(text, s, max), max)>>
                    \o from[CoreEnd(text, s, max)]
       IN  from[0]

-----------------------------------------------------------------------------
(* Packing (_compliance_chunks).  Evidence is every hunk, then the text of *)
(* every script in scope (hunk 0).                                         *)

EvidenceItems(files, bundle, task) ==
  FlattenSeq([k \in DOMAIN task.delta.files |->
    [h \in DOMAIN task.delta.files[k].hunks |->
       [path |-> task.delta.files[k].path, hunk |-> h, text |-> task.delta.files[k].hunks[h]]]])
  \o LET scripts == Sorted({i \in task.scope : files[i].kind = "script"}, Len(files))
     IN  [k \in DOMAIN scripts |->
            [path |-> scripts[k], hunk |-> 0,
             text |-> TextRead(files[scripts[k]], bundle[scripts[k]].read)]]

PartLimit(chunkChars) == Max({PartFloor, chunkChars \div 2})

Parts(items, chunkChars) ==
  FlattenSeq([k \in DOMAIN items |->
    LET split == SplitEvidenceItem(items[k].text, PartLimit(chunkChars))
    IN  [p \in DOMAIN split |->
           [path |-> items[k].path, hunk |-> items[k].hunk, core |-> split[p].core,
            chars |-> split[p].last - split[p].first]]])

(* A prompt says twice which one of how many it is: with its index, and    *)
(* counted from 1.                                                         *)
Digits(n) == 1 + Cardinality({p \in Powers : p <= n})

PromptChars(parts, index, count) ==
  Envelope + Digits(index) + Digits(index + 1) + 2 * Digits(count)
    + TotalOf([p \in DOMAIN parts |-> ItemChars + parts[p].chars])

(* The size that packing asks for: it does not know yet how many prompts   *)
(* there will be.                                                          *)
ChunkPromptChars(parts) == PromptChars(parts, 1, 2)

(* A chunk takes the parts that fit, and one part in any case.             *)
(* Mutant of FirstChunk: the size is asked before the part is added.       *)
FirstChunkLate(parts, chunkChars) ==
  Max({1} \cup {n \in DOMAIN parts : ChunkPromptChars(SubSeq(parts, 1, n - 1)) <= chunkChars})

FirstChunk(parts, chunkChars) ==
  Max({1} \cup {n \in DOMAIN parts : ChunkPromptChars(SubSeq(parts, 1, n)) <= chunkChars})

Part == [path : Nat, hunk : Nat, core : Nat \X Nat, chars : Nat]

(* There is a prompt even if there is no evidence.                         *)
ComplianceChunks(items, chunkChars) ==
  LET pack[parts \in Seq(Part)] ==
        IF parts = <<>> THEN <<>>
        ELSE LET n == FirstChunk(parts, chunkChars)
             IN  <<SubSeq(parts, 1, n)>> \o pack[SubSeq(parts, n + 1, Len(parts))]
  IN  IF items = <<>> THEN <<<<>>>> ELSE pack[Parts(items, chunkChars)]

-----------------------------------------------------------------------------
(* Answers.  A text the model sends is the sequence of JSON objects that   *)
(* can be read from it; the first valid one counts, of the content before  *)
(* the reasoning.                                                          *)

ValidVerdict(v, incomplete) ==
  /\ v.wellFormed
  /\ v.decision = "violation" => v.violations # <<>>
  /\ incomplete => v.decision = "inconclusive"

Objects(reply) == reply.content \o reply.reasoning

ValidVerdicts(reply, incomplete) ==
  {i \in DOMAIN Objects(reply) : ValidVerdict(Objects(reply)[i], incomplete)}

Decisions(verdicts) == {verdicts[i].decision : i \in DOMAIN verdicts}

(* Equal violations are listed once, in the order of the first.            *)
FirstOfEach(s) ==
  LET first[t \in Seq(Range(s))] ==
        AtPositions(t, {i \in DOMAIN t : \A j \in 1..(i - 1) : t[j] # t[i]})
  IN  first[s]

AllViolations(verdicts) ==
  FirstOfEach(FlattenSeq([i \in DOMAIN verdicts |-> verdicts[i].violations]))

(* Mutant of MergedViolations: only those of verdicts that say violation.  *)
MergedViolationsOfViolating(verdicts) ==
  AllViolations(AtPositions(verdicts,
    {i \in DOMAIN verdicts : verdicts[i].decision = "violation"}))

MergedViolations(verdicts) == AllViolations(verdicts)

MergeVerdicts(verdicts, count) ==
  [decision |-> IF Len(verdicts) # count \/ "inconclusive" \in Decisions(verdicts)
                  THEN "inconclusive"
                ELSE IF "violation" \in Decisions(verdicts) THEN "violation" ELSE "compliant",
   violations |-> MergedViolations(verdicts)]

=============================================================================
