--------------------------- MODULE SourceEvidence ---------------------------
(***************************************************************************)
(* What a compliance review gets to see of a submission: the files read    *)
(* within byte budgets (submission_store.py), the part of them that the    *)
(* Lab 4 build executes (review_scope.py), and their changes against a     *)
(* baseline (similarity.py).                                               *)
(*                                                                         *)
(* A submission is the sequence of its declared files, sorted by path.     *)
(* Searches in file texts are relations between files: those a text names  *)
(* (compiled sources, build globs), mentions as literal paths, or includes.*)
(* Differences are given too: per baseline that holds the file, the hunks  *)
(* of the file against it.  A text is its length and the positions of its  *)
(* newlines, from 0.                                                       *)
(***************************************************************************)
EXTENDS Integers, Sequences, FiniteSets, SequencesExt, Functions

CONSTANTS
  PolicyFileBytes, PolicyTotalBytes, \* SourcePolicy
  MinimumFiles, MinimumBytes, MinimumPercent \* for a public origin to be taken

ASSUME SourceConstants ==
  /\ {PolicyFileBytes, PolicyTotalBytes} \subseteq Nat \ {0}
  /\ {MinimumFiles, MinimumBytes} \subseteq Nat \ {0}
  /\ MinimumPercent \in 0..100

-----------------------------------------------------------------------------
(* Reading.  The collection limits frozen with the lab (0 if it has none)  *)
(* can only raise the limits of the policy.                                *)

EffectiveLimits(lab) ==
  [file |-> Max({PolicyFileBytes, lab.file}), total |-> Max({PolicyTotalBytes, lab.total})]

BytesRead(bundle) == SumFunction([i \in DOMAIN bundle |-> bundle[i].read])

(* Mutant of ReadLimit: the total is only checked between files.           *)
ReadLimitOfFile(limits, spent) == limits.file

ReadLimit(limits, spent) == Min({limits.file, limits.total - spent})

(* Once the total is spent a file is only opened, and counts as truncated  *)
(* even if it is empty.                                                    *)
ReadFile(size, limits, spent) ==
  IF limits.total - spent <= 0
    THEN [read |-> 0, truncated |-> TRUE]
    ELSE LET limit == ReadLimit(limits, spent)
         IN  [read |-> Min({size, limit}), truncated |-> size > limit]

Truncated(bundle) == {i \in DOMAIN bundle : bundle[i].truncated}

TextRead(file, read) ==
  [len |-> read, lines |-> {n \in file.text.lines : n < read}]

-----------------------------------------------------------------------------
(* The execution scope of Lab 4.  A bundle maps each file that was read to *)
(* what was read of it.                                                    *)

OfKind(files, bundle, kinds) == {i \in DOMAIN bundle : files[i].kind \in kinds}
IsCode == {"compiled", "header"}
NotCode == {"asset", "artifact"}
InSrc  == IsCode \cup NotCode

(* Only headers are followed: an included source file is not.              *)
AddIncludes(files, bundle, included) ==
  included \cup
    {i \in OfKind(files, bundle, {"header"}) :
       \E j \in included \cap OfKind(files, bundle, IsCode) : i \in files[j].includes}

AddIncludeClosure(files, bundle, included) ==
  LET closure[S \in SUBSET DOMAIN bundle] ==
        IF AddIncludes(files, bundle, S) = S THEN S
        ELSE closure[AddIncludes(files, bundle, S)]
  IN  closure[included]

(* What decides the build: scripts and definitions with the names that a   *)
(* review also shows as context, and the fragments (.cmake, .mk, .make).   *)
Scripts(files, bundle) == OfKind(files, bundle, {"script", "fragment"})
Styles(files, bundle) == UNION {files[i].styles : i \in Scripts(files, bundle)}

Named(files, bundle) ==
  DOMAIN bundle \cap UNION {files[i].names : i \in Scripts(files, bundle)}

(* All compiled sources, if the build lists its sources itself or none of  *)
(* them is found in its text.                                              *)
BuildInputs(files, bundle) ==
  LET compiled == OfKind(files, bundle, {"compiled"})
  IN  Scripts(files, bundle) \cup Named(files, bundle) \cup
        (IF "dynamic" \in Styles(files, bundle) \/ compiled \cap Named(files, bundle) = {}
           THEN compiled ELSE {})

RuntimeAssets(files, bundle, included) ==
  LET literal == UNION {files[i].literals : i \in Scripts(files, bundle)}
      src     == OfKind(files, bundle, InSrc)
      before  == included \cup (src \cap literal) \cup
                   (IF "variable" \in Styles(files, bundle)
                      THEN OfKind(files, bundle, NotCode) ELSE {})
  IN  before \cup
        (IF "cd" \in Styles(files, bundle)
           THEN src \cap UNION {files[i].names \cup files[i].includes : i \in before}
           ELSE {})

(* Mutant of ExecutionScope: what is found in a cut text is all there is.  *)
ExecutionScopeAsFound(files, bundle) ==
  RuntimeAssets(files, bundle,
    AddIncludeClosure(files, bundle, BuildInputs(files, bundle)))

(* A truncated file hides what it refers to: then everything is taken      *)
(* except the input file, of which the judge reads two numbers only.       *)
ExecutionScope(files, bundle) ==
  ExecutionScopeAsFound(files, bundle)
  \cup (IF Truncated(bundle) = {} THEN {}
          ELSE {i \in DOMAIN bundle : files[i].kind # "input"})

-----------------------------------------------------------------------------
(* Baselines and the delta.                                                *)

(* A public origin is taken when enough of the code is exactly its code,   *)
(* and more than is exactly the code of the course.                        *)
SelectReference(files, bundle, scope) ==
  LET eligible == (scope \cap OfKind(files, bundle, IsCode)) \ Truncated(bundle)
      Exact(b) == {i \in eligible : b \in DOMAIN files[i].hunks /\ files[i].hunks[b] = <<>>}
      Count(b) == Cardinality(Exact(b))
      Bytes(b) == SumFunction([i \in Exact(b) |-> files[i].text.len])
  IN  /\ Count("public") >= MinimumFiles
      /\ Bytes("public") >= MinimumBytes
      /\ 100 * Count("public") >= MinimumPercent * Cardinality(eligible)
      /\ \/ Bytes("public") > Bytes("course")
         \/ Bytes("public") = Bytes("course") /\ Count("public") > Count("course")

CourseBaseline(file) == IF "course" \in DOMAIN file.hunks THEN "course" ELSE "addition"

(* Files of the root and the two headers with the compile-time physics are *)
(* always compared with the course.                                        *)
SelectedBaseline(file, public) ==
  IF "course" \in DOMAIN file.hunks /\ (file.kind \notin InSrc \/ file.critical)
    THEN "course"
  ELSE IF public /\ file.kind \in InSrc /\ "public" \in DOMAIN file.hunks
    THEN "public"
  ELSE CourseBaseline(file)

(* What of s is at the positions I, in the order of s.                     *)
AtPositions(s, I) ==
  LET keep[n \in 0..Len(s)] ==
        IF n = 0 THEN <<>> ELSE IF n \in I THEN Append(keep[n - 1], s[n]) ELSE keep[n - 1]
  IN  keep[Len(s)]

Sorted(S, n) == AtPositions([k \in 1..n |-> k], S)

(* The delta of the files in scope, sorted by path; "base" has the         *)
(* baseline of each, "removed" the files of the course that are missing.   *)
BuildDelta(files, bundle, scope, base, removed) ==
  LET changed == {i \in scope : /\ ~bundle[i].truncated
                                /\ files[i].hunks[base[i]] # <<>>}
      paths   == Sorted(changed, Len(files))
  IN  [files |->
         [k \in DOMAIN paths |->
            [path |-> paths[k], kind |-> files[paths[k]].kind,
             hunks |-> files[paths[k]].hunks[base[paths[k]]]]]
         \o [k \in DOMAIN removed |->
               [path |-> Len(files) + k, kind |-> "removed", hunks |-> removed[k]]],
       incomplete |-> \E i \in scope : bundle[i].truncated]

(* ComplianceReviewScopeBuilder.build: other labs are reviewed as a whole. *)
PlainTask(files, bundle, removed) ==
  [scope |-> DOMAIN bundle,
   delta |-> BuildDelta(files, bundle, DOMAIN bundle,
               [i \in DOMAIN bundle |-> CourseBaseline(files[i])], removed)]

TaskAgainst(files, bundle, scope, public) ==
  [scope |-> scope,
   delta |-> BuildDelta(files, bundle, scope,
               [i \in scope |-> SelectedBaseline(files[i], public)], <<>>)]

Lab4Task(files, bundle) ==
  LET within[S \in SUBSET DOMAIN bundle] ==
        LET against[public \in BOOLEAN] == TaskAgainst(files, bundle, S, public)
        IN  against[SelectReference(files, bundle, S)]
  IN  within[ExecutionScope(files, bundle)]

ReviewScope(lab4, files, bundle, removed) ==
  IF lab4 THEN Lab4Task(files, bundle) ELSE PlainTask(files, bundle, removed)

=============================================================================
