------------------------ MODULE MCComplianceReview ------------------------
(* Instances of ComplianceReview for TLC.                                  *)
EXTENDS ComplianceReview

Text(len, lines) == [len |-> len, lines |-> lines]

(* A source file nobody refers to, which the course does not have.         *)
File(kind, len, lines) ==
  [kind |-> kind, source |-> TRUE, there |-> TRUE, critical |-> FALSE,
   text |-> Text(len, lines), names |-> {}, literals |-> {}, includes |-> {}, styles |-> {},
   hunks |-> [addition |-> IF len = 0 THEN <<>> ELSE <<Text(len, lines)>>]]

Against(file, course, public) ==
  [file EXCEPT !.hunks = [addition |-> @.addition, course |-> course, public |-> public]]

(* A script, and a fragment that builds one of two sources; an asset, a    *)
(* program and its headers, and a source that it includes.  The critical   *)
(* header is that of the public origin.                                    *)
Script(styles) ==
  [File("script", 3, {1}) EXCEPT !.literals = {2}, !.styles = styles]
Fragment == [File("fragment", 1, {}) EXCEPT !.names = {3}]
Physics ==
  Against([File("header", 2, {}) EXCEPT !.critical = TRUE], <<Text(2, {0})>>, <<>>)
Program(hunks) ==
  Against([File("compiled", 5, {2}) EXCEPT !.includes = {4, 6}], hunks, hunks)
Header == Against([File("header", 3, {}) EXCEPT !.includes = {5}], <<Text(3, {})>>, <<>>)

Lab4Files ==
  {<<Script(styles), File("asset", 2, {}), Program(hunks), Header, Physics,
     File("compiled", other, {}), File("input", input, {}), Fragment>> :
     styles \in {{}, {"dynamic"}, {"cd", "variable"}},
     hunks \in {<<>>, <<Text(12, {4, 5, 9})>>},
     other \in {3, 7}, input \in {2, 9}}

PlainFiles ==
  {<<File("script", 2, {1}), Against(File("compiled", 6, {3}), hunks, <<>>),
     [File("other", 4, {}) EXCEPT !.source = FALSE],
     [File("compiled", size, {}) EXCEPT !.there = there]>> :
     hunks \in {<<>>, <<Text(13, {2, 7}), Text(3, {1})>>},
     size \in {0, 3}, there \in BOOLEAN}

Chunked == {[strategy |-> "chunked-v1", chars |-> c] : c \in {16, 32}}
Bounded == {[strategy |-> "bounded-v2", chars |-> c] : c \in {12, 36, 60}}

Job(fs, lab4, removed, lab, p) ==
  [files |-> fs, lab4 |-> lab4, removed |-> removed, lab |-> lab,
   strategy |-> p.strategy, chars |-> p.chars, document |-> 4, definition |-> 2]

(* The limits of the policy cut a file of 7 and every total above 8.       *)
Limits(file, total) == [file |-> file, total |-> total]

MCSubmissions ==
  {Job(fs, TRUE, <<>>, lab, p) :
     fs \in Lab4Files, lab \in {Limits(0, 0), Limits(0, 40), Limits(8, 40)},
     p \in Chunked \cup Bounded}
  \cup
  {Job(fs, FALSE, removed, lab, p) :
     fs \in PlainFiles, removed \in {<<>>, <<<<Text(2, {})>>>>},
     lab \in {Limits(0, 0), Limits(0, 20)}, p \in Chunked \cup Bounded}

Verdict(decision, violations) ==
  [decision |-> decision, violations |-> violations, wellFormed |-> TRUE]

Says(v) == [content |-> <<v>>, reasoning |-> <<>>]

(* Conclusions with and without violations, a verdict only in the          *)
(* reasoning after an invalid one, and nothing valid at all.               *)
MCReplies ==
  {Says(Verdict("compliant", <<>>)), Says(Verdict("inconclusive", <<>>)),
   Says(Verdict("compliant", <<"v">>)), Says(Verdict("violation", <<>>)),
   [content |-> <<[Verdict("compliant", <<>>) EXCEPT !.wellFormed = FALSE]>>,
    reasoning |-> <<Verdict("violation", <<"v", "w">>), Verdict("compliant", <<>>)>>]}

=============================================================================
