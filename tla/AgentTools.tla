----------------------------- MODULE AgentTools -----------------------------
(***************************************************************************)
(* ReadOnlyToolBroker (agent_tools.py): the pages in which a reviewing     *)
(* model sees the private copy of a submission.  What a tool lists (the    *)
(* entries of a tree, the lines of a file that match, the lines of a diff, *)
(* the lines of a file) is a sequence of items, of which only the size in  *)
(* an encoded response matters.  A response holds at most MaxResponse.     *)
(***************************************************************************)
EXTENDS Integers, Sequences, FiniteSets, Functions

CONSTANTS
  MaxResponse,   \* max_response_bytes
  MaxEntries,    \* max_tree_entries, max_search_matches, max_diff_lines
  MaxReadLines,  \* max_read_lines
  MaxItem,       \* what is left of a match or a diff line that is cut
  IdenticalKey,  \* what compare_file adds to a page that was made to fit
  RangeEnd,      \* what read_lines adds when nothing of the range is left
  Dense,         \* <<items, line>>: too big for a response even when cut,
                 \* since its characters take several bytes each
  Nothing        \* no cursor

ASSUME ToolConstants ==
  /\ MaxResponse \in Nat \ {0}
  /\ MaxEntries \in Nat \ {0}
  /\ MaxReadLines \in Nat \ {0}
  /\ MaxItem \in 1..MaxResponse
  /\ IdenticalKey \in Nat
  /\ RangeEnd \in Nat
  /\ Nothing \notin Nat

Size(items) == FoldFunction(+, 0, items)

Fits(items) == Size(items) <= MaxResponse

(* items without its last ones, until what is left fits; nothing, if even  *)
(* the first item does not (_fit_list_payload).                            *)
FitList(items) ==
  LET n == CHOOSE m \in 0..Len(items) :
             /\ m = 0 \/ Fits(SubSeq(items, 1, m))
             /\ \A k \in (m + 1)..Len(items) : ~Fits(SubSeq(items, 1, k))
  IN  SubSeq(items, 1, n)

Taken(items, cursor) ==
  SubSeq(items, cursor + 1, IF cursor + MaxEntries > Len(items) THEN Len(items)
                            ELSE cursor + MaxEntries)

(* The text of a match is cut to 1000 characters, a diff line to 2000.     *)
Shortened(items) == [i \in DOMAIN items |-> IF items[i] > MaxItem THEN MaxItem ELSE items[i]]

(* An observation: the items shown are from+1 .. from+count; next is where *)
(* the tool says that the rest begins, Nothing if it says there is no rest.*)
Observation(from, count, total) ==
  [ok |-> TRUE, from |-> from, count |-> count,
   next |-> IF from + count < total THEN from + count ELSE Nothing]

(* A RuntimeError of call, for which the page was too big: the model is    *)
(* told, and may try again.                                                *)
Refused == [ok |-> FALSE, from |-> 0, count |-> 0, next |-> Nothing]

(* A page of the tree is cut by the number of entries only; call refuses   *)
(* it if it is too big.                                                    *)
ListTree(items, cursor) ==
  LET page == Taken(items, cursor)
  IN  IF Fits(page) THEN Observation(cursor, Len(page), Len(items)) ELSE Refused

(* Mutant of Search: the cursor counts what was selected, not what fits.   *)
SearchSkippingUnfit(items, cursor) ==
  [Observation(cursor, Len(FitList(Taken(Shortened(items), cursor))), Len(items))
     EXCEPT !.next = IF cursor + MaxEntries < Len(items) THEN cursor + MaxEntries
                     ELSE Nothing]

(* search, and find_references, which is a search for a token              *)
Search(items, cursor) ==
  Observation(cursor, Len(FitList(Taken(Shortened(items), cursor))), Len(items))

(* compare_file reads the diff as far as the page goes and one line more,  *)
(* to know whether there is a rest.  The page is made to fit without the   *)
(* key "identical", which call counts.                                     *)
CompareFile(items, cursor) ==
  LET page  == Taken(items, cursor)
      shown == FitList(Shortened(page))
      total == cursor + Len(page) + (IF cursor + Len(page) < Len(items) THEN 1 ELSE 0)
  IN  IF Size(shown) + IdenticalKey <= MaxResponse
      THEN Observation(cursor, Len(shown), total) ELSE Refused

(* read_lines shortens the range to MaxReadLines; a first line that does   *)
(* not fit is cut to a number of characters.  Whether there is a rest is   *)
(* told of the shortened range.  The lines are measured as if a rest       *)
(* followed, which takes fewer bytes to say than that there is none.       *)
ReadLines(items, start, end) ==
  LET last  == IF end - start + 1 > MaxReadLines THEN start + MaxReadLines - 1 ELSE end
      range == SubSeq(items, start, IF last > Len(items) THEN Len(items) ELSE last)
      shown == FitList(range)
      cut   == shown = <<>> /\ range # <<>>
      count == IF cut THEN 1 ELSE Len(shown)
      rest  == count > 0 /\ start - 1 + count < last
      fits  == IF cut THEN <<items, start>> \notin Dense
               ELSE rest \/ Size(shown) + RangeEnd <= MaxResponse
  IN  IF fits THEN [ok |-> TRUE, from |-> start - 1, count |-> count,
                    next |-> IF rest THEN start + count ELSE Nothing]
      ELSE Refused

(* validate_evidence: the cited lines exist.                               *)
ValidEvidence(lines, e) ==
  /\ e.from > 0 /\ e.from <= e.to
  /\ e.exists /\ e.to <= lines

=============================================================================
