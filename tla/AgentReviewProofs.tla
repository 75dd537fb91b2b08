------------------------- MODULE AgentReviewProofs -------------------------
(***************************************************************************)
(* The safety of AgentReview, for every submission, every number of turns, *)
(* calls and pages, and whatever model, network and tools answer.          *)
(***************************************************************************)
EXTENDS AgentReview, FiniteSetTheorems, SequenceTheorems, WellFoundedInduction, TLAPS

-----------------------------------------------------------------------------
(* The inductive invariant.                                                *)

Messages == [role : {"system", "user", "assistant", "tool"}, n : Nat]

(* The first n messages of m are a conversation: every answer has its      *)
(* results, and every result its answer.                                   *)
Paired(m, n) ==
  \A i \in 1..n :
    /\ m[i].role = "assistant" =>
         \A k \in 1..m[i].n : i + k <= n /\ m[i + k] = Message("tool", k)
    /\ m[i].role = "tool" =>
         \E j \in 1..(i - 1) : /\ m[j].role = "assistant"
                               /\ j + m[i].n = i /\ m[i].n <= m[j].n

(* While the c calls of a turn are handled, p of them so far, their        *)
(* results follow the answer at the place h.                               *)
Open(m, h, c, p) ==
  /\ h \in 1..Len(m) /\ Paired(m, h - 1)
  /\ m[h] = Message("assistant", c) /\ Len(m) = h + p
  /\ \A k \in 1..p : m[h + k] = Message("tool", k)

ConversationInv ==
  /\ messages \in Seq(Messages)
  /\ pc \in {"prepare", "copy"} => messages = <<>>
  /\ pc \in {"send", "answer", "turn"} => Paired(messages, Len(messages))
  /\ pc = "handle" => /\ pos <= Len(calls) + 1
                     /\ \E h \in 1..Len(messages) : Open(messages, h, Len(calls), pos - 1)

(* Each turn before this one has sent one message at least, and at most    *)
(* MaxAttempts.                                                            *)
LoopInv ==
  /\ pc \in {"prepare", "copy"} => turn = 0
  /\ pc \in {"send", "answer", "turn", "handle"} => turn > 0
  /\ pc = "send" => attempt < MaxAttempts
  /\ pc \in {"answer", "turn", "handle"} => attempt > 0
  /\ turn = 0 => attempt = 0 /\ sent = 0
  /\ turn > 0 => sent <= MaxAttempts * (turn - 1) + attempt /\ turn - 1 <= sent
  /\ turn > 0 /\ attempt > 0 => turn <= sent
  /\ code = "MODEL_UNAVAILABLE" => attempt = MaxAttempts
  /\ code = "TURN_LIMIT_REACHED" => turn = MaxTurns /\ sent >= MaxTurns

(* What has been copied is as the submission declares it.                  *)
CopyInv ==
  /\ \A i \in 1..copied : manifest[i] = "same"
  /\ pc \notin {"prepare", "copy", "failed"} => copied = Len(manifest)

(* The items seen of a listing are those up to the cursor, or all of them; *)
(* none, if already the first page was refused.                            *)
ListInv ==
  listing.tool \in ListingTools =>
    /\ listing.asked = 1..Len(items)
    /\ listing.tool = "search" => ~listing.refused
    /\ listing.next = Nothing =>
         listing.seen = IF listing.refused THEN {} ELSE 1..Len(items)
    /\ listing.next # Nothing =>
         listing.next \in 1..(Len(items) - 1) /\ listing.seen = 1..listing.next

LinesInv ==
  listing.tool = "read_lines" =>
    \E from, to \in 1..Len(items) :
      /\ from <= to /\ listing.asked = from..to
      /\ listing.next = Nothing =>
           IF listing.refused THEN listing.seen = {}
           ELSE listing.seen = from..to \/ to - from + 1 > MaxReadLines
      /\ listing.next # Nothing =>
           listing.next \in (from + 1)..to /\ listing.seen = from..(listing.next - 1)

ListingInv ==
  /\ listing \in [tool : ListingTools \cup {"none", "read_lines"}, seen : SUBSET Int,
                  asked : SUBSET Nat, next : Nat \cup {Nothing}, refused : BOOLEAN]
  /\ listing.tool = "none" => listing = NoListing
  /\ ListInv /\ LinesInv

IInv ==
  /\ TypeOK
  /\ CopyInv /\ LoopInv /\ ConversationInv /\ ReportStandsOnEvidence /\ ListingInv

-----------------------------------------------------------------------------
(* The pages of the tools.                                                 *)

(* A set of numbers that is bounded and not empty has a largest one.       *)
LEMMA MaxExists ==
  ASSUME NEW N \in Nat, NEW S, S \subseteq 0..N, S # {}
  PROVE  \E m \in S : \A q \in S : q <= m
<1> DEFINE T == {N - m : m \in S}
<1>1. T \subseteq Nat /\ T # {}
  <2>1. PICK a \in S : TRUE
    OBVIOUS
  <2>2. N - a \in T
    BY <2>1
  <2>3. QED
    BY <2>2
<1>2. PICK x \in T : \A y \in T : ~ (<<y, x>> \in OpToRel(<, Nat))
  <2>1. IsWellFoundedOn(OpToRel(<, Nat), Nat)
    BY NatLessThanWellFounded
  <2>2. QED
    BY <1>1, <2>1, WFMin
<1>3. \A y \in T : ~(y < x)
  BY <1>1, <1>2 DEF OpToRel
<1>4. PICK m \in S : x = N - m
  BY <1>2
<1>5. \A q \in S : ~(N - q < N - m)
  BY <1>3, <1>4
<1>6. QED
  BY <1>4, <1>5

(* Size is defined by a recursive function over sets of positions; of one  *)
(* item it is the size of the item.                                        *)
LEMMA SizeOfOne ==
  ASSUME NEW one \in Seq(Nat), Len(one) = 1
  PROVE  Size(one) = one[1]
<1> DEFINE Step(g, s) == IF s = {} THEN 0
                         ELSE LET i == CHOOSE y \in s : TRUE IN one[i] + g[s \ {i}]
           Sums(g) == g = [s \in SUBSET {1} |-> Step(g, s)]
           h == [s \in SUBSET {1} |-> IF s = {} THEN 0 ELSE one[1]]
           c == CHOOSE g : Sums(g)
<1>1. DOMAIN one = {1} /\ one[1] \in Nat
  <2>1. DOMAIN one = 1..Len(one)
    OBVIOUS
  <2>2. 1..1 = {1}
    OBVIOUS
  <2>3. one[1] \in Nat
    <3>1. 1 \in 1..Len(one)
      OBVIOUS
    <3>2. QED
      BY <3>1, ElementOfSeq
  <2>4. QED
    BY <2>1, <2>2, <2>3
<1>2. SUBSET {1} = {{}, {1}} /\ {1} \ {1} = {} /\ (CHOOSE y \in {1} : TRUE) = 1
  OBVIOUS
<1>3. Sums(h)
  <2>1. Step(h, {}) = 0 /\ Step(h, {1}) = one[1]
    BY <1>1, <1>2
  <2>2. QED
    BY <1>2, <2>1
<1>4. Sums(c)
  BY <1>3, Zenon
<1>5. Size(one) = c[{1}]
  BY <1>1 DEF Size, FoldFunction, FoldFunctionOnSet, MapThenFoldSet
<1>6. c = [s \in SUBSET {1} |-> Step(c, s)]
  BY <1>4
<1> HIDE DEF c
<1>7. c[{}] = 0
  BY <1>2, <1>6
<1>8. c[{1}] = one[1] + c[{}]
  <2>1. {1} \in SUBSET {1} /\ {1} # {}
    OBVIOUS
  <2>2. c[{1}] = Step(c, {1})
    BY <1>6, <2>1
  <2>3. QED
    BY <1>2, <2>1, <2>2
<1>9. QED
  BY <1>1, <1>5, <1>7, <1>8

(* What _fit_list_payload leaves is a beginning of the list, and not empty *)
(* if the first item fits.                                                 *)
LEMMA FitListFacts ==
  ASSUME NEW s \in Seq(Nat)
  PROVE  /\ FitList(s) \in Seq(Nat) /\ Len(FitList(s)) \in 0..Len(s)
         /\ s # <<>> /\ s[1] <= MaxResponse => Len(FitList(s)) > 0
<1> DEFINE Cut(m) == /\ m = 0 \/ Fits(SubSeq(s, 1, m))
                     /\ \A k \in (m + 1)..Len(s) : ~Fits(SubSeq(s, 1, k))
           S == {m \in 0..Len(s) : m = 0 \/ Fits(SubSeq(s, 1, m))}
           n == CHOOSE m \in 0..Len(s) : Cut(m)
<1>1. Len(s) \in Nat
  OBVIOUS
<1>2. \E m \in 0..Len(s) : Cut(m)
  <2>1. S \subseteq 0..Len(s) /\ 0 \in S
    BY <1>1
  <2>2. PICK m \in S : \A q \in S : q <= m
    BY <1>1, <2>1, MaxExists
  <2>3. QED
    BY <1>1, <2>1, <2>2
<1>3. n \in 0..Len(s) /\ Cut(n)
  <2> HIDE DEF Cut
  <2>1. QED
    BY <1>2
<1>4. FitList(s) = SubSeq(s, 1, n)
  BY DEF FitList
<1> HIDE DEF n
<1>5. Len(FitList(s)) = n /\ FitList(s) \in Seq(Nat)
  BY <1>1, <1>3, <1>4
<1>6. ASSUME s # <<>>, s[1] <= MaxResponse PROVE n > 0
  <2>1. Len(s) >= 1 /\ s[1] \in Nat
    BY <1>6
  <2>2. SubSeq(s, 1, 1) \in Seq(Nat) /\ Len(SubSeq(s, 1, 1)) = 1 /\ SubSeq(s, 1, 1)[1] = s[1]
    BY <2>1
  <2>3. Fits(SubSeq(s, 1, 1))
    BY <1>6, <2>1, <2>2, SizeOfOne DEF Fits
  <2>4. QED
    BY <1>3, <2>1, <2>3
<1>7. QED
  BY <1>3, <1>5, <1>6

LEMMA SubmissionTyped ==
  ASSUME TypeOK
  PROVE  items \in Seq(Nat) /\ (\A i \in 1..Len(items) : items[i] > 0) /\ Len(items) \in Nat
BY ReviewConstants DEF TypeOK

(* A page before it is made to fit.                                        *)
LEMMA TakenFacts ==
  ASSUME NEW s \in Seq(Nat), NEW from \in 0..Len(s)
  PROVE  /\ Taken(s, from) \in Seq(Nat)
         /\ from + Len(Taken(s, from)) <= Len(s)
         /\ from < Len(s) => Len(Taken(s, from)) > 0 /\ Taken(s, from)[1] = s[from + 1]
<1>1. Len(s) \in Nat /\ MaxEntries \in Nat /\ MaxEntries > 0
  BY ToolConstants
<1> DEFINE last == IF from + MaxEntries > Len(s) THEN Len(s) ELSE from + MaxEntries
<1>2. /\ last \in from..Len(s) /\ from + 1 \in Int /\ last \in Int
      /\ from < Len(s) => last > from
  BY <1>1
<1>3. \A i \in (from + 1)..last : s[i] \in Nat
  BY <1>1, <1>2
<1>4. Taken(s, from) = SubSeq(s, from + 1, last)
  BY DEF Taken
<1> HIDE DEF last
<1>5. /\ Taken(s, from) \in Seq(Nat)
      /\ Len(Taken(s, from)) = IF from + 1 <= last THEN last - (from + 1) + 1 ELSE 0
      /\ \A i \in 1..(last - (from + 1) + 1) : Taken(s, from)[i] = s[from + 1 + i - 1]
  BY <1>2, <1>3, <1>4, SubSeqProperties
<1>6. QED
  BY <1>1, <1>2, <1>5

(* Shortened items fit, each for itself.                                   *)
LEMMA ShortenedFacts ==
  ASSUME NEW s \in Seq(Nat)
  PROVE  /\ Shortened(s) \in Seq(Nat) /\ Len(Shortened(s)) = Len(s)
         /\ s # <<>> => Shortened(s)[1] <= MaxResponse
         /\ \A i \in 1..Len(s) : Shortened(s)[i] <= MaxItem
<1>1. MaxItem \in Nat /\ MaxResponse \in Nat /\ MaxItem <= MaxResponse /\ Len(s) \in Nat
  BY ToolConstants
<1>2. \A i \in 1..Len(s) : s[i] \in Nat
  OBVIOUS
<1>3. DOMAIN s = 1..Len(s)
  OBVIOUS
<1>4. Shortened(s) = [i \in 1..Len(s) |-> IF s[i] > MaxItem THEN MaxItem ELSE s[i]]
  BY <1>3 DEF Shortened
<1>5. Shortened(s) \in [1..Len(s) -> Nat]
  BY <1>1, <1>2, <1>4
<1>6. Shortened(s) \in Seq(Nat) /\ Len(Shortened(s)) = Len(s)
  BY <1>1, <1>5
<1>7. s # <<>> => Shortened(s)[1] <= MaxItem
  BY <1>1, <1>2, <1>4
<1>8. \A i \in 1..Len(s) : Shortened(s)[i] <= MaxItem
  BY <1>1, <1>2, <1>4
<1>9. QED
  BY <1>1, <1>2, <1>6, <1>7, <1>8

LEMMA ShortPage ==
  ASSUME NEW s \in Seq(Nat), NEW from \in 0..Len(s)
  PROVE  LET page == Taken(s, from)
             n    == Len(FitList(Shortened(page)))
         IN  /\ n \in 0..Len(page) /\ Len(page) \in Nat /\ from + Len(page) <= Len(s)
             /\ from < Len(s) => n > 0
<1> DEFINE page == Taken(s, from)
<1>1. /\ page \in Seq(Nat) /\ from + Len(page) <= Len(s)
      /\ from < Len(s) => Len(page) > 0
  BY TakenFacts
<1> HIDE DEF page
<1>2. /\ Shortened(page) \in Seq(Nat) /\ Len(Shortened(page)) = Len(page)
      /\ page # <<>> => Shortened(page)[1] <= MaxResponse
  BY <1>1, ShortenedFacts
<1>3. /\ Len(FitList(Shortened(page))) \in 0..Len(page)
      /\ Shortened(page) # <<>> /\ Shortened(page)[1] <= MaxResponse
           => Len(FitList(Shortened(page))) > 0
  BY <1>2, FitListFacts
<1>4. Len(page) \in Nat /\ (Len(page) > 0 => page # <<>> /\ Shortened(page) # <<>>)
  BY <1>1, <1>2
<1>5. QED
  BY <1>1, <1>2, <1>3, <1>4 DEF page

(* Shortening first and taking the page then is no different.              *)
LEMMA CutPage ==
  ASSUME NEW s \in Seq(Nat), NEW from \in 0..Len(s)
  PROVE  LET page == Taken(Shortened(s), from)
             n    == Len(FitList(page))
         IN  /\ n \in 0..Len(page) /\ Len(page) \in Nat /\ from + Len(page) <= Len(s)
             /\ from < Len(s) => n > 0
<1> DEFINE short == Shortened(s)
           page  == Taken(short, from)
<1>1. short \in Seq(Nat) /\ Len(short) = Len(s) /\ (\A i \in 1..Len(s) : short[i] <= MaxItem)
  BY ShortenedFacts
<1> HIDE DEF short
<1>2. /\ page \in Seq(Nat) /\ from + Len(page) <= Len(s)
      /\ from < Len(s) => Len(page) > 0 /\ page[1] = short[from + 1]
  BY <1>1, TakenFacts
<1>3. from < Len(s) => short[from + 1] <= MaxItem
  BY <1>1
<1> HIDE DEF page
<1>4. /\ Len(FitList(page)) \in 0..Len(page)
      /\ page # <<>> /\ page[1] <= MaxResponse => Len(FitList(page)) > 0
  BY <1>2, FitListFacts
<1>5. from < Len(s) => page # <<>> /\ page[1] <= MaxResponse
  <2>1. ASSUME from < Len(s) PROVE page # <<>> /\ page[1] <= MaxResponse
    <3>1. /\ short[from + 1] \in Nat /\ MaxItem \in Nat /\ MaxResponse \in Nat
          /\ MaxItem <= MaxResponse
      BY <1>1, <2>1, ToolConstants
    <3>2. QED
      BY <1>2, <1>3, <2>1, <3>1
  <2>2. QED
    BY <2>1
<1>6. QED
  BY <1>2, <1>4, <1>5 DEF page, short

(* A page of a listing is refused, but never one of a search, or it is the *)
(* rest, or it says where the rest begins, which is further on.            *)
LEMMA ListPage ==
  ASSUME NEW s \in Seq(Nat), NEW from \in 0..Len(s), NEW o,
         o \in {ListTree(s, from), Search(s, from), CompareFile(s, from)}
  PROVE  \/ ~o.ok /\ o # Search(s, from) /\ o.next = Nothing /\ Shown(o) = {}
         \/ o.ok /\ o.next = Nothing /\ Shown(o) = (from + 1)..Len(s)
         \/ /\ o.ok /\ o.next \in (from + 1)..(Len(s) - 1) /\ o.next # Nothing
            /\ Shown(o) = (from + 1)..o.next
<1>1. Len(s) \in Nat /\ Nothing \notin Nat
  BY ToolConstants
<1>2. ASSUME NEW n \in Nat, NEW total \in Nat, o = Observation(from, n, total),
             total <= Len(s), from + n <= total, from < Len(s) => n > 0,
             from + n = total => total = Len(s)
      PROVE  \/ o.ok /\ o.next = Nothing /\ Shown(o) = (from + 1)..Len(s)
             \/ /\ o.ok /\ o.next \in (from + 1)..(Len(s) - 1) /\ o.next # Nothing
                /\ Shown(o) = (from + 1)..o.next
  <2>1. /\ o.ok /\ Shown(o) = (from + 1)..(from + n)
        /\ o.next = IF from + n < total THEN from + n ELSE Nothing
    BY <1>2 DEF Observation, Shown
  <2>2. CASE from + n < total
    BY <1>1, <1>2, <2>1, <2>2
  <2>3. CASE ~(from + n < total)
    BY <1>1, <1>2, <2>1, <2>3
  <2>4. QED
    BY <2>2, <2>3
<1> DEFINE page == Taken(s, from)
           n == Len(FitList(Shortened(page)))
<1>8. Search(s, from).ok
  BY DEF Search, Observation
<1>3. /\ n \in 0..Len(page) /\ Len(page) \in Nat /\ from + Len(page) <= Len(s)
      /\ from < Len(s) => n > 0 /\ Len(page) > 0
  BY ShortPage, TakenFacts
<1>4. CASE o = ListTree(s, from)
  <2>1. CASE Fits(page)
    <3>1. o = Observation(from, Len(page), Len(s))
      BY <1>4, <2>1 DEF ListTree
    <3> HIDE DEF page
    <3>2. QED
      BY <1>1, <1>2, <1>3, <3>1
  <2>2. CASE ~Fits(page)
    <3>1. o = Refused
      BY <1>4, <2>2 DEF ListTree
    <3>2. QED
      BY <1>8, <3>1 DEF Refused, Shown
  <2>3. QED
    BY <2>1, <2>2
<1>5. CASE o = Search(s, from)
  <2> DEFINE cut == Taken(Shortened(s), from)
             m == Len(FitList(cut))
  <2>1. o = Observation(from, m, Len(s))
    BY <1>5 DEF Search
  <2>2. /\ m \in 0..Len(cut) /\ Len(cut) \in Nat /\ from + Len(cut) <= Len(s)
        /\ from < Len(s) => m > 0
    BY CutPage
  <2> HIDE DEF m, cut
  <2>3. QED
    BY <1>1, <1>2, <2>1, <2>2
<1>6. CASE o = CompareFile(s, from)
  <2> DEFINE total == from + Len(page) + (IF from + Len(page) < Len(s) THEN 1 ELSE 0)
  <2>1. o = Observation(from, n, total) \/ o = Refused
    BY <1>6 DEF CompareFile
  <2> HIDE DEF n, page
  <2>2. /\ total \in Nat /\ total <= Len(s) /\ from + n <= total
        /\ from + n = total => total = Len(s)
    BY <1>1, <1>3
  <2> HIDE DEF total
  <2>3. CASE o = Refused
    BY <1>8, <2>3 DEF Refused, Shown
  <2>4. QED
    BY <1>2, <1>3, <2>1, <2>2, <2>3
<1>7. QED
  BY <1>4, <1>5, <1>6

(* So it is with a range of lines; the rest of one that is longer than     *)
(* MaxReadLines is left out.                                               *)
LEMMA LinesPage ==
  ASSUME NEW s \in Seq(Nat), NEW from \in 1..Len(s), NEW to \in from..Len(s),
         NEW o, o = ReadLines(s, from, to)
  PROVE  \/ ~o.ok /\ o.next = Nothing /\ Shown(o) = {}
         \/ /\ o.ok /\ o.next = Nothing
            /\ Shown(o) = from..to \/ to - from + 1 > MaxReadLines
         \/ /\ o.ok /\ o.next \in (from + 1)..to /\ o.next # Nothing
            /\ Shown(o) = from..(o.next - 1)
<1>1. Len(s) \in Nat /\ Nothing \notin Nat /\ MaxReadLines \in Nat /\ MaxReadLines > 0
  BY ToolConstants
<1>2. PICK last \in Int :
        last = IF to - from + 1 > MaxReadLines THEN from + MaxReadLines - 1 ELSE to
  BY <1>1
<1>3. /\ last \in from..to /\ (last = to \/ to - from + 1 > MaxReadLines)
      /\ last <= Len(s) /\ from \in Nat /\ to \in Nat /\ from > 0
  BY <1>1, <1>2
<1>4. PICK range : range = SubSeq(s, from, last)
  OBVIOUS
<1>5. range \in Seq(Nat) /\ Len(range) = last - from + 1
  <2>1. \A i \in from..last : s[i] \in Nat
    BY <1>1, <1>3
  <2>2. QED
    BY <1>3, <1>4, <2>1, SubSeqProperties
<1>6. FitList(range) \in Seq(Nat) /\ Len(FitList(range)) \in 0..Len(range)
  BY <1>5, FitListFacts
<1>7. PICK count \in 1..(last - from + 1) :
        count = IF FitList(range) = <<>> /\ range # <<>> THEN 1 ELSE Len(FitList(range))
  <2>1. FitList(range) = <<>> \/ Len(FitList(range)) > 0
    BY <1>6
  <2>2. range # <<>> /\ last - from + 1 >= 1
    BY <1>3, <1>5
  <2>3. QED
    BY <1>3, <1>5, <1>6, <2>1, <2>2
<1>8. \/ o = Refused
      \/ o = [ok |-> TRUE, from |-> from - 1, count |-> count,
              next |-> IF count > 0 /\ from - 1 + count < last THEN from + count ELSE Nothing]
  <2>1. range = SubSeq(s, from, IF last > Len(s) THEN Len(s) ELSE last)
    BY <1>1, <1>3, <1>4
  <2>2. QED
    BY <1>2, <1>7, <2>1 DEF ReadLines
<1>16. CASE o = Refused
  BY <1>16 DEF Refused, Shown
<1>9. PICK next : next = o.next
  OBVIOUS
<1>17. SUFFICES ASSUME o # Refused PROVE
         \/ /\ o.ok /\ o.next = Nothing
            /\ Shown(o) = from..to \/ to - from + 1 > MaxReadLines
         \/ /\ o.ok /\ o.next \in (from + 1)..to /\ o.next # Nothing
            /\ Shown(o) = from..(o.next - 1)
  BY <1>16
<1>18. o.ok /\ o.from = from - 1 /\ o.count = count
  BY <1>8, <1>17
<1>10. next = IF from - 1 + count < last THEN from + count ELSE Nothing
  BY <1>3, <1>7, <1>8, <1>9, <1>17
<1>11. Shown(o) = from..(from - 1 + count)
  BY <1>3, <1>7, <1>18 DEF Shown
<1>12. last \in Nat /\ count \in Nat /\ count >= 1 /\ count <= last - from + 1
  BY <1>3, <1>7
<1>13. CASE from - 1 + count < last
  <2>1. next = from + count
    BY <1>10, <1>13
  <2>2. next \in (from + 1)..to /\ next # Nothing /\ next - 1 = from - 1 + count
    BY <1>1, <1>3, <1>12, <1>13, <2>1
  <2>3. QED
    BY <1>9, <1>11, <1>18, <2>2
<1>14. CASE ~(from - 1 + count < last)
  <2>1. next = Nothing
    BY <1>10, <1>14
  <2>2. from - 1 + count = last
    BY <1>3, <1>12, <1>14
  <2>3. QED
    BY <1>3, <1>9, <1>11, <1>18, <2>1, <2>2
<1>15. QED
  BY <1>13, <1>14

-----------------------------------------------------------------------------
(* Conversations.                                                          *)

LEMMA MessageFields ==
  ASSUME NEW role \in {"system", "user", "assistant", "tool"}, NEW n \in Nat
  PROVE  /\ Message(role, n) \in Messages
         /\ Message(role, n).role = role /\ Message(role, n).n = n
BY DEF Message, Messages

LEMMA MessageAt ==
  ASSUME NEW m \in Seq(Messages), NEW i \in 1..Len(m)
  PROVE  /\ m[i] \in Messages /\ m[i].n \in Nat
         /\ m[i].role \in {"system", "user", "assistant", "tool"}
<1>1. m[i] \in Messages
  BY ElementOfSeq
<1>2. QED
  BY <1>1 DEF Messages

(* What is said later does not disturb what has been said.                 *)
LEMMA PairedStays ==
  ASSUME NEW m \in Seq(Messages), NEW l, NEW n \in Nat, n <= Len(m), Paired(m, n),
         \A i \in 1..n : l[i] = m[i]
  PROVE  Paired(l, n)
<1> SUFFICES ASSUME NEW i \in 1..n
             PROVE  /\ l[i].role = "assistant" =>
                         \A k \in 1..l[i].n : i + k <= n /\ l[i + k] = Message("tool", k)
                    /\ l[i].role = "tool" =>
                         \E j \in 1..(i - 1) :
                            /\ l[j].role = "assistant"
                            /\ j + l[i].n = i /\ l[i].n <= l[j].n
  BY DEF Paired
<1>1. l[i] = m[i] /\ m[i] \in Messages /\ m[i].n \in Nat
  <2>1. i \in 1..Len(m)
    OBVIOUS
  <2>2. QED
    BY <2>1, MessageAt
<1>2. ASSUME m[i].role = "assistant", NEW k \in 1..m[i].n
      PROVE  i + k <= n /\ l[i + k] = Message("tool", k)
  <2>1. i + k <= n /\ m[i + k] = Message("tool", k)
    BY <1>2 DEF Paired
  <2>2. i + k \in 1..n
    BY <1>1, <2>1
  <2>3. QED
    BY <2>1, <2>2
<1>3. ASSUME m[i].role = "tool"
      PROVE  \E j \in 1..(i - 1) : /\ l[j].role = "assistant"
                                   /\ j + m[i].n = i /\ m[i].n <= l[j].n
  BY <1>3 DEF Paired
<1>4. QED
  BY <1>1, <1>2, <1>3

(* A message that calls nothing and answers nothing can be added.          *)
LEMMA PairedGrows ==
  ASSUME NEW m \in Seq(Messages), Paired(m, Len(m)), NEW x \in Messages,
         x.role = "user" \/ (x.role = "assistant" /\ x.n = 0)
  PROVE  Append(m, x) \in Seq(Messages) /\ Paired(Append(m, x), Len(Append(m, x)))
<1> DEFINE l == Append(m, x)
           n == Len(m)
<1>1. /\ l \in Seq(Messages) /\ Len(l) = n + 1 /\ n \in Nat
      /\ (\A i \in 1..n : l[i] = m[i]) /\ l[n + 1] = x
  BY AppendProperties
<1>2. Paired(l, n)
  <2>1. n <= Len(m)
    BY <1>1
  <2>2. QED
    BY <1>1, <2>1, PairedStays, Zenon
<1> HIDE DEF l
<1>3. Paired(l, n + 1)
  <2> SUFFICES ASSUME NEW i \in 1..(n + 1)
               PROVE  /\ l[i].role = "assistant" =>
                           \A k \in 1..l[i].n : i + k <= n + 1 /\ l[i + k] = Message("tool", k)
                      /\ l[i].role = "tool" =>
                           \E j \in 1..(i - 1) :
                              /\ l[j].role = "assistant"
                              /\ j + l[i].n = i /\ l[i].n <= l[j].n
    BY DEF Paired
  <2>1. CASE i = n + 1
    BY <1>1, <2>1
  <2>2. CASE i \in 1..n
    <3>1. i \in 1..Len(l)
      BY <1>1, <2>2
    <3>2. l[i].n \in Nat
      BY <1>1, <3>1, MessageAt
    <3>3. /\ l[i].role = "assistant" =>
               \A k \in 1..l[i].n : i + k <= n /\ l[i + k] = Message("tool", k)
          /\ l[i].role = "tool" =>
               \E j \in 1..(i - 1) :
                  /\ l[j].role = "assistant"
                  /\ j + l[i].n = i /\ l[i].n <= l[j].n
      BY <1>2, <2>2 DEF Paired
    <3>4. QED
      BY <1>1, <2>2, <3>2, <3>3
  <2>3. QED
    BY <1>1, <2>1, <2>2
<1>4. QED
  BY <1>1, <1>3 DEF l

(* An answer with calls opens a turn.                                      *)
LEMMA OpenBegins ==
  ASSUME NEW m \in Seq(Messages), Paired(m, Len(m)), NEW c \in Nat
  PROVE  /\ Append(m, Message("assistant", c)) \in Seq(Messages)
         /\ \E h \in 1..Len(Append(m, Message("assistant", c))) :
              Open(Append(m, Message("assistant", c)), h, c, 0)
<1> DEFINE l == Append(m, Message("assistant", c))
           n == Len(m)
<1>1. Message("assistant", c) \in Messages
  BY MessageFields
<1>2. /\ l \in Seq(Messages) /\ Len(l) = n + 1 /\ n \in Nat
      /\ (\A i \in 1..n : l[i] = m[i]) /\ l[n + 1] = Message("assistant", c)
  BY <1>1, AppendProperties
<1>3. Paired(l, n)
  <2>1. n <= Len(m)
    BY <1>2
  <2>2. QED
    BY <1>2, <2>1, PairedStays, Zenon
<1> HIDE DEF l
<1>4. n + 1 \in 1..Len(l) /\ (n + 1) - 1 = n
  BY <1>2
<1>5. Open(l, n + 1, c, 0)
  BY <1>2, <1>3, <1>4 DEF Open
<1>6. QED
  BY <1>2, <1>4, <1>5 DEF l

(* The result of the next call continues it.                               *)
LEMMA OpenGoesOn ==
  ASSUME NEW m \in Seq(Messages), NEW c \in Nat, NEW p \in Nat \ {0},
         NEW h \in 1..Len(m), Open(m, h, c, p - 1)
  PROVE  /\ Append(m, Message("tool", p)) \in Seq(Messages)
         /\ \E g \in 1..Len(Append(m, Message("tool", p))) :
              Open(Append(m, Message("tool", p)), g, c, p)
<1> DEFINE l == Append(m, Message("tool", p))
           n == Len(m)
<1>1. Message("tool", p) \in Messages
  BY MessageFields
<1>2. /\ l \in Seq(Messages) /\ Len(l) = n + 1 /\ n \in Nat
      /\ (\A i \in 1..n : l[i] = m[i]) /\ l[n + 1] = Message("tool", p)
  BY <1>1, AppendProperties
<1>3. /\ Paired(m, h - 1) /\ m[h] = Message("assistant", c) /\ n = h + (p - 1)
      /\ \A k \in 1..(p - 1) : m[h + k] = Message("tool", k)
  BY DEF Open
<1>4. Paired(l, h - 1)
  <2>1. h - 1 \in Nat /\ h - 1 <= Len(m) /\ \A i \in 1..(h - 1) : l[i] = m[i]
    BY <1>2
  <2>2. QED
    BY <1>3, <2>1, PairedStays
<1> HIDE DEF l
<1>5. h \in 1..Len(l) /\ l[h] = Message("assistant", c) /\ Len(l) = h + p
  BY <1>2, <1>3
<1>6. ASSUME NEW k \in 1..p PROVE l[h + k] = Message("tool", k)
  <2>1. CASE k = p
    <3>1. h + k = n + 1
      BY <1>2, <1>3, <2>1
    <3>2. QED
      BY <1>2, <2>1, <3>1
  <2>2. CASE k # p
    <3>1. k \in 1..(p - 1) /\ h + k \in 1..n
      BY <1>2, <1>3, <2>2
    <3>2. QED
      BY <1>2, <1>3, <3>1
  <2>3. QED
    BY <2>1, <2>2
<1>7. Open(l, h, c, p)
  BY <1>4, <1>5, <1>6 DEF Open
<1>8. QED
  BY <1>2, <1>5, <1>7 DEF l

(* With the last result the turn is closed.                                *)
LEMMA OpenEnds ==
  ASSUME NEW m \in Seq(Messages), NEW c \in Nat, NEW h \in 1..Len(m), Open(m, h, c, c)
  PROVE  Paired(m, Len(m))
<1>1. /\ Paired(m, h - 1) /\ m[h] = Message("assistant", c) /\ Len(m) = h + c
      /\ \A k \in 1..c : m[h + k] = Message("tool", k)
  BY DEF Open
<1>2. m[h].role = "assistant" /\ m[h].n = c
  BY <1>1, MessageFields
<1> SUFFICES ASSUME NEW i \in 1..Len(m)
             PROVE  /\ m[i].role = "assistant" =>
                         \A k \in 1..m[i].n : i + k <= Len(m) /\ m[i + k] = Message("tool", k)
                    /\ m[i].role = "tool" =>
                         \E j \in 1..(i - 1) :
                            /\ m[j].role = "assistant"
                            /\ j + m[i].n = i /\ m[i].n <= m[j].n
  BY DEF Paired
<1>3. CASE i < h
  <2>1. i \in 1..(h - 1) /\ m[i].n \in Nat
    BY <1>3, MessageAt
  <2>2. /\ m[i].role = "assistant" =>
             \A k \in 1..m[i].n : i + k <= h - 1 /\ m[i + k] = Message("tool", k)
        /\ m[i].role = "tool" =>
             \E j \in 1..(i - 1) :
                /\ m[j].role = "assistant"
                /\ j + m[i].n = i /\ m[i].n <= m[j].n
    BY <1>1, <2>1 DEF Paired
  <2>3. h - 1 <= Len(m) /\ Len(m) \in Nat
    OBVIOUS
  <2>4. QED
    BY <2>1, <2>2, <2>3
<1>4. CASE i = h
  BY <1>1, <1>2, <1>4
<1>5. CASE i > h
  <2>1. PICK k \in 1..c : i = h + k
    <3>1. i - h \in 1..c /\ i = h + (i - h)
      BY <1>1, <1>5
    <3>2. QED
      BY <3>1
  <2>2. m[i].role = "tool" /\ m[i].n = k
    BY <1>1, <2>1, MessageFields
  <2>3. h \in 1..(i - 1) /\ h + m[i].n = i /\ m[i].n <= m[h].n
    BY <1>2, <1>5, <2>1, <2>2
  <2>4. QED
    BY <1>2, <2>2, <2>3
<1>6. QED
  BY <1>3, <1>4, <1>5

-----------------------------------------------------------------------------
(* What the steps have in common.                                          *)

Labels == {"prepare", "copy", "send", "answer", "turn", "handle"}

Streams == [choice : BOOLEAN, finish : BOOLEAN, indices : SUBSET (0..MaxIndex),
            heads : SUBSET (0..MaxIndex)]

CallsTyped ==
  /\ stream \in Streams
  /\ calls \in Seq({"finish", "tool"}) /\ Len(calls) <= MaxToolCallsPerTurn
  /\ pos \in 1..(MaxToolCallsPerTurn + 1)

LEMMA Basics ==
  ASSUME IInv
  PROVE  /\ CallsTyped /\ Len(calls) \in Nat /\ pos \in Nat \ {0}
         /\ copied \in Nat /\ Len(manifest) \in Nat /\ Len(items) \in Nat
         /\ turn \in 0..MaxTurns /\ attempt \in 0..MaxAttempts /\ sent \in Nat
         /\ MaxTurns \in Nat \ {0} /\ MaxAttempts \in {1, 2} /\ MaxToolCallsPerTurn \in Nat \ {0}
         /\ messages \in Seq(Messages)
         /\ pc \notin {"finished", "failed"} => pc \in Labels /\ report = NoReport /\ code = "none"
BY ReviewConstants DEF IInv, TypeOK, ConversationInv, CallsTyped, Streams, Labels

(* Whatever fails, the code is one that the reason allows.                 *)
LEMMA FailKeeps ==
  ASSUME IInv, NEW why \in DOMAIN FailureCode, Fail(why), pc \in Labels, CallsTyped',
         why = "transient" => attempt = MaxAttempts,
         why = "turns" => turn = MaxTurns /\ sent >= MaxTurns
  PROVE  IInv'
<1>1. /\ pc' = "failed" /\ workspace' = FALSE /\ code' = FailureCode[why]
      /\ UNCHANGED <<manifest, items, copied, turn, attempt, sent, messages, listing, report>>
  BY DEF Fail, loop
<1>2. /\ code' # "none" /\ (code' = "MODEL_UNAVAILABLE" => why = "transient")
      /\ code' = "TURN_LIMIT_REACHED" => why = "turns"
  BY <1>1 DEF FailureCode
<1>3. report' = NoReport
  BY <1>1, Basics DEF Labels
<1>4. TypeOK'
  BY <1>1, <1>2, <1>3 DEF IInv, TypeOK, CallsTyped, Streams
<1>5. CopyInv'
  BY <1>1 DEF IInv, CopyInv
<1>6. LoopInv'
  BY <1>1, <1>2 DEF IInv, LoopInv
<1>7. ConversationInv'
  BY <1>1 DEF IInv, ConversationInv
<1>8. ReportStandsOnEvidence'
  BY <1>1 DEF ReportStandsOnEvidence
<1>9. ListingInv'
  BY <1>1 DEF IInv, ListingInv, ListInv, LinesInv
<1>10. QED
  BY <1>4, <1>5, <1>6, <1>7, <1>8, <1>9 DEF IInv

LEMMA ListingStays ==
  ASSUME ListingInv, UNCHANGED <<items, listing>>
  PROVE  ListingInv'
BY DEF ListingInv, ListInv, LinesInv

(* A step with which the review goes on keeps the invariant, if it keeps   *)
(* what is said of the parts that it changes.                              *)
LEMMA GoingOnKeeps ==
  ASSUME IInv, Running, pc \in Labels, pc' \in Labels,
         UNCHANGED <<manifest, items>>, copied' \in 0..Len(manifest),
         workspace' = (pc' # "prepare"),
         turn' \in 0..MaxTurns, attempt' \in 0..MaxAttempts, sent' \in Nat, CallsTyped',
         CopyInv', LoopInv', ConversationInv', ListingInv'
  PROVE  IInv'
<1>1. report' = NoReport /\ code' = "none"
  BY Basics DEF Running, Labels
<1>2. workspace' = (pc' \notin {"prepare", "finished", "failed"})
  BY DEF Labels
<1>3. \A i \in DOMAIN messages' :
        messages'[i] \in [role : {"system", "user", "assistant", "tool"}, n : Nat]
  <2>1. messages' \in Seq(Messages)
    BY DEF ConversationInv
  <2>2. DOMAIN messages' = 1..Len(messages')
    BY <2>1
  <2>3. QED
    BY <2>1, <2>2, MessageAt DEF Messages
<1>4. TypeOK'
  BY <1>1, <1>2, <1>3 DEF IInv, TypeOK, CallsTyped, Streams, Labels
<1>5. ReportStandsOnEvidence'
  BY DEF ReportStandsOnEvidence, Labels
<1>6. QED
  BY <1>4, <1>5 DEF IInv

(* Most steps leave the files alone.                                       *)
LEMMA FilesStay ==
  ASSUME IInv, UNCHANGED files, pc \in Labels \ {"prepare", "copy"},
         pc' \in Labels \ {"prepare", "copy"}
  PROVE  /\ CopyInv' /\ copied' \in 0..Len(manifest)
         /\ UNCHANGED <<manifest, items>> /\ workspace' = (pc' # "prepare")
BY DEF IInv, TypeOK, CopyInv, files, Labels

-----------------------------------------------------------------------------
(* The workspace, and the HTTP calls.                                      *)

LEMMA PrepareKeeps ==
  ASSUME IInv, Prepare
  PROVE  IInv'
<1>1. pc = "prepare" /\ pc \in Labels /\ UNCHANGED <<stream, calls, pos>>
  BY DEF Prepare, Labels
<1>2. CallsTyped'
  BY <1>1, Basics DEF CallsTyped
<1>3. CASE Fail("basis")
  <2>1. "basis" \in DOMAIN FailureCode
    BY DEF FailureCode
  <2>2. QED
    BY <1>1, <1>2, <1>3, <2>1, FailKeeps
<1>4. CASE /\ pc' = "copy" /\ workspace' = TRUE
           /\ UNCHANGED <<manifest, items, copied, loop, messages, listing>> /\ Running
  <2>1. CopyInv' /\ copied' \in 0..Len(manifest)
    BY <1>4 DEF IInv, TypeOK, CopyInv
  <2>2. LoopInv'
    BY <1>1, <1>4 DEF IInv, LoopInv, loop, Running
  <2>3. ConversationInv'
    BY <1>1, <1>4 DEF IInv, ConversationInv
  <2>4. turn' \in 0..MaxTurns /\ attempt' \in 0..MaxAttempts /\ sent' \in Nat /\ ListingInv'
    BY <1>4, ListingStays DEF IInv, TypeOK, loop
  <2>5. pc' \in Labels /\ workspace' = (pc' # "prepare") /\ UNCHANGED <<manifest, items>> /\ Running
    BY <1>4 DEF Labels
  <2>6. QED
    BY <1>1, <1>2, <2>1, <2>2, <2>3, <2>4, <2>5, GoingOnKeeps
<1>5. QED
  BY <1>3, <1>4 DEF Prepare

LEMMA CopyFileKeeps ==
  ASSUME IInv, CopyFile
  PROVE  IInv'
<1>1. pc = "copy" /\ pc \in Labels /\ copied < Len(manifest) /\ UNCHANGED <<stream, calls, pos>>
  BY DEF CopyFile, Labels
<1>2. CallsTyped'
  BY <1>1, Basics DEF CallsTyped
<1>3. CASE manifest[copied + 1] = "same"
  <2>1. /\ copied' = copied + 1 /\ Running
        /\ UNCHANGED <<manifest, items, workspace, pc, loop, messages, listing>>
    BY <1>3 DEF CopyFile
  <2>2. CopyInv' /\ copied' \in 0..Len(manifest)
    BY <1>1, <1>3, <2>1, Basics DEF IInv, CopyInv
  <2>3. LoopInv'
    BY <2>1 DEF IInv, LoopInv, loop, Running
  <2>4. ConversationInv'
    BY <1>1, <2>1 DEF IInv, ConversationInv
  <2>5. turn' \in 0..MaxTurns /\ attempt' \in 0..MaxAttempts /\ sent' \in Nat /\ ListingInv'
    BY <2>1, ListingStays DEF IInv, TypeOK, loop
  <2>6. pc' \in Labels /\ workspace' = (pc' # "prepare") /\ UNCHANGED <<manifest, items>>
    BY <1>1, <2>1 DEF IInv, TypeOK, Labels
  <2>7. QED
    BY <1>1, <1>2, <2>1, <2>2, <2>3, <2>4, <2>5, <2>6, GoingOnKeeps
<1>4. CASE manifest[copied + 1] # "same"
  <2>1. Fail("workspace") /\ "workspace" \in DOMAIN FailureCode
    BY <1>4 DEF CopyFile, FailureCode
  <2>2. QED
    BY <1>1, <1>2, <2>1, FailKeeps
<1>5. QED
  BY <1>3, <1>4

LEMMA FirstMessagesFacts ==
  FirstMessages \in Seq(Messages) /\ Paired(FirstMessages, Len(FirstMessages))
<1>1. Message("system", 0) \in Messages /\ Message("user", 0) \in Messages
  BY MessageFields
<1>2. FirstMessages \in Seq(Messages) /\ Len(FirstMessages) = 2
  BY <1>1 DEF FirstMessages
<1>3. \A i \in 1..2 : FirstMessages[i].role \in {"system", "user"}
  <2>1. FirstMessages[1].role = "system" /\ FirstMessages[2].role = "user"
    BY MessageFields DEF FirstMessages
  <2>2. QED
    BY <2>1
<1>4. QED
  BY <1>2, <1>3 DEF Paired

LEMMA BeginReviewKeeps ==
  ASSUME IInv, BeginReview
  PROVE  IInv'
<1>1. /\ pc = "copy" /\ pc \in Labels /\ pc' = "send" /\ pc' \in Labels /\ turn' = 1 /\ Running
      /\ copied = Len(manifest) /\ messages' = FirstMessages
      /\ UNCHANGED <<files, attempt, sent, stream, calls, pos, listing>>
  BY DEF BeginReview, Labels
<1>2. CallsTyped'
  BY <1>1, Basics DEF CallsTyped
<1>3. CopyInv' /\ copied' \in 0..Len(manifest)
  BY <1>1 DEF IInv, TypeOK, CopyInv, files
<1>4. LoopInv' /\ turn' \in 0..MaxTurns /\ attempt' \in 0..MaxAttempts /\ sent' \in Nat
  BY <1>1, Basics DEF IInv, LoopInv, Running, Labels
<1>5. ConversationInv'
  BY <1>1, FirstMessagesFacts DEF ConversationInv
<1>6. ListingInv' /\ UNCHANGED <<manifest, items>> /\ workspace' = (pc' # "prepare")
  BY <1>1, ListingStays DEF IInv, TypeOK, files
<1>7. QED
  BY <1>1, <1>2, <1>3, <1>4, <1>5, <1>6, GoingOnKeeps

(* A step of the HTTP call changes neither the conversation nor what has   *)
(* been seen.                                                              *)
LEMMA CallingKeeps ==
  ASSUME IInv, Running, UNCHANGED <<files, turn, calls, pos, messages, listing>>,
         pc \in {"send", "answer"}, pc' \in {"send", "answer", "turn"}, stream' \in Streams,
         attempt' \in 0..MaxAttempts, sent' \in Nat, LoopInv'
  PROVE  IInv'
<1>1. pc \in Labels \ {"prepare", "copy"} /\ pc' \in Labels \ {"prepare", "copy"}
  BY DEF Labels
<1>2. /\ CopyInv' /\ copied' \in 0..Len(manifest)
      /\ UNCHANGED <<manifest, items>> /\ workspace' = (pc' # "prepare")
  BY <1>1, FilesStay
<1>3. CallsTyped' /\ turn' \in 0..MaxTurns
  BY Basics DEF CallsTyped
<1>4. ConversationInv'
  BY DEF IInv, ConversationInv
<1>5. ListingInv'
  BY <1>2, ListingStays DEF IInv
<1>6. QED
  BY <1>1, <1>2, <1>3, <1>4, <1>5, GoingOnKeeps

LEMMA SendKeeps ==
  ASSUME IInv, Send
  PROVE  IInv'
<1>1. /\ pc = "send" /\ pc' = "answer" /\ attempt' = attempt + 1 /\ sent' = sent + 1
      /\ stream' = NoStream /\ Running
      /\ UNCHANGED <<files, turn, calls, pos, messages, listing>>
  BY DEF Send
<1>2. stream' \in Streams
  BY <1>1 DEF NoStream, Streams
<1>3. /\ turn > 0 /\ attempt < MaxAttempts /\ code = "none"
      /\ sent <= MaxAttempts * (turn - 1) + attempt /\ turn - 1 <= sent
  BY <1>1, Basics DEF IInv, LoopInv
<1>4. attempt' \in 0..MaxAttempts /\ sent' \in Nat
  <2>1. attempt \in Nat /\ MaxAttempts \in Nat /\ sent \in Nat /\ attempt < MaxAttempts
    BY <1>3, Basics
  <2>2. QED
    BY <1>1, <2>1
<1>5. LoopInv'
  <2>1. sent + 1 <= MaxAttempts * (turn - 1) + (attempt + 1) /\ turn - 1 <= sent + 1
        /\ turn <= sent + 1
    BY SMTT(20), <1>3, Basics
  <2>2. attempt + 1 > 0
    BY Basics
  <2>3. QED
    BY <1>1, <1>3, <2>1, <2>2 DEF LoopInv, Running
<1>6. QED
  BY <1>1, <1>2, <1>4, <1>5, CallingKeeps

LEMMA TransientKeeps ==
  ASSUME IInv, pc = "answer", Transient, UNCHANGED <<stream, calls, pos>>
  PROVE  IInv'
<1>1. CASE attempt < MaxAttempts
  <2>1. pc' = "send" /\ UNCHANGED <<files, loop, messages, listing>> /\ Running
    BY <1>1 DEF Transient
  <2>2. LoopInv'
    BY <1>1, <2>1 DEF IInv, LoopInv, loop, Running
  <2>3. stream' \in Streams /\ attempt' \in 0..MaxAttempts /\ sent' \in Nat
    BY <2>1, Basics DEF CallsTyped, loop
  <2>4. UNCHANGED <<files, turn, calls, pos, messages, listing>>
    BY <2>1 DEF loop
  <2>5. QED
    BY <2>1, <2>2, <2>3, <2>4, CallingKeeps
<1>2. CASE ~(attempt < MaxAttempts)
  <2>1. Fail("transient") /\ "transient" \in DOMAIN FailureCode
    BY <1>2 DEF Transient, FailureCode
  <2>2. attempt = MaxAttempts /\ pc \in Labels
    BY <1>2, Basics DEF Labels
  <2>3. CallsTyped'
    BY Basics DEF CallsTyped
  <2>4. QED
    BY <2>1, <2>2, <2>3, FailKeeps
<1>3. QED
  BY <1>1, <1>2

(* Failures that may happen at any time and say nothing of the attempts.   *)
LEMMA OtherFailures ==
  ASSUME IInv, pc \in Labels, UNCHANGED <<stream, calls, pos>>,
         NEW why \in {"forbidden", "protocol", "interrupted", "toolcalls", "tool"}, Fail(why)
  PROVE  IInv'
<1>1. why \in DOMAIN FailureCode /\ why \notin {"transient", "turns"}
  BY DEF FailureCode
<1>2. CallsTyped'
  BY Basics DEF CallsTyped
<1>3. QED
  BY <1>1, <1>2, FailKeeps

LEMMA HttpErrorKeeps ==
  ASSUME IInv, HttpError \/ Interrupted \/ MalformedEvent \/ StreamEnds
  PROVE  IInv'
<1>1. pc = "answer" /\ pc \in Labels /\ UNCHANGED <<stream, calls, pos>>
  BY DEF HttpError, Interrupted, MalformedEvent, StreamEnds, Labels
<1>2. \/ Fail("forbidden") \/ Fail("protocol") \/ Fail("interrupted") \/ Transient
  BY DEF HttpError, Interrupted, MalformedEvent, StreamEnds
<1>3. QED
  BY <1>1, <1>2, OtherFailures, TransientKeeps

LEMMA EventKeeps ==
  ASSUME IInv, Event
  PROVE  IInv'
<1>1. /\ pc = "answer" /\ pc' = "answer" /\ Running
      /\ UNCHANGED <<files, loop, turn, calls, pos, messages, listing>>
  BY DEF Event, loop
<1>2. stream \in Streams
  BY Basics DEF CallsTyped
<1>3. stream' \in Streams
  BY ZenonT(40), <1>2 DEF Event, Streams
<1>4. LoopInv' /\ attempt' \in 0..MaxAttempts /\ sent' \in Nat
  BY <1>1, Basics DEF IInv, LoopInv, loop, Running
<1>5. QED
  BY <1>1, <1>3, <1>4, CallingKeeps

LEMMA DoneKeeps ==
  ASSUME IInv, Done
  PROVE  IInv'
<1>1. pc = "answer" /\ pc \in Labels /\ UNCHANGED <<stream, calls, pos>>
  BY DEF Done, Labels
<1>2. CASE Complete
  <2>1. pc' = "turn" /\ UNCHANGED <<files, loop, messages, listing>> /\ Running
    BY <1>2 DEF Done
  <2>2. LoopInv'
    BY <1>1, <2>1 DEF IInv, LoopInv, loop, Running
  <2>3. stream' \in Streams /\ attempt' \in 0..MaxAttempts /\ sent' \in Nat
    BY <1>1, <2>1, Basics DEF CallsTyped, loop
  <2>4. UNCHANGED <<files, turn, calls, pos, messages, listing>>
    BY <1>1, <2>1 DEF loop
  <2>5. QED
    BY <1>1, <2>1, <2>2, <2>3, <2>4, CallingKeeps
<1>3. CASE ~Complete
  <2>1. Fail("protocol")
    BY <1>3 DEF Done
  <2>2. QED
    BY <1>1, <2>1, OtherFailures
<1>4. QED
  BY <1>2, <1>3

-----------------------------------------------------------------------------
(* The answer of a turn.                                                   *)

(* The next turn begins with a conversation that is well formed, or there  *)
(* is none, and then every turn has sent something.                        *)
LEMMA NextTurnKeeps ==
  ASSUME IInv, pc \in {"turn", "handle"}, NEW msgs, NextTurn(msgs), UNCHANGED stream,
         msgs \in Seq(Messages), Paired(msgs, Len(msgs))
  PROVE  IInv'
<1>1. calls' = <<>> /\ pos' = 1 /\ pc \in Labels
  BY DEF NextTurn, Labels
<1>2. CallsTyped'
  BY <1>1, Basics DEF CallsTyped
<1>3. /\ turn > 0 /\ attempt > 0 /\ turn <= sent /\ code = "none"
      /\ sent <= MaxAttempts * (turn - 1) + attempt
  BY Basics DEF IInv, LoopInv, Labels
<1>4. CASE turn < MaxTurns
  <2>1. /\ pc' = "send" /\ turn' = turn + 1 /\ attempt' = 0 /\ messages' = msgs
        /\ UNCHANGED <<files, sent, listing>> /\ Running
    BY <1>4 DEF NextTurn
  <2>2. turn' \in 0..MaxTurns /\ attempt' \in 0..MaxAttempts /\ sent' \in Nat
    BY <1>4, <2>1, Basics
  <2>3. LoopInv'
    <3>1. sent <= MaxAttempts * ((turn + 1) - 1) + 0 /\ (turn + 1) - 1 <= sent /\ turn + 1 > 0
      BY SMTT(20), <1>3, Basics
    <3>2. MaxAttempts > 0
      BY Basics
    <3>3. QED
      BY <1>3, <2>1, <3>1, <3>2 DEF LoopInv, Running
  <2>4. ConversationInv'
    BY <2>1 DEF ConversationInv
  <2>5. pc \in Labels \ {"prepare", "copy"} /\ pc' \in Labels \ {"prepare", "copy"}
    BY <2>1 DEF Labels
  <2>6. /\ CopyInv' /\ copied' \in 0..Len(manifest)
        /\ UNCHANGED <<manifest, items>> /\ workspace' = (pc' # "prepare")
    BY <2>1, <2>5, FilesStay
  <2>7. ListingInv'
    BY <2>1, <2>6, ListingStays DEF IInv
  <2>8. QED
    BY <1>2, <2>1, <2>2, <2>3, <2>4, <2>5, <2>6, <2>7, GoingOnKeeps
<1>5. CASE ~(turn < MaxTurns)
  <2>1. Fail("turns") /\ "turns" \in DOMAIN FailureCode
    BY <1>5 DEF NextTurn, FailureCode
  <2>2. turn = MaxTurns /\ sent >= MaxTurns
    BY <1>3, <1>5, Basics
  <2>3. QED
    BY <1>1, <1>2, <2>1, <2>2, FailKeeps
<1>6. QED
  BY <1>4, <1>5

(* An answer that is told off, or kept without calls.                      *)
LEMMA InvalidArgumentsKeeps ==
  ASSUME IInv, InvalidArguments
  PROVE  IInv'
<1>1. /\ pc = "turn" /\ NextTurn(Append(messages, Message("user", 0))) /\ UNCHANGED stream
      /\ messages \in Seq(Messages) /\ Paired(messages, Len(messages))
  BY DEF InvalidArguments, IInv, ConversationInv
<1>2. PICK msgs : msgs = Append(messages, Message("user", 0))
  OBVIOUS
<1>3. msgs \in Seq(Messages) /\ Paired(msgs, Len(msgs))
  BY <1>1, <1>2, MessageFields, PairedGrows
<1>4. QED
  BY <1>1, <1>2, <1>3, NextTurnKeeps

LEMMA NoCallKeeps ==
  ASSUME IInv, NoCall
  PROVE  IInv'
<1>1. /\ pc = "turn" /\ UNCHANGED stream
      /\ NextTurn(messages \o <<Message("assistant", 0), Message("user", 0)>>)
      /\ messages \in Seq(Messages) /\ Paired(messages, Len(messages))
  BY DEF NoCall, IInv, ConversationInv
<1>2. PICK x \in Messages, y \in Messages :
        /\ x = Message("assistant", 0) /\ y = Message("user", 0)
        /\ x.role = "assistant" /\ x.n = 0 /\ y.role = "user"
  BY MessageFields
<1>3. PICK m : m = Append(messages, x)
  OBVIOUS
<1>4. m \in Seq(Messages) /\ Paired(m, Len(m))
  BY <1>1, <1>2, <1>3, PairedGrows
<1>5. PICK msgs : msgs = Append(m, y)
  OBVIOUS
<1>6. msgs \in Seq(Messages) /\ Paired(msgs, Len(msgs))
  BY <1>2, <1>4, <1>5, PairedGrows
<1>7. msgs = messages \o <<x, y>>
  BY <1>1, <1>2, <1>3, <1>5
<1>8. QED
  BY <1>1, <1>2, <1>6, <1>7, NextTurnKeeps

LEMMA TooManyCallsKeeps ==
  ASSUME IInv, TooManyCalls
  PROVE  IInv'
<1>1. pc = "turn" /\ pc \in Labels /\ UNCHANGED <<stream, calls, pos>> /\ Fail("toolcalls")
  BY DEF TooManyCalls, Labels
<1>2. QED
  BY <1>1, OtherFailures

LEMMA CallsKeeps ==
  ASSUME IInv, Calls
  PROVE  IInv'
<1>1. /\ pc = "turn" /\ pc' = "handle" /\ Number \in 1..MaxToolCallsPerTurn
      /\ calls' \in [1..Number -> {"finish", "tool"}] /\ pos' = 1
      /\ messages' = Append(messages, Message("assistant", Number))
      /\ UNCHANGED <<files, loop, stream, listing>> /\ Running
  BY DEF Calls
<1>2. PICK c \in Nat : c = Number /\ c \in 1..MaxToolCallsPerTurn
  BY <1>1, Basics
<1>3. calls' \in Seq({"finish", "tool"}) /\ Len(calls') = c
  BY <1>1, <1>2
<1>4. CallsTyped'
  BY <1>1, <1>2, <1>3, Basics DEF CallsTyped
<1>5. ConversationInv'
  <2>1. messages \in Seq(Messages) /\ Paired(messages, Len(messages))
    BY <1>1 DEF IInv, ConversationInv
  <2>2. /\ messages' \in Seq(Messages)
        /\ \E h \in 1..Len(messages') : Open(messages', h, c, 0)
    BY <1>1, <1>2, <2>1, OpenBegins
  <2>3. pos' - 1 = 0 /\ pos' <= c + 1
    BY <1>1
  <2>4. QED
    BY <1>1, <1>3, <2>2, <2>3 DEF ConversationInv
<1>6. pc \in Labels \ {"prepare", "copy"} /\ pc' \in Labels \ {"prepare", "copy"}
  BY <1>1 DEF Labels
<1>7. /\ CopyInv' /\ copied' \in 0..Len(manifest)
      /\ UNCHANGED <<manifest, items>> /\ workspace' = (pc' # "prepare")
  BY <1>1, <1>6, FilesStay
<1>8. ListingInv'
  BY <1>1, <1>7, ListingStays DEF IInv
<1>9. /\ turn' \in 0..MaxTurns /\ attempt' \in 0..MaxAttempts /\ sent' \in Nat
      /\ LoopInv'
  BY <1>1, Basics DEF IInv, LoopInv, loop, Running
<1>10. QED
  BY <1>1, <1>4, <1>5, <1>6, <1>7, <1>8, <1>9, GoingOnKeeps

-----------------------------------------------------------------------------
(* The calls of a turn.                                                    *)

(* A call that is answered, whatever it has shown.                         *)
LEMMA AnsweredKeeps ==
  ASSUME IInv, pc = "handle", pos \in DOMAIN calls, Answered, ListingInv'
  PROVE  IInv'
<1>1. /\ pos' = pos + 1 /\ messages' = Append(messages, Message("tool", pos))
      /\ UNCHANGED <<files, pc, loop, stream, calls>> /\ Running
  BY DEF Answered
<1>2. pos \in 1..Len(calls)
  BY Basics DEF CallsTyped
<1>3. CallsTyped'
  BY SMTT(20), <1>1, <1>2, Basics DEF CallsTyped
<1>4. PICK h \in 1..Len(messages) : Open(messages, h, Len(calls), pos - 1)
  BY DEF IInv, ConversationInv
<1>5. ConversationInv'
  <2>1. /\ Append(messages, Message("tool", pos)) \in Seq(Messages)
        /\ \E g \in 1..Len(Append(messages, Message("tool", pos))) :
             Open(Append(messages, Message("tool", pos)), g, Len(calls), pos)
    BY <1>4, Basics, OpenGoesOn
  <2>2. pos' - 1 = pos /\ pos' <= Len(calls) + 1
    BY SMTT(20), <1>1, <1>2, Basics
  <2>3. QED
    BY <1>1, <2>1, <2>2 DEF ConversationInv
<1>6. pc \in Labels \ {"prepare", "copy"} /\ pc' \in Labels \ {"prepare", "copy"}
  BY <1>1 DEF Labels
<1>7. /\ CopyInv' /\ copied' \in 0..Len(manifest)
      /\ UNCHANGED <<manifest, items>> /\ workspace' = (pc' # "prepare")
  BY <1>1, <1>6, FilesStay
<1>8. /\ turn' \in 0..MaxTurns /\ attempt' \in 0..MaxAttempts /\ sent' \in Nat
      /\ LoopInv'
  BY <1>1, Basics DEF IInv, LoopInv, loop, Running
<1>9. QED
  BY <1>1, <1>3, <1>5, <1>6, <1>7, <1>8, GoingOnKeeps

(* A report that is accepted stands on what it cites.                      *)
LEMMA AcceptedReport ==
  ASSUME NEW r, Accepts(r)
  PROVE  /\ Normalized(r) # NoReport
         /\ Normalized(r).decision = "violation" => Normalized(r).violations # <<>>
         /\ \A i \in DOMAIN Normalized(r).violations :
              \E j \in DOMAIN Normalized(r).violations[i] :
                LET e == Normalized(r).violations[i][j]
                IN  e.root = "submission" /\ e.exists /\ e.to <= Len(items)
<1>1. /\ r.decision = "violation" => r.violations # <<>>
      /\ \A i \in DOMAIN r.violations : ValidViolation(r.violations[i])
  BY DEF Accepts, ValidReport
<1>2. /\ Normalized(r).decision = r.decision /\ Normalized(r).violations = r.violations
      /\ Normalized(r).state # "none"
  BY DEF Normalized
<1>3. ASSUME NEW v, ValidViolation(v)
      PROVE  \E j \in DOMAIN v : v[j].root = "submission" /\ v[j].exists /\ v[j].to <= Len(items)
  BY <1>3 DEF ValidViolation, ValidEvidence
<1>4. NoReport.state = "none"
  BY DEF NoReport
<1>5. QED
  BY <1>1, <1>2, <1>3, <1>4

LEMMA FinishReviewKeeps ==
  ASSUME IInv, FinishReview
  PROVE  IInv'
<1>1. pc = "handle" /\ pos \in DOMAIN calls /\ calls[pos] = "finish"
  BY DEF FinishReview, Handling
<1>2. CASE Answered /\ UNCHANGED listing
  <2>1. ListingInv'
    BY <1>2, ListingStays DEF IInv, Answered, files
  <2>2. QED
    BY <1>1, <1>2, <2>1, AnsweredKeeps
<1>3. ASSUME NEW r \in Reports, Accepts(r), pc' = "finished", workspace' = FALSE,
             report' = Normalized(r),
             UNCHANGED <<manifest, items, copied, loop, stream, calls, pos, messages,
                         listing, code, cause>>
      PROVE  IInv'
  <2>1. Len(calls) = 1 /\ pos = 1
    BY <1>1, <1>3, Basics DEF Accepts, CallsTyped
  <2>2. calls = <<"finish">>
    BY <1>1, <2>1, Basics DEF CallsTyped
  <2>3. /\ Normalized(r) # NoReport
        /\ Normalized(r).decision = "violation" => Normalized(r).violations # <<>>
        /\ \A i \in DOMAIN Normalized(r).violations :
             \E j \in DOMAIN Normalized(r).violations[i] :
               LET e == Normalized(r).violations[i][j]
               IN  e.root = "submission" /\ e.exists /\ e.to <= Len(items)
    BY <1>3, AcceptedReport
  <2>4. copied = Len(manifest) /\ \A i \in 1..copied : manifest[i] = "same"
    BY <1>1 DEF IInv, CopyInv
  <2>5. DOMAIN manifest = 1..Len(manifest)
    BY ReviewConstants DEF IInv, TypeOK
  <2>6. ReportStandsOnEvidence'
    BY <1>3, <2>2, <2>3, <2>4, <2>5 DEF ReportStandsOnEvidence
  <2>7. code = "none"
    BY <1>1, Basics
  <2>8. TypeOK'
    BY <1>3, <2>3, <2>7 DEF IInv, TypeOK, loop
  <2>9. CopyInv'
    BY <1>3, <2>4 DEF CopyInv
  <2>10. LoopInv' /\ ConversationInv'
    BY <1>1, <1>3 DEF IInv, LoopInv, ConversationInv, loop
  <2>11. ListingInv'
    BY <1>3, ListingStays DEF IInv
  <2>12. QED
    BY <2>6, <2>8, <2>9, <2>10, <2>11 DEF IInv
<1>4. QED
  BY <1>2, <1>3 DEF FinishReview

LEMMA ToolRaisesKeeps ==
  ASSUME IInv, ToolRaises
  PROVE  IInv'
<1>1. pc = "handle" /\ pc \in Labels /\ UNCHANGED <<stream, calls, pos>> /\ Fail("tool")
  BY DEF ToolRaises, Handling, Labels
<1>2. QED
  BY <1>1, OtherFailures

LEMMA EndTurnKeeps ==
  ASSUME IInv, EndTurn
  PROVE  IInv'
<1>1. pc = "handle" /\ pos > Len(calls) /\ UNCHANGED stream
  BY DEF EndTurn
<1>2. PICK h \in 1..Len(messages) : Open(messages, h, Len(calls), pos - 1)
  BY <1>1 DEF IInv, ConversationInv
<1>3. pos - 1 = Len(calls)
  BY <1>1, Basics DEF IInv, ConversationInv
<1>4. messages \in Seq(Messages) /\ Paired(messages, Len(messages))
  BY <1>2, <1>3, Basics, OpenEnds
<1>5. PICK m : m = Append(messages, Message("user", 0))
  OBVIOUS
<1>6. m \in Seq(Messages) /\ Paired(m, Len(m))
  BY <1>4, <1>5, MessageFields, PairedGrows
<1>7. NextTurn(m) \/ NextTurn(messages)
  BY <1>5 DEF EndTurn
<1>8. QED
  BY <1>1, <1>4, <1>6, <1>7, NextTurnKeeps

-----------------------------------------------------------------------------
(* What the model sees of a listing.                                       *)

LEMMA ObserveListing ==
  ASSUME NEW tool \in ListingTools, NEW from, NEW to
  PROVE  /\ Observe(tool, from, to) \in
              {ListTree(items, from), Search(items, from), CompareFile(items, from)}
         /\ tool = "search" => Observe(tool, from, to) = Search(items, from)
<1>1. CASE tool = "list_tree"
  BY <1>1 DEF Observe
<1>2. CASE tool = "search"
  BY <1>2 DEF Observe
<1>3. CASE tool = "compare_file"
  BY <1>3 DEF Observe
<1>4. QED
  BY <1>1, <1>2, <1>3 DEF ListingTools

LEMMA ObserveLines ==
  ASSUME NEW from, NEW to
  PROVE  Observe("read_lines", from, to) = ReadLines(items, from, to)
BY DEF Observe

(* The next page of a listing, or its first, which begins at 0.            *)
LEMMA ListingPageKeeps ==
  ASSUME items \in Seq(Nat), UNCHANGED items, NEW tool \in ListingTools,
         NEW from \in 0..Len(items), from < Len(items) \/ from = 0, NEW o,
         o \in {ListTree(items, from), Search(items, from), CompareFile(items, from)},
         tool = "search" => o = Search(items, from),
         listing' = [tool |-> tool, seen |-> 1..from \cup Shown(o), asked |-> 1..Len(items),
                     next |-> IF o.ok \/ from = 0 THEN o.next ELSE from, refused |-> ~o.ok]
  PROVE  ListingInv'
<1>1. Len(items) \in Nat /\ Nothing \notin Nat
  BY ToolConstants
<1>2. \/ ~o.ok /\ o # Search(items, from) /\ o.next = Nothing /\ Shown(o) = {}
      \/ o.ok /\ o.next = Nothing /\ Shown(o) = (from + 1)..Len(items)
      \/ /\ o.ok /\ o.next \in (from + 1)..(Len(items) - 1) /\ o.next # Nothing
         /\ Shown(o) = (from + 1)..o.next
  BY ListPage
<1>3. tool \in ListingTools \cup {"none", "read_lines"} /\ tool # "none" /\ tool # "read_lines"
  BY DEF ListingTools
<1>4. /\ listing'.tool = tool /\ listing'.seen = 1..from \cup Shown(o)
      /\ listing'.next = IF o.ok \/ from = 0 THEN o.next ELSE from
      /\ listing'.asked = 1..Len(items) /\ listing'.refused = ~o.ok
  OBVIOUS
<1>5. /\ Shown(o) \in SUBSET Int /\ o.next \in Nat \cup {Nothing} /\ (~o.ok) \in BOOLEAN
      /\ 1..from \in SUBSET Int /\ 1..Len(items) \in SUBSET Nat
  BY <1>1, <1>2
<1>6. listing' \in [tool : ListingTools \cup {"none", "read_lines"}, seen : SUBSET Int,
                    asked : SUBSET Nat, next : Nat \cup {Nothing}, refused : BOOLEAN]
  BY <1>3, <1>5
<1>7. ListInv'
  <2>1. CASE ~o.ok /\ o # Search(items, from) /\ o.next = Nothing /\ Shown(o) = {}
    <3>1. CASE from = 0
      <4>1. 1..from \cup Shown(o) = {}
        BY <2>1, <3>1
      <4>2. QED
        BY <1>4, <2>1, <3>1, <4>1 DEF ListInv
    <3>2. CASE from # 0
      <4>1. /\ 1..from \cup Shown(o) = 1..from /\ from \in 1..(Len(items) - 1)
            /\ from # Nothing
        BY <1>1, <2>1, <3>2
      <4>2. QED
        BY <1>4, <2>1, <3>2, <4>1 DEF ListInv
    <3>3. QED
      BY <3>1, <3>2
  <2>2. CASE o.ok /\ o.next = Nothing /\ Shown(o) = (from + 1)..Len(items)
    <3>1. 1..from \cup Shown(o) = 1..Len(items)
      BY <1>1, <2>2
    <3>2. QED
      BY <1>4, <2>2, <3>1 DEF ListInv
  <2>3. CASE /\ o.ok /\ o.next \in (from + 1)..(Len(items) - 1) /\ o.next # Nothing
             /\ Shown(o) = (from + 1)..o.next
    <3>1. o.next \in 1..(Len(items) - 1) /\ 1..from \cup Shown(o) = 1..o.next
      BY <1>1, <2>3
    <3>2. QED
      BY <1>4, <2>3, <3>1 DEF ListInv
  <2>4. QED
    BY <1>2, <2>1, <2>2, <2>3
<1>8. LinesInv'
  BY <1>3, <1>4 DEF LinesInv
<1>9. QED
  BY <1>3, <1>4, <1>6, <1>7, <1>8 DEF ListingInv

(* The next page of a range of lines begins at the line from; the range    *)
(* began at the line first.                                                *)
LEMMA LinesPageKeeps ==
  ASSUME items \in Seq(Nat), UNCHANGED items, NEW first \in 1..Len(items),
         NEW from \in 1..Len(items), NEW to \in 1..Len(items), first <= from, from <= to,
         NEW o, o = ReadLines(items, from, to),
         listing' = [tool |-> "read_lines", seen |-> first..(from - 1) \cup Shown(o),
                     asked |-> first..to,
                     next |-> IF o.ok \/ from = first THEN o.next ELSE from,
                     refused |-> ~o.ok]
  PROVE  ListingInv'
<1>1. Len(items) \in Nat /\ Nothing \notin Nat /\ to \in from..Len(items) /\ MaxReadLines \in Nat
  BY ToolConstants
<1>2. \/ ~o.ok /\ o.next = Nothing /\ Shown(o) = {}
      \/ /\ o.ok /\ o.next = Nothing
         /\ Shown(o) = from..to \/ to - from + 1 > MaxReadLines
      \/ /\ o.ok /\ o.next \in (from + 1)..to /\ o.next # Nothing
         /\ Shown(o) = from..(o.next - 1)
  BY <1>1, LinesPage
<1>3. Shown(o) \in SUBSET Int /\ first..(from - 1) \in SUBSET Int /\ (~o.ok) \in BOOLEAN
  BY <1>2 DEF Shown
<1>4. "read_lines" \notin ListingTools
  BY DEF ListingTools
<1>5. /\ listing'.tool = "read_lines" /\ listing'.seen = first..(from - 1) \cup Shown(o)
      /\ listing'.next = IF o.ok \/ from = first THEN o.next ELSE from
      /\ listing'.asked = first..to /\ listing'.refused = ~o.ok
  OBVIOUS
<1>6. listing' \in [tool : ListingTools \cup {"none", "read_lines"}, seen : SUBSET Int,
                    asked : SUBSET Nat, next : Nat \cup {Nothing}, refused : BOOLEAN]
  <2>1. o.next \in Nat \cup {Nothing} /\ first..to \in SUBSET Nat
    BY <1>1, <1>2
  <2>2. QED
    BY <1>3, <2>1
<1>7. /\ listing'.next = Nothing =>
           IF listing'.refused THEN listing'.seen = {}
           ELSE listing'.seen = first..to \/ to - first + 1 > MaxReadLines
      /\ listing'.next # Nothing =>
           /\ listing'.next \in (first + 1)..to
           /\ listing'.seen = first..(listing'.next - 1)
  <2>1. CASE ~o.ok /\ o.next = Nothing /\ Shown(o) = {}
    <3>1. CASE from = first
      <4>1. first..(from - 1) \cup Shown(o) = {}
        BY <2>1, <3>1
      <4>2. QED
        BY <1>5, <2>1, <3>1, <4>1
    <3>2. CASE from # first
      <4>1. first..(from - 1) \cup Shown(o) = first..(from - 1)
        BY <2>1
      <4>2. from \in (first + 1)..to /\ from # Nothing
        BY <1>1, <3>2
      <4>3. QED
        BY <1>5, <2>1, <3>2, <4>1, <4>2
    <3>3. QED
      BY <3>1, <3>2
  <2>2. CASE /\ o.ok /\ o.next = Nothing
             /\ Shown(o) = from..to \/ to - from + 1 > MaxReadLines
    <3>1. CASE Shown(o) = from..to
      <4>1. first..(from - 1) \cup Shown(o) = first..to
        BY <1>1, <3>1
      <4>2. QED
        BY <1>5, <2>2, <4>1
    <3>2. CASE to - from + 1 > MaxReadLines
      <4>1. to - first + 1 > MaxReadLines
        BY <1>1, <3>2
      <4>2. QED
        BY <1>5, <2>2, <4>1
    <3>3. QED
      BY <2>2, <3>1, <3>2
  <2>3. CASE /\ o.ok /\ o.next \in (from + 1)..to /\ o.next # Nothing
             /\ Shown(o) = from..(o.next - 1)
    <3>1. o.next \in (first + 1)..to /\ first..(from - 1) \cup Shown(o) = first..(o.next - 1)
      BY <1>1, <2>3
    <3>2. QED
      BY <1>5, <2>3, <3>1
  <2>4. QED
    BY <1>2, <2>1, <2>2, <2>3
<1>8. LinesInv'
  <2>1. first \in 1..Len(items') /\ to \in 1..Len(items') /\ first <= to
    BY <1>1
  <2>2. QED
    BY <1>5, <1>7, <2>1 DEF LinesInv
<1>9. ListInv'
  BY <1>4, <1>5 DEF ListInv
<1>10. QED
  BY <1>5, <1>6, <1>8, <1>9 DEF ListingInv

LEMMA FirstPageKeeps ==
  ASSUME IInv, FirstPage, UNCHANGED items
  PROVE  ListingInv'
<1>1. items \in Seq(Nat) /\ Len(items) \in Nat /\ DOMAIN items = 1..Len(items)
  BY SubmissionTyped DEF IInv
<1>2. ASSUME NEW tool \in ListingTools, NEW o, o = Observe(tool, 0, 0),
             listing' = [tool |-> tool, seen |-> Shown(o), asked |-> DOMAIN items,
                         next |-> o.next, refused |-> ~o.ok]
      PROVE  ListingInv'
  <2>1. /\ o \in {ListTree(items, 0), Search(items, 0), CompareFile(items, 0)}
        /\ tool = "search" => o = Search(items, 0)
    BY <1>2, ObserveListing
  <2>2. 0 \in 0..Len(items)
    BY <1>1
  <2>3. 1..0 \cup Shown(o) = Shown(o)
    OBVIOUS
  <2>4. listing' = [tool |-> tool, seen |-> 1..0 \cup Shown(o), asked |-> 1..Len(items),
                    next |-> IF o.ok \/ 0 = 0 THEN o.next ELSE 0, refused |-> ~o.ok]
    BY <1>1, <1>2, <2>3
  <2>5. QED
    BY <1>1, <2>1, <2>2, <2>4, ListingPageKeeps
<1>3. ASSUME NEW from \in DOMAIN items, NEW to \in DOMAIN items, NEW o,
             o = Observe("read_lines", from, to), from <= to,
             listing' = [tool |-> "read_lines", seen |-> Shown(o), asked |-> from..to,
                         next |-> o.next, refused |-> ~o.ok]
      PROVE  ListingInv'
  <2>1. o = ReadLines(items, from, to)
    BY <1>3, ObserveLines
  <2>2. from \in 1..Len(items) /\ to \in 1..Len(items) /\ from <= from
    BY <1>1
  <2>3. from..(from - 1) \cup Shown(o) = Shown(o)
    BY <2>2
  <2>4. listing' = [tool |-> "read_lines", seen |-> from..(from - 1) \cup Shown(o),
                    asked |-> from..to,
                    next |-> IF o.ok \/ from = from THEN o.next ELSE from,
                    refused |-> ~o.ok]
    BY <1>3, <2>3
  <2>5. QED
    BY <1>1, <1>3, <2>1, <2>2, <2>4, LinesPageKeeps
<1>4. QED
  BY <1>2, <1>3 DEF FirstPage

LEMMA NextPageKeeps ==
  ASSUME IInv, NextPage, UNCHANGED items
  PROVE  ListingInv'
<1>1. /\ items \in Seq(Nat) /\ Len(items) \in Nat /\ ListingInv /\ listing.next # Nothing
      /\ listing \in [tool : ListingTools \cup {"none", "read_lines"}, seen : SUBSET Int,
                      asked : SUBSET Nat, next : Nat \cup {Nothing}, refused : BOOLEAN]
  BY SubmissionTyped DEF IInv, ListingInv, NextPage
<1> DEFINE last == CHOOSE n \in listing.asked : \A m \in listing.asked : m <= n
           page == Observe(listing.tool, listing.next, last)
<1>7. listing' = [listing EXCEPT !.seen = @ \cup Shown(page), !.refused = ~page.ok,
                                 !.next = IF page.ok THEN page.next ELSE @]
  BY DEF NextPage
<1> HIDE DEF last, page
<1>2. PICK o, to :
        /\ to = last /\ o = Observe(listing.tool, listing.next, to)
        /\ listing' = [listing EXCEPT !.seen = @ \cup Shown(o), !.refused = ~o.ok,
                                      !.next = IF o.ok THEN o.next ELSE @]
  BY <1>7 DEF page
<1>3. listing' = [tool |-> listing.tool, seen |-> listing.seen \cup Shown(o),
                  asked |-> listing.asked,
                  next |-> IF o.ok THEN o.next ELSE listing.next, refused |-> ~o.ok]
  BY <1>1, <1>2
<1>4. CASE listing.tool \in ListingTools
  <2>1. /\ listing.next \in 1..(Len(items) - 1) /\ listing.asked = 1..Len(items)
        /\ listing.seen = 1..listing.next
    BY <1>1, <1>4 DEF ListingInv, ListInv
  <2>2. PICK from \in 0..Len(items), tool \in ListingTools :
          from = listing.next /\ tool = listing.tool /\ from < Len(items) /\ from # 0
    BY <1>1, <1>4, <2>1
  <2>3. /\ o \in {ListTree(items, from), Search(items, from), CompareFile(items, from)}
        /\ tool = "search" => o = Search(items, from)
    BY <1>2, <2>2, ObserveListing
  <2>4. listing' = [tool |-> tool, seen |-> 1..from \cup Shown(o), asked |-> 1..Len(items),
                    next |-> IF o.ok \/ from = 0 THEN o.next ELSE from, refused |-> ~o.ok]
    BY <1>3, <2>1, <2>2
  <2>5. QED
    BY <1>1, <2>2, <2>3, <2>4, ListingPageKeeps
<1>5. CASE listing.tool = "read_lines"
  <2>1. PICK first, end \in 1..Len(items) :
          /\ first <= end /\ listing.asked = first..end
          /\ listing.next \in (first + 1)..end
          /\ listing.seen = first..(listing.next - 1)
    BY <1>1, <1>5 DEF ListingInv, LinesInv
  <2>2. to = end
    <3>1. end \in listing.asked /\ \A m \in listing.asked : m <= end
      BY <2>1
    <3>2. last \in listing.asked /\ \A m \in listing.asked : m <= last
      BY <3>1 DEF last
    <3>3. QED
      BY <1>2, <2>1, <3>1, <3>2
  <2>3. PICK from \in 1..Len(items) : from = listing.next /\ from # first
    BY <1>1, <2>1
  <2>4. o = ReadLines(items, from, end)
    BY <1>2, <1>5, <2>2, <2>3, ObserveLines
  <2>5. listing' = [tool |-> "read_lines", seen |-> first..(from - 1) \cup Shown(o),
                    asked |-> first..end,
                    next |-> IF o.ok \/ from = first THEN o.next ELSE from,
                    refused |-> ~o.ok]
    BY <1>3, <1>5, <2>1, <2>3
  <2>6. first <= from /\ from <= end
    BY <1>1, <2>1, <2>3
  <2>7. QED
    BY <1>1, <2>4, <2>5, <2>6, LinesPageKeeps
<1>6. QED
  BY <1>1, <1>4, <1>5 DEF ListingInv, NoListing

LEMMA CallToolKeeps ==
  ASSUME IInv, CallTool
  PROVE  IInv'
<1>1. pc = "handle" /\ pos \in DOMAIN calls /\ Answered /\ UNCHANGED items
  BY DEF CallTool, Handling, Answered, files
<1>2. ListingInv'
  <2>1. CASE Declined
    BY <1>1, <2>1, ListingStays DEF IInv, Declined
  <2>2. QED
    BY <1>1, <2>1, FirstPageKeeps, NextPageKeeps DEF CallTool
<1>3. QED
  BY <1>1, <1>2, AnsweredKeeps

-----------------------------------------------------------------------------
(* The invariant, and what it says.                                        *)

LEMMA InitEstablishes == Init => IInv
<1> SUFFICES ASSUME Init PROVE IInv
  OBVIOUS
<1>1. Len(manifest) \in Nat
  BY ReviewConstants DEF Init
<1>2. TypeOK
  <2>1. /\ NoStream \in Streams /\ <<>> \in Seq({"finish", "tool"}) /\ Len(<<>>) = 0
        /\ DOMAIN <<>> = {} /\ 0 \in 0..MaxTurns /\ 0 \in 0..MaxAttempts
        /\ 0 \in 0..Len(manifest) /\ 1 \in 1..(MaxToolCallsPerTurn + 1)
        /\ 0 <= MaxToolCallsPerTurn
    BY <1>1, ReviewConstants DEF NoStream, Streams
  <2>2. QED
    BY <2>1 DEF Init, TypeOK, Streams
<1>3. CopyInv
  BY DEF Init, CopyInv
<1>4. LoopInv
  BY DEF Init, LoopInv
<1>5. ConversationInv
  BY DEF Init, ConversationInv
<1>6. ReportStandsOnEvidence
  BY DEF Init, ReportStandsOnEvidence
<1>7. ListingInv
  BY DEF Init, ListingInv, ListInv, LinesInv, NoListing, ListingTools
<1>8. QED
  BY <1>2, <1>3, <1>4, <1>5, <1>6, <1>7 DEF IInv

LEMMA StutteringKeeps ==
  ASSUME IInv, UNCHANGED vars
  PROVE  IInv'
<1>1. /\ UNCHANGED <<manifest, items, copied, workspace, pc, turn, attempt, sent, stream>>
      /\ UNCHANGED <<calls, pos, messages, listing, code, cause, report>>
  BY DEF vars, files, loop
<1>2. TypeOK'
  BY <1>1 DEF IInv, TypeOK
<1>3. CopyInv'
  BY <1>1 DEF IInv, CopyInv
<1>4. LoopInv'
  BY <1>1 DEF IInv, LoopInv
<1>5. ConversationInv'
  BY <1>1 DEF IInv, ConversationInv
<1>6. ReportStandsOnEvidence'
  BY <1>1 DEF IInv, ReportStandsOnEvidence
<1>7. ListingInv'
  BY <1>1, ListingStays DEF IInv
<1>8. QED
  BY <1>2, <1>3, <1>4, <1>5, <1>6, <1>7 DEF IInv

LEMMA StepKeeps == IInv /\ [Next]_vars => IInv'
<1> SUFFICES ASSUME IInv, [Next]_vars PROVE IInv'
  OBVIOUS
<1>1. CASE Prepare \/ CopyFile \/ BeginReview
  BY <1>1, PrepareKeeps, CopyFileKeeps, BeginReviewKeeps
<1>2. CASE Send \/ HttpError \/ Interrupted \/ Event \/ MalformedEvent \/ StreamEnds \/ Done
  BY <1>2, SendKeeps, HttpErrorKeeps, EventKeeps, DoneKeeps
<1>3. CASE InvalidArguments \/ NoCall \/ TooManyCalls \/ Calls
  BY <1>3, InvalidArgumentsKeeps, NoCallKeeps, TooManyCallsKeeps, CallsKeeps
<1>4. CASE FinishReview \/ CallTool \/ ToolRaises \/ EndTurn
  BY <1>4, FinishReviewKeeps, CallToolKeeps, ToolRaisesKeeps, EndTurnKeeps
<1>5. CASE UNCHANGED vars
  BY <1>5, StutteringKeeps
<1>6. QED
  BY <1>1, <1>2, <1>3, <1>4, <1>5 DEF Next

(* What the invariant says of files, turns, conversation and listing holds *)
(* in every reachable state of an execution.                               *)
THEOREM Invariance == Spec => []IInv
BY InitEstablishes, StepKeeps, PTL DEF Spec

(* Every variable has its type, the workspace exists while it is used only *)
(* and a review ends with a report or with a failure code (execute).       *)
THEOREM Typed == Spec => []TypeOK
<1>1. IInv => TypeOK
  BY DEF IInv
<1>2. QED
  BY <1>1, Invariance, PTL

(* Whatever is sent to the model is a conversation in which every answer   *)
(* has its results (agent_reviewer.py review).                             *)
THEOREM ConversationsAreWellFormed == Spec => []ConversationWellFormed
<1>1. IInv => ConversationWellFormed
  <2> SUFFICES ASSUME IInv, pc = "send"
               PROVE  \A i \in DOMAIN messages :
                        /\ messages[i].role = "assistant" =>
                             \A k \in 1..messages[i].n :
                               /\ i + k \in DOMAIN messages
                               /\ messages[i + k] = Message("tool", k)
                        /\ messages[i].role = "tool" =>
                             \E j \in 1..(i - 1) :
                               /\ messages[j].role = "assistant"
                               /\ j + messages[i].n = i /\ messages[i].n <= messages[j].n
    BY DEF ConversationWellFormed
  <2>1. messages \in Seq(Messages) /\ Paired(messages, Len(messages))
    BY DEF IInv, ConversationInv
  <2>2. DOMAIN messages = 1..Len(messages) /\ Len(messages) \in Nat
    BY <2>1
  <2>3. TAKE i \in DOMAIN messages
  <2>4. messages[i].n \in Nat
    BY <2>1, <2>2, MessageAt
  <2>5. QED
    BY SMTT(20), <2>1, <2>2, <2>4 DEF Paired
<1>2. QED
  BY <1>1, Invariance, PTL

(* A report is returned only of a whole copy, alone in its turn, and its   *)
(* violations cite lines that exist (_finish_report, validate_evidence).   *)
THEOREM ReportsStandOnEvidence == Spec => []ReportStandsOnEvidence
<1>1. IInv => ReportStandsOnEvidence
  BY DEF IInv
<1>2. QED
  BY <1>1, Invariance, PTL

(* Turns times attempts bound the calls of the model, and a failure code   *)
(* that tells of a limit is true (review, complete).                       *)
THEOREM ModelCallsAreBounded == Spec => []CallsBounded
<1>1. IInv => CallsBounded
  <2> SUFFICES ASSUME IInv PROVE CallsBounded
    OBVIOUS
  <2>1. /\ turn \in 0..MaxTurns /\ attempt \in 0..MaxAttempts /\ sent \in Nat
        /\ MaxTurns \in Nat /\ MaxAttempts \in {1, 2} /\ LoopInv
    BY Basics DEF IInv
  <2>2. CASE turn = 0
    BY <2>1, <2>2 DEF LoopInv, CallsBounded
  <2>3. CASE turn > 0
    <3>1. sent <= MaxAttempts * (turn - 1) + attempt
      BY <2>1, <2>3 DEF LoopInv
    <3>2. MaxAttempts * (turn - 1) + attempt <= MaxAttempts * MaxTurns
      BY <2>1, <2>3
    <3>3. sent <= MaxAttempts * MaxTurns
      BY <2>1, <3>1, <3>2
    <3>4. QED
      BY <2>1, <2>3, <3>1, <3>3 DEF LoopInv, CallsBounded
  <2>4. QED
    BY <2>1, <2>2, <2>3
<1>2. QED
  BY <1>1, Invariance, PTL

(* What was seen of a listing is what lies before the cursor, and all of   *)
(* it when a tool says that there is no rest, for listings of any length   *)
(* and items of any size: a page that is refused as too big loses nothing  *)
(* and a search is never refused (list_tree, search, compare_file,         *)
(* read_lines).                                                            *)
THEOREM ContinuationsCover == Spec => []ContinuationCovers
<1>1. IInv => ContinuationCovers
  <2> SUFFICES ASSUME IInv PROVE ContinuationCovers
    OBVIOUS
  <2>1. ListingInv /\ Nothing \notin Nat /\ Len(items) \in Nat
    BY ToolConstants, SubmissionTyped DEF IInv
  <2>2. CASE listing.tool \in ListingTools
    <3>1. ListInv /\ listing.tool # "read_lines"
      BY <2>1, <2>2 DEF ListingInv, ListingTools
    <3>2. ASSUME listing.next # Nothing
          PROVE  listing.seen # {} /\ listing.seen = {n \in listing.asked : n <= listing.next}
      <4>1. /\ listing.next \in 1..(Len(items) - 1) /\ listing.seen = 1..listing.next
            /\ listing.asked = 1..Len(items)
        BY <2>2, <3>1, <3>2 DEF ListInv
      <4>2. 1 \in listing.seen
        BY <4>1
      <4>3. QED
        BY <2>1, <4>1, <4>2
    <3>3. QED
      BY <2>2, <3>1, <3>2 DEF ListInv, ContinuationCovers
  <2>3. CASE listing.tool = "read_lines"
    <3>1. PICK from, to \in 1..Len(items) :
            /\ from <= to /\ listing.asked = from..to
            /\ listing.next = Nothing =>
                 IF listing.refused THEN listing.seen = {}
                 ELSE listing.seen = from..to \/ to - from + 1 > MaxReadLines
            /\ listing.next # Nothing =>
                 listing.next \in (from + 1)..to /\ listing.seen = from..(listing.next - 1)
      BY <2>1, <2>3 DEF ListingInv, LinesInv
    <3>2. Cardinality(listing.asked) = to - from + 1
      <4>1. from \in Int /\ to \in Int /\ ~(from > to) /\ listing.asked = from..to
        BY <2>1, <3>1
      <4>2. QED
        BY <4>1, FS_Interval
    <3>3. ASSUME listing.next # Nothing
          PROVE  /\ listing.seen # {}
                 /\ listing.seen = {n \in listing.asked : n <= listing.next - 1}
      <4>1. from \in listing.seen
        BY <3>1, <3>3
      <4>2. QED
        BY <3>1, <3>3, <4>1
    <3>4. QED
      BY <2>3, <3>1, <3>2, <3>3 DEF ContinuationCovers
  <2>4. CASE listing = NoListing
    BY <2>4 DEF NoListing, ContinuationCovers
  <2>5. QED
    BY <2>1, <2>2, <2>3, <2>4 DEF ListingInv
<1>2. QED
  BY <1>1, Invariance, PTL
=============================================================================
