---------------------------- MODULE AgentReview ----------------------------
(***************************************************************************)
(* One execution of LocalAgentRunExecutor (agent_execution.py): it copies  *)
(* a submission into a private workspace (agent_workspace.py), and lets a  *)
(* model examine it with read-only tools until the model submits a report  *)
(* (WorkspaceAgentReviewer, agent_reviewer.py).  The model is reached over *)
(* HTTP; its answers arrive as a stream of events.  Everything the model,  *)
(* the network and the files can do is left open; the code turns it into a *)
(* valid report or into one failure code, on which the run service decides *)
(* whether the run is tried again.                                         *)
(*                                                                         *)
(* One action is one copied file, one HTTP response, one event of a stream *)
(* or one tool call.  Texts are left out: a report is its decision, the    *)
(* evidence it cites, and whether its other fields are well formed.        *)
(***************************************************************************)
EXTENDS AgentTools

CONSTANTS
  MaxTurns, MaxToolCallsPerTurn,
  MaxAttempts,   \* HTTP calls in a turn, one or two
  HintTurns,     \* for so many last turns the model is told to finish
  MaxIndex,      \* bound: tool calls in an answer are numbered 0 .. MaxIndex
  Manifests,     \* what a submission can declare: per file, whether it is
                 \* there with the declared size and digest
  Contents,      \* what the tools can have to list: sizes of items
  Reports        \* what a model can submit as its report

(* The constructor checks the first three.                                 *)
ASSUME ReviewConstants ==
  /\ MaxTurns \in Nat \ {0}
  /\ MaxToolCallsPerTurn \in Nat \ {0}
  /\ MaxAttempts \in {1, 2}
  /\ HintTurns \in Nat
  /\ MaxIndex \in Nat
  /\ Manifests \subseteq Seq({"same", "different", "unsafe"})
  /\ Contents \subseteq Seq(Nat \ {0})

VARIABLES
  manifest, items,  \* the submission; never change
  copied,     \* files of the manifest copied so far
  workspace,  \* the temporary directory exists
  pc,
  turn,       \* the current turn, from 1
  attempt,    \* HTTP calls in this turn, the current one included
  sent,       \* HTTP calls of the whole review
  stream,     \* what the events so far amount to
  calls,      \* the tool calls of this turn: "finish" or "tool"
  pos,        \* the call to be handled
  messages,   \* the conversation
  listing,    \* what the model has seen of one listing, page by page
  code,       \* the failure code
  cause,      \* what happened when it was set
  report      \* the report returned

files == <<manifest, items, copied, workspace>>
loop  == <<turn, attempt, sent>>
vars  == <<files, pc, loop, stream, calls, pos, messages, listing, code, cause, report>>

-----------------------------------------------------------------------------
(* Failures.                                                               *)

(* The handlers of execute, by what is raised.                             *)
FailureCode ==
  [basis       |-> "BASELINE_MISSING",
   workspace   |-> "WORKSPACE_INVALID",
   forbidden   |-> "MODEL_CONFIGURATION_ERROR",
   transient   |-> "MODEL_UNAVAILABLE",
   turns       |-> "TURN_LIMIT_REACHED",
   toolcalls   |-> "TOOL_CALL_LIMIT_REACHED",
   protocol    |-> "RESULT_INVALID",
   interrupted |-> "WORKSPACE_INVALID",
   tool        |-> "WORKSPACE_INVALID"]

(* With the exception the temporary directory goes.                        *)
Fail(why) ==
  /\ pc' = "failed" /\ workspace' = FALSE
  /\ cause' = why /\ code' = FailureCode[why]
  /\ UNCHANGED <<manifest, items, copied, loop, messages, listing, report>>

Running == UNCHANGED <<code, cause, report>>

-----------------------------------------------------------------------------
(* The workspace.                                                          *)

Prepare ==
  /\ pc = "prepare"
  /\ \/ Fail("basis")
     \/ /\ pc' = "copy" /\ workspace' = TRUE
        /\ UNCHANGED <<manifest, items, copied, loop, messages, listing>> /\ Running
  /\ UNCHANGED <<stream, calls, pos>>

(* Mutant of CopyFile: a file that does not match is read again.           *)
CopyAgain ==
  /\ pc = "copy" /\ copied < Len(manifest)
  /\ manifest[copied + 1] = "same"
  /\ copied' = copied + 1
  /\ UNCHANGED <<manifest, items, workspace, pc, loop, messages, listing>> /\ Running
  /\ UNCHANGED <<stream, calls, pos>>

CopyFile ==
  /\ pc = "copy" /\ copied < Len(manifest)
  /\ IF manifest[copied + 1] = "same"
     THEN /\ copied' = copied + 1
          /\ UNCHANGED <<manifest, items, workspace, pc, loop, messages, listing>>
          /\ Running
     ELSE Fail("workspace")
  /\ UNCHANGED <<stream, calls, pos>>

-----------------------------------------------------------------------------
(* A turn begins with an HTTP call.                                        *)

Message(role, n) == [role |-> role, n |-> n]

NoStream == [choice |-> FALSE, finish |-> FALSE, indices |-> {}, heads |-> {}]
NoListing ==
  [tool |-> "none", seen |-> {}, asked |-> {}, next |-> Nothing, refused |-> FALSE]

(* The instructions and the task.                                          *)
FirstMessages == <<Message("system", 0), Message("user", 0)>>

(* The rest of the workspace (baseline, references, context) is written,   *)
(* and the review begins.                                                  *)
BeginReview ==
  /\ pc = "copy" /\ copied = Len(manifest)
  /\ pc' = "send" /\ turn' = 1
  /\ messages' = FirstMessages
  /\ UNCHANGED <<files, attempt, sent, stream, calls, pos, listing>> /\ Running

Send ==
  /\ pc = "send"
  /\ pc' = "answer" /\ attempt' = attempt + 1 /\ sent' = sent + 1
  /\ stream' = NoStream
  /\ UNCHANGED <<files, turn, calls, pos, messages, listing>> /\ Running

(* Mutant of Transient: the attempts are not counted.                      *)
AlwaysOnceMore ==
  /\ pc' = "send"
  /\ UNCHANGED <<files, loop, messages, listing>> /\ Running

(* TransientAgentReviewError: once more, or the review fails.              *)
Transient ==
  IF attempt < MaxAttempts
  THEN /\ pc' = "send"
       /\ UNCHANGED <<files, loop, messages, listing>> /\ Running
  ELSE Fail("transient")

(* 401 and 403; other refusals; 408, 409, 425, 429, 500 and more, a        *)
(* timeout, or a server that cannot be reached.                            *)
HttpError ==
  /\ pc = "answer" /\ stream = NoStream
  /\ Fail("forbidden") \/ Fail("protocol") \/ Transient
  /\ UNCHANGED <<stream, calls, pos>>

(* The connection breaks before the response, or within it: an OSError     *)
(* that is neither a TimeoutError nor a URLError.                          *)
Interrupted ==
  /\ pc = "answer"
  /\ Fail("interrupted")
  /\ UNCHANGED <<stream, calls, pos>>

(* Events: a choice with or without a piece of text, a finish reason, the  *)
(* head (id, type and name) of a tool call, or more arguments of it.       *)
Event ==
  /\ pc = "answer"
  /\ \/ stream' = [stream EXCEPT !.choice = TRUE]
     \/ stream' = [stream EXCEPT !.choice = TRUE, !.finish = TRUE]
     \/ \E i \in 0..MaxIndex :
          \/ stream' = [stream EXCEPT !.choice = TRUE, !.indices = @ \cup {i},
                                      !.heads = @ \cup {i}]
          \/ stream' = [stream EXCEPT !.choice = TRUE, !.indices = @ \cup {i}]
  /\ UNCHANGED <<files, pc, loop, calls, pos, messages, listing>> /\ Running

(* An event that is no JSON object or contradicts the ones before, or one  *)
(* too many for the size limit.                                            *)
MalformedEvent ==
  /\ pc = "answer"
  /\ Fail("protocol")
  /\ UNCHANGED <<stream, calls, pos>>

(* The stream ends before [DONE].                                          *)
StreamEnds ==
  /\ pc = "answer"
  /\ Transient
  /\ UNCHANGED <<stream, calls, pos>>

Complete ==
  /\ stream.choice /\ stream.finish
  /\ stream.indices = 0..(Cardinality(stream.indices) - 1)
  /\ stream.heads = stream.indices

(* [DONE]                                                                  *)
Done ==
  /\ pc = "answer"
  /\ IF Complete
     THEN /\ pc' = "turn"
          /\ UNCHANGED <<files, loop, messages, listing>> /\ Running
     ELSE Fail("protocol")
  /\ UNCHANGED <<stream, calls, pos>>

-----------------------------------------------------------------------------
(* The answer of a turn.                                                   *)

Number == Cardinality(stream.indices)

(* The next turn, or none is left.                                         *)
NextTurn(msgs) ==
  /\ calls' = <<>> /\ pos' = 1
  /\ IF turn < MaxTurns
     THEN /\ pc' = "send" /\ turn' = turn + 1 /\ attempt' = 0
          /\ messages' = msgs
          /\ UNCHANGED <<files, sent, listing>> /\ Running
     ELSE Fail("turns")

(* Mutant of InvalidArguments: the answer is kept as every other is.       *)
InvalidArgumentsKept ==
  /\ pc = "turn" /\ Number > 0
  /\ NextTurn(messages \o <<Message("assistant", Number), Message("user", 0)>>)
  /\ UNCHANGED stream

(* The arguments of a call are no JSON object: the answer is dropped, and  *)
(* the model is told.                                                      *)
InvalidArguments ==
  /\ pc = "turn" /\ Number > 0
  /\ NextTurn(Append(messages, Message("user", 0)))
  /\ UNCHANGED stream

NoCall ==
  /\ pc = "turn" /\ Number = 0
  /\ NextTurn(messages \o <<Message("assistant", 0), Message("user", 0)>>)
  /\ UNCHANGED stream

TooManyCalls ==
  /\ pc = "turn" /\ Number > MaxToolCallsPerTurn
  /\ Fail("toolcalls")
  /\ UNCHANGED <<stream, calls, pos>>

(* Mutant of Calls: no limit in a turn.                                    *)
CallsOfAnyNumber ==
  /\ pc = "turn" /\ Number > 0
  /\ calls' \in [1..Number -> {"finish", "tool"}]
  /\ pos' = 1 /\ pc' = "handle"
  /\ messages' = Append(messages, Message("assistant", Number))
  /\ UNCHANGED <<files, loop, stream, listing>> /\ Running

Calls ==
  /\ pc = "turn" /\ Number \in 1..MaxToolCallsPerTurn
  /\ calls' \in [1..Number -> {"finish", "tool"}]
  /\ pos' = 1 /\ pc' = "handle"
  /\ messages' = Append(messages, Message("assistant", Number))
  /\ UNCHANGED <<files, loop, stream, listing>> /\ Running

-----------------------------------------------------------------------------
(* The calls of a turn, one after the other.                               *)

Handling(kind) == pc = "handle" /\ pos \in DOMAIN calls /\ calls[pos] = kind

Answered ==
  /\ pos' = pos + 1
  /\ messages' = Append(messages, Message("tool", pos))
  /\ UNCHANGED <<files, pc, loop, stream, calls>> /\ Running

ValidViolation(v) ==
  /\ v # <<>>
  /\ \A i \in DOMAIN v : ValidEvidence(Len(items), v[i])
  /\ \E i \in DOMAIN v : v[i].root = "submission"

ValidReport(r) ==
  /\ r.wellFormed
  /\ r.decision = "violation" => r.violations # <<>>
  /\ r.decision = "compliant" => r.violations = <<>>
  /\ \A i \in DOMAIN r.violations : ValidViolation(r.violations[i])

(* Mutant of Accepts: other calls of the turn do not matter.               *)
AcceptsMixed(r) == ValidReport(r)

Accepts(r) == Len(calls) = 1 /\ ValidReport(r)

(* _normalized_report                                                      *)
Normalized(r) ==
  [decision |-> r.decision, violations |-> r.violations,
   state |-> IF r.decision = "inconclusive" THEN "inconclusive" ELSE "completed"]

FinishReview ==
  /\ Handling("finish")
  /\ \E r \in Reports :
       IF Accepts(r)
       THEN /\ pc' = "finished" /\ workspace' = FALSE
            /\ report' = Normalized(r)
            /\ UNCHANGED <<manifest, items, copied, loop, stream, calls, pos, messages,
                           listing, code, cause>>
       ELSE Answered /\ UNCHANGED listing

(* What the model can ask for: a listing from its beginning, or the rest   *)
(* of the listing that it was told of; or lines of a file.                 *)
Observe(tool, from, to) ==
  CASE tool = "list_tree"    -> ListTree(items, from)
    [] tool = "search"       -> Search(items, from)
    [] tool = "compare_file" -> CompareFile(items, from)
    [] tool = "read_lines"   -> ReadLines(items, from, to)

Shown(o) == (o.from + 1)..(o.from + o.count)

(* find_references is a search.                                            *)
ListingTools == {"list_tree", "search", "compare_file"}

(* A listing that is begun asks for all items, a range of lines for those  *)
(* of its lines that exist.                                                *)
FirstPage ==
  \/ \E tool \in ListingTools :
       LET o == Observe(tool, 0, 0) IN
         listing' = [tool |-> tool, seen |-> Shown(o), asked |-> DOMAIN items,
                     next |-> o.next, refused |-> ~o.ok]
  \/ \E from, to \in DOMAIN items :
       LET o == Observe("read_lines", from, to) IN
         /\ from <= to
         /\ listing' = [tool |-> "read_lines", seen |-> Shown(o), asked |-> from..to,
                        next |-> o.next, refused |-> ~o.ok]

(* A page that is refused leaves the model with the cursor that it has.    *)
NextPage ==
  /\ listing.next # Nothing
  /\ LET to == CHOOSE n \in listing.asked : \A m \in listing.asked : m <= n
         o  == Observe(listing.tool, listing.next, to)
     IN  listing' = [listing EXCEPT !.seen = @ \cup Shown(o), !.refused = ~o.ok,
                                    !.next = IF o.ok THEN o.next ELSE @]

(* ToolError: unknown tools, bad arguments, paths that do not exist.       *)
Declined == UNCHANGED listing

CallTool ==
  /\ Handling("tool")
  /\ FirstPage \/ NextPage \/ Declined
  /\ Answered

(* An exception that is not for the model.                                 *)
ToolRaises ==
  /\ Handling("tool")
  /\ Fail("tool")
  /\ UNCHANGED <<stream, calls, pos>>

(* The turn is over; near the end the model is told so.                    *)
EndTurn ==
  /\ pc = "handle" /\ pos > Len(calls)
  /\ LET left == MaxTurns - turn
         hint == 0 < left /\ left <= HintTurns /\ \A i \in DOMAIN calls : calls[i] # "finish"
     IN  NextTurn(IF hint THEN Append(messages, Message("user", 0)) ELSE messages)
  /\ UNCHANGED stream

-----------------------------------------------------------------------------

NoReport == [decision |-> "none", violations |-> <<>>, state |-> "none"]

Init ==
  /\ manifest \in Manifests /\ items \in Contents
  /\ copied = 0 /\ workspace = FALSE
  /\ pc = "prepare" /\ turn = 0 /\ attempt = 0 /\ sent = 0
  /\ stream = NoStream /\ calls = <<>> /\ pos = 1
  /\ messages = <<>> /\ listing = NoListing
  /\ code = "none" /\ cause = "none" /\ report = NoReport

Next ==
  \/ Prepare \/ CopyFile \/ BeginReview
  \/ Send \/ HttpError \/ Interrupted \/ Event \/ MalformedEvent \/ StreamEnds \/ Done
  \/ InvalidArguments \/ NoCall \/ TooManyCalls \/ Calls
  \/ FinishReview \/ CallTool \/ ToolRaises \/ EndTurn

Spec == Init /\ [][Next]_vars

(* The thread is scheduled; a read of the socket returns or times out, and *)
(* a stream has a size limit.                                              *)
FairSpec == Spec /\ WF_vars(Next)

-----------------------------------------------------------------------------
(* Properties.                                                             *)

Ended == pc \in {"finished", "failed"}

(* Every variable has its type; the workspace exists while it is used only.*)
TypeOK ==
  /\ manifest \in Manifests /\ items \in Contents
  /\ copied \in 0..Len(manifest)
  /\ workspace = (pc \notin {"prepare", "finished", "failed"})
  /\ pc \in {"prepare", "copy", "send", "answer", "turn", "handle", "finished", "failed"}
  /\ turn \in 0..MaxTurns /\ attempt \in 0..MaxAttempts /\ sent \in Nat
  /\ stream \in [choice : BOOLEAN, finish : BOOLEAN, indices : SUBSET (0..MaxIndex),
                 heads : SUBSET (0..MaxIndex)]
  /\ calls \in Seq({"finish", "tool"}) /\ Len(calls) <= MaxToolCallsPerTurn
  /\ pos \in 1..(MaxToolCallsPerTurn + 1)
  /\ \A i \in DOMAIN messages :
       messages[i] \in [role : {"system", "user", "assistant", "tool"}, n : Nat]
  /\ (pc = "failed") = (code # "none")
  /\ (pc = "finished") = (report # NoReport)

(* What is sent to the model is a conversation that its protocol allows:   *)
(* after an answer with n tool calls come n results, in the order of the   *)
(* calls and before anything else, and no result belongs to nothing;       *)
(* whatever calls were mixed, refused, malformed or dropped before.        *)
ConversationWellFormed ==
  pc = "send" =>
    \A i \in DOMAIN messages :
      /\ messages[i].role = "assistant" =>
           \A k \in 1..messages[i].n :
             i + k \in DOMAIN messages /\ messages[i + k] = Message("tool", k)
      /\ messages[i].role = "tool" =>
           \E j \in 1..(i - 1) : /\ messages[j].role = "assistant"
                                 /\ j + messages[i].n = i /\ messages[i].n <= messages[j].n

(* A report is returned only if the model examined the whole submission's  *)
(* copy, submitted it alone in its turn, and every violation in it cites   *)
(* lines of the submission that exist: nothing accumulates over turns.     *)
ReportStandsOnEvidence ==
  pc = "finished" =>
    /\ copied = Len(manifest) /\ \A i \in DOMAIN manifest : manifest[i] = "same"
    /\ calls = <<"finish">>
    /\ report.decision = "violation" => report.violations # <<>>
    /\ \A i \in DOMAIN report.violations :
         \E j \in DOMAIN report.violations[i] :
           LET e == report.violations[i][j]
           IN  e.root = "submission" /\ e.exists /\ e.to <= Len(items)

(* The number of model calls is bounded by turns times attempts, although  *)
(* retries do not count as turns; and a review ends with MODEL_UNAVAILABLE,*)
(* which the run service retries, only if all attempts of one turn failed. *)
CallsBounded ==
  /\ sent <= MaxAttempts * MaxTurns
  /\ sent <= MaxAttempts * (IF turn = 0 THEN 0 ELSE turn - 1) + attempt
  /\ code = "MODEL_UNAVAILABLE" => attempt = MaxAttempts
  /\ code = "TURN_LIMIT_REACHED" => turn = MaxTurns /\ sent >= MaxTurns

(* Who follows the cursors of a tool sees all items, some of them cut, in  *)
(* pages that may end by count, by size or both: at every moment what was  *)
(* seen are the items up to the cursor, and when a tool says that there is *)
(* no rest, then all that was asked for (of lines, if they are not more    *)
(* than MaxReadLines).  A page that call refuses as too big loses nothing  *)
(* that was shown and shows nothing, and a search is never refused.        *)
ContinuationCovers ==
  LET end == IF listing.tool = "read_lines" THEN listing.next - 1 ELSE listing.next IN
  /\ listing.next # Nothing =>
       listing.seen # {} /\ listing.seen = {n \in listing.asked : n <= end}
  /\ listing.next = Nothing /\ listing.refused => listing.seen = {}
  /\ listing.next = Nothing /\ ~listing.refused =>
       \/ listing.asked \subseteq listing.seen
       \/ listing.tool = "read_lines" /\ Cardinality(listing.asked) > MaxReadLines
  /\ listing.tool = "search" => ~listing.refused

(* Every review ends, whatever the model answers and the network does.     *)
ReviewEnds == <>Ended

(***************************************************************************)
(* What the documents say and the code does not do.                        *)
(***************************************************************************)

(* "A failing model HTTP call is attempted at most 2 times; only timeouts, *)
(* interrupted connections and 429/5xx are retried"                        *)
(* (docs/agent-review-design.md:207): an interrupted connection ends a     *)
(* review only when the attempts are used up, and then as a failure of the *)
(* model.                                                                  *)
InterruptedCallIsRetried ==
  cause = "interrupted" => attempt = MaxAttempts /\ code = "MODEL_UNAVAILABLE"

=============================================================================
