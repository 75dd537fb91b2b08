---------------------------- MODULE RunLifecycle ----------------------------
(***************************************************************************)
(* What a run service promises of one signed review request, whatever      *)
(* threads, logs and restarts are behind it: an accepted request waits, is *)
(* attempted at most MaxAttempts times, and ends completed or rejected for *)
(* good; a retryable failure may be queued again, or turn out to have left *)
(* its result behind.                                                      *)
(***************************************************************************)
EXTENDS Naturals

CONSTANTS Requests, MaxAttempts

VARIABLES status,   \* of each request, see Statuses
          tries     \* attempts begun for each request

Statuses == {"absent", "waiting", "active", "retryable", "rejected", "completed"}

Failures == {"retryable", "rejected"}

Move(q, from, to) == status[q] \in from /\ status'[q] = to

Untried(q) == tries'[q] = tries[q]

Accept(q) == Move(q, {"absent"}, "waiting") /\ Untried(q)

(* An attempt is counted when it begins.  It may be counted and then lost: *)
(* the request still waits.                                                *)
Attempt(q) ==
  /\ tries[q] < MaxAttempts
  /\ tries'[q] = tries[q] + 1
  /\ Move(q, {"waiting"}, "active") \/ Move(q, {"waiting"}, "waiting")

Complete(q) == Move(q, {"active"}, "completed") /\ Untried(q)

Fail(q) == Untried(q) /\ \E f \in Failures : Move(q, {"waiting", "active"}, f)

Requeue(q) ==
  /\ tries[q] < MaxAttempts
  /\ Move(q, {"retryable"}, "waiting")
  /\ Untried(q)

(* The failed attempt had a complete result.                               *)
Salvage(q) == Move(q, {"retryable"}, "completed") /\ Untried(q)

Rests(q) == status'[q] = status[q] /\ Untried(q)

Init == /\ status = [q \in Requests |-> "absent"]
        /\ tries  = [q \in Requests |-> 0]

(* Requests do not depend on each other, and one event of the service (the *)
(* death of its process) may decide about several of them.                 *)
Next ==
  /\ status' \in [Requests -> Statuses]
  /\ tries'  \in [Requests -> Nat]
  /\ \A q \in Requests :
       \/ Accept(q) \/ Attempt(q) \/ Complete(q) \/ Fail(q) \/ Requeue(q)
       \/ Salvage(q) \/ Rests(q)

Spec == Init /\ [][Next]_<<status, tries>>

=============================================================================
