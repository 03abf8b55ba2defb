--------------------------- MODULE ReviewedRelease ---------------------------
(***************************************************************************)
(* What a Run is to its reviewer (docs/adr/0032, docs/adr/0044,            *)
(* docs/adr/0045): versions of one Artifact, each put before the reviewer  *)
(* at most once, one at a time; an answer to each, which sends it back or  *)
(* lets it be released; and a bound on how often it is sent back.  Tasks,  *)
(* QA, plans, crashes and invocations are not seen here.                   *)
(***************************************************************************)
EXTENDS Integers, Sequences

CONSTANTS
  Limit,             \* how often a Run may be sent back
  ReworkDecisions    \* the answers that send it back

VARIABLES
  version,   \* the Artifact there is to review, 0 if there is none
  reviews,   \* what was asked so far: each Review's Artifact and status
  round,     \* how many of the reviews have led to a rework
  outcome    \* "open", "completed" or "failed"

vars == <<version, reviews, round, outcome>>

\* The last review waits for its answer, or nothing was done about it yet.
IsAsked == Len(reviews) > round
Answer == reviews[Len(reviews)].status
Seen == {reviews[i].artifact_ref : i \in DOMAIN reviews}

\* A Run may have come some way: each round was one review of a version of
\* its own, answered with a rework.
Init ==
  /\ outcome \in {"open", "completed", "failed"}
  /\ round \in 0..Limit /\ Len(reviews) \in {round, round + 1}
  /\ \A i \in 1..round : reviews[i].status \in ReworkDecisions
  /\ \A i, j \in DOMAIN reviews : reviews[i].artifact_ref = reviews[j].artifact_ref => i = j
  /\ outcome = "open" /\ IsAsked => reviews[Len(reviews)].artifact_ref = version

\* While nobody is asked, the next version is made: none the reviewer has seen.
Produce ==
  /\ outcome = "open" /\ ~IsAsked
  /\ version' = 0 \/ version' \notin Seen
  /\ UNCHANGED <<reviews, round, outcome>>

Ask ==
  /\ outcome = "open" /\ ~IsAsked
  /\ version # 0 /\ version \notin Seen
  /\ reviews' = Append(reviews, [artifact_ref |-> version, status |-> "pending"])
  /\ UNCHANGED <<version, round, outcome>>

Decide ==
  /\ outcome = "open" /\ IsAsked /\ Answer = "pending"
  /\ \E decision \in ReworkDecisions \cup {"approved"} :
       reviews' = [reviews EXCEPT ![Len(reviews)].status = decision]
  /\ UNCHANGED <<version, round, outcome>>

IsSentBack == IsAsked /\ Answer \in ReworkDecisions

Rework ==
  /\ outcome = "open" /\ IsSentBack /\ round < Limit
  /\ round' = round + 1
  /\ UNCHANGED <<version, reviews, outcome>>

\* Only on an approval - or by a Director that asks nobody, of a Run nobody
\* was ever asked about.
Release ==
  /\ outcome = "open"
  /\ IF IsAsked THEN Answer = "approved" ELSE reviews = <<>>
  /\ outcome' = "completed"
  /\ UNCHANGED <<version, reviews, round>>

\* While a version is made, or when it is sent back once too often: never
\* under the reviewer's hands, and never once he approved.
Fail ==
  /\ outcome = "open"
  /\ IsAsked => IsSentBack /\ round = Limit
  /\ outcome' = "failed"
  /\ UNCHANGED <<version, reviews, round>>

Next == Produce \/ Ask \/ Decide \/ Rework \/ Release \/ Fail

Spec == Init /\ [][Next]_vars
=============================================================================
