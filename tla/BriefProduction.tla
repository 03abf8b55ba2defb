--------------------------- MODULE BriefProduction ---------------------------
(***************************************************************************)
(* Invocations for one brief (application/brief_production.py with         *)
(* brief_intake.py, review_decision.py, review_publication.py): read the   *)
(* reviewer's decision from the desk, produce or resume the Run, show its  *)
(* status, publish the pending review, show where it is.  Composes the     *)
(* Director, the reporter its commits go through and the desk; any call    *)
(* can fail and the process can die between any two of them.               *)
(*                                                                         *)
(* The board and the desk answer, refuse, or do what they were asked and   *)
(* lose the answer; a request that is given up does not take effect later. *)
(***************************************************************************)
EXTENDS Integers, Sequences

CONSTANTS
  MaxReworkIterations, MaxAttempts, Plans, QaWirings, Measured, InitialRuns, MaxRecords,
  NoRun,
  NoStatus,     \* no status shown, attempted or owed
  Played        \* the decisions a command line is started with

VARIABLES
  stored, run, pc, plan, index, committed, qa_wired,   \* the Director's
  board, reporter, owed,                               \* the reporter's
  docs,                                                \* the desk's
  phase,     \* where the invocation is
  clean,     \* history: no call of this invocation, or of the last, has failed
  settled    \* history: since a clean invocation of this process the Run is the same

NoLocation == 0

Director == INSTANCE DirectorProofs    \* ContentDirector, with what is proved about it
Reporter == INSTANCE StatusReporter WITH Statuses <- Director!RunStatus
Desk == INSTANCE ReviewDesk
  WITH Decisions <- Director!ReviewStatus \ {"pending"}, Undecided <- "pending"

ASSUME ProductionAssumption ==
  /\ Director!LimitAssumption /\ Director!PlanAssumption /\ Director!StoreAssumption
  /\ NoStatus \notin Director!RunStatus

directorVars == <<stored, run, pc, plan, index, committed, qa_wired>>
reporterVars == <<board, reporter, owed>>
vars == <<directorVars, reporterVars, docs, phase, clean, settled>>

Phase == {"waiting", "publishing first", "fetching", "producing", "syncing",
          "publishing", "linking"}

Init ==
  /\ Director!Init /\ Reporter!Init /\ Desk!Init
  /\ phase = "waiting" /\ clean = FALSE /\ settled = FALSE

-----------------------------------------------------------------------------
(* The invocation's control. *)

At(p) == phase = p /\ Reporter!IsIdle
Goto(p) == phase' = p /\ UNCHANGED <<clean, settled>>

\* A call was refused; the invocation reports it and goes on at p.
GoOnAt(p) == phase' = p /\ clean' = FALSE /\ UNCHANGED settled

\* The end of invoke.
Return == phase' = "waiting" /\ settled' = (settled \/ clean) /\ UNCHANGED clean

\* An exception leaves invoke.
Raise == GoOnAt("waiting")

Review == Director!PendingReview(stored)
IsReviewPending == stored # NoRun /\ Review # 0

\* pending_review_package: what _package_hash tells apart.
Package ==
  LET a == stored.human_reviews[Review].artifact_ref
      e == Director!LatestQa(stored, a)
  IN  [candidate |-> stored.artifacts[a], brief |-> stored.tasks[1].task_input,
       flags |-> IF e = 0 THEN "none" ELSE stored.evaluations[e].status]

-----------------------------------------------------------------------------
(* take_review_decision. *)

Begin ==
  /\ phase = "waiting"
  /\ phase' = IF stored = NoRun THEN "producing" ELSE "publishing first"
  /\ clean' = TRUE
  /\ UNCHANGED <<directorVars, reporterVars, docs, settled>>

\* waiting_briefs names this brief, and its invocation begins.
Sweep == stored # NoRun /\ stored.status = "waiting_human" /\ Begin

\* publish_pending_review on the way from p, unless nothing is pending.
PublishAt(p, answered, refused) ==
  /\ At(p) /\ IsReviewPending
  /\ \/ Desk!Publish(Review, Package) /\ Goto(answered)
     \/ Desk!PublishRefused(Review, Package) /\ GoOnAt(refused)
  /\ UNCHANGED <<directorVars, reporterVars>>

\* Mutant: the review is published and the decision not asked for.
PublishFirstOnly == PublishAt("publishing first", "producing", "producing")

PublishFirst == PublishAt("publishing first", "fetching", "producing")

NothingToDecide ==
  /\ At("publishing first") /\ ~IsReviewPending /\ Goto("producing")
  /\ UNCHANGED <<directorVars, reporterVars, docs>>

\* The Run cannot be loaded, or the decision cannot be saved.
StoreFails ==
  /\ At("publishing first") \/ At("fetching")
  /\ Raise
  /\ UNCHANGED <<directorVars, reporterVars, docs>>

\* Nothing recognisable is typed, the domain would refuse the approval, or
\* the desk gives no answer.
FetchNothing ==
  /\ At("fetching")
  /\ \/ /\ Desk!CanFetch(Review)
        /\ \/ Desk!Fetched(Review) = "pending"
           \/ /\ Desk!Fetched(Review) = "approved"
              /\ ~Director!QaPassed(stored, stored.human_reviews[Review].artifact_ref)
        /\ Goto("producing")
     \/ GoOnAt("producing")
  /\ UNCHANGED <<directorVars, reporterVars, docs>>

\* Mutant: an approval is recorded whatever QA said.
FetchAnyDecision ==
  /\ At("fetching") /\ Desk!CanFetch(Review)
  /\ Desk!Fetched(Review) # "pending"
  /\ stored' = Director!SubmitReview(stored, Review, Desk!Fetched(Review))
  /\ Reporter!Save(stored'.status)
  /\ phase' = "producing" /\ settled' = FALSE
  /\ UNCHANGED <<run, pc, plan, index, committed, qa_wired, docs, clean>>

\* The decision is the Run's, and saved.
Submitted(decision) ==
  /\ decision \in Director!ReviewStatus \ {"pending"}
  /\ decision = "approved"
       => Director!QaPassed(stored, stored.human_reviews[Review].artifact_ref)
  /\ stored' = Director!SubmitReview(stored, Review, decision)
  /\ Reporter!Save(stored'.status) /\ settled' = FALSE
  /\ UNCHANGED <<run, pc, plan, index, committed, qa_wired, docs>>

FetchDecision ==
  /\ At("fetching") /\ Desk!CanFetch(Review)
  /\ Submitted(Desk!Fetched(Review))
  /\ phase' = "producing" /\ UNCHANGED clean

\* A command line started with --approve, --reject or --request-changes,
\* while the service is down: it decides, and invokes the brief.
PlayReviewer ==
  /\ At("waiting") /\ reporter = Reporter!Fresh /\ IsReviewPending
  /\ \E decision \in Played : Submitted(decision)
  /\ phase' = "publishing first" /\ clean' = TRUE

-----------------------------------------------------------------------------
(* produce_brief. *)

\* The brief's text is the board's as long as no Task was opened.
NeedsBrief == IF stored = NoRun THEN TRUE ELSE stored.tasks = <<>>

\* fetch_brief gives no brief, which ends a new production in silence and
\* stops the resumption of a Run; or the board cannot be read.
NoBriefFetched ==
  /\ At("producing") /\ pc = "idle" /\ NeedsBrief
  /\ \/ stored = NoRun /\ Return
     \/ Raise
  /\ UNCHANGED <<directorVars, reporterVars, docs>>

\* Mutant: the status reported is the one the save replaces.
SavedBehind ==
  IF stored' = stored \/ stored = NoRun
    THEN Reporter!unchanged /\ UNCHANGED settled
    ELSE Reporter!Save(stored.status) /\ settled' = FALSE

\* What the Director saves goes through the reporter.
Saved ==
  IF stored' = stored
    THEN Reporter!unchanged /\ UNCHANGED settled
    ELSE Reporter!Save(stored'.status) /\ settled' = FALSE

Resume ==
  /\ At("producing") /\ Director!Invoke
  /\ UNCHANGED <<reporterVars, docs, phase, clean, settled>>

Drive ==
  /\ At("producing") /\ Director!Advance /\ Saved
  /\ phase' = IF pc' = "idle" THEN "syncing" ELSE phase
  /\ UNCHANGED <<docs, clean>>

\* MeasuredEvaluatorError: the Run is saved, also if nothing was measured, and
\* the status still synced.
NoVerdict ==
  /\ At("producing") /\ Director!EvaluatorFails
  /\ Reporter!Save(stored'.status) /\ settled' = FALSE
  /\ phase' = "syncing" /\ clean' = FALSE
  /\ UNCHANGED docs

\* Any other exception of an executor, an evaluator or the store.
ProductionFails ==
  /\ At("producing") /\ Director!Interrupt /\ Raise
  /\ UNCHANGED <<reporterVars, docs>>

Sync ==
  /\ At("syncing") /\ Reporter!Sync(stored.status) /\ Goto("publishing")
  /\ UNCHANGED <<directorVars, docs>>

Report ==
  /\ \/ Reporter!ReportShown /\ UNCHANGED clean
     \/ Reporter!ReportRefused /\ clean' = FALSE
  /\ UNCHANGED <<directorVars, docs, phase, settled>>

-----------------------------------------------------------------------------
(* _publish, and the link on the brief. *)

\* Mutant: the review is published and its location not shown.
PublishUnlinked == PublishAt("publishing", "waiting", "waiting")

Publish == PublishAt("publishing", "linking", "waiting")

NothingToPublish ==
  /\ At("publishing") /\ ~IsReviewPending /\ Return
  /\ UNCHANGED <<directorVars, reporterVars, docs>>

\* show_review_location has nothing new to show.
KeepLink ==
  /\ At("linking") /\ Reporter!IsShown(Desk!Location(Review)) /\ Return
  /\ UNCHANGED <<directorVars, reporterVars, docs>>

WriteLink ==
  /\ At("linking") /\ ~Reporter!IsShown(Desk!Location(Review))
  /\ \/ Reporter!LocationShown(Desk!Location(Review)) /\ Return
     \/ Reporter!LocationRefused(Desk!Location(Review)) /\ GoOnAt("waiting")
  /\ UNCHANGED <<directorVars, docs>>

-----------------------------------------------------------------------------
(* The process dies, also between two invocations, and is started again. *)
Crash ==
  /\ IF pc = "idle" THEN UNCHANGED directorVars ELSE Director!Interrupt
  /\ Reporter!Restart
  /\ phase' = "waiting" /\ clean' = FALSE /\ settled' = FALSE
  /\ UNCHANGED docs

\* The reviewer types into the Doc of the review that is pending.
Decide ==
  /\ IsReviewPending
  /\ \E decision \in Director!ReviewStatus : Desk!Decide(Review, decision)
  /\ UNCHANGED <<directorVars, reporterVars, phase, clean, settled>>

TakeDecision ==
  PublishFirst \/ NothingToDecide \/ StoreFails \/ FetchNothing \/ FetchDecision
Produce == NoBriefFetched \/ Resume \/ Drive \/ NoVerdict \/ ProductionFails \/ Sync \/ Report
ShowReview == Publish \/ NothingToPublish \/ KeepLink \/ WriteLink

Next == Begin \/ TakeDecision \/ Produce \/ ShowReview \/ Crash \/ Decide \/ PlayReviewer

Spec == Init /\ [][Next]_vars

(* A Run that waits for a human is swept again and again, an invocation    *)
(* goes on, and there comes a time when no call fails and no process dies  *)
(* any more.  Other Runs need not be triggered, and the reviewer owes      *)
(* nothing.                                                                *)
Fairness ==
  /\ WF_vars(Sweep) /\ WF_vars(TakeDecision \/ Produce \/ ShowReview)
  /\ <>[]clean

FairSpec == Spec /\ Fairness

-----------------------------------------------------------------------------
(* Every variable keeps its shape, and only a status just attempted is     *)
(* being reported (brief_status.py _report).                               *)
TypeOK ==
  /\ Director!TypeOK /\ Reporter!TypeOK
  /\ phase \in Phase /\ clean \in BOOLEAN /\ settled \in BOOLEAN
  /\ \A i \in DOMAIN docs : docs[i].decision \in Director!ReviewStatus

(* Whatever answers are lost and whenever the process dies, a review has   *)
(* at most one Doc, and what the Run says of a pending review never        *)
(* drifts from the package its Doc was made from, which publish would      *)
(* refuse for ever (google_docs_review_desk.py publish, _find).            *)
OneDocPerReview == \A i, j \in DOMAIN docs : docs[i].review = docs[j].review => i = j

PublishedOnce ==
  /\ OneDocPerReview
  /\ IsReviewPending /\ Desk!Found(Review) # {} => Desk!IsPublished(Review, Package)

(* The store is the truth and the board its showcase: whatever status the  *)
(* board comes to show is the stored one at that moment, never one the Run *)
(* has yet to reach or has left (brief_status.py save, _report).           *)
BoardFollowsStore ==
  [][board'.status # board.status =>
       stored' = stored /\ board'.status = stored.status]_vars

(* After an invocation in which nothing failed, the brief links to the     *)
(* review that is pending, also when an earlier link was written or        *)
(* refused without an answer (brief_status.py show_review_location).       *)
LinkIsCurrent ==
  phase = "waiting" /\ clean /\ IsReviewPending =>
    /\ Desk!Found(Review) # {}
    /\ board.link = Desk!Location(Review)

(* Invocations that find a Run as a clean one left it write nothing to its *)
(* page, as long as the process lives: a write would trigger the next      *)
(* invocation, and so on for ever (brief_status.py, module docstring).     *)
QuietWhenSettled ==
  [][settled /\ settled' => Reporter!IsIdle' /\ board' = board]_vars

(* Seen from the Director, all this is its own specification: the desk's   *)
(* decisions reach the Run only as ContentDirector allows, between         *)
(* invocations (review_decision.py apply_review_decision).                 *)
ImplementsDirector == Director!Spec

(* A review that stays pending is eventually in front of the reviewer,     *)
(* linked from the brief (brief_production.py _publish).                   *)
ReviewIsLinked ==
  ~<>[](/\ IsReviewPending
        /\ IF Desk!Found(Review) = {} THEN TRUE ELSE board.link # Desk!Location(Review))

(* A decision the domain accepts does not stay in its Doc unread, however  *)
(* often the reviewer changes it (review_decision.py).                     *)
DecisionIsTaken ==
  ~<>[](/\ IsReviewPending /\ Desk!CanFetch(Review)
        /\ Desk!Fetched(Review) # "pending"
        /\ Desk!Fetched(Review) = "approved"
              => Director!QaPassed(stored, stored.human_reviews[Review].artifact_ref))

(* "Show the Run's current status unless it is already shown"              *)
(* (brief_status.py sync): a sync that finds nothing to do leaves the      *)
(* board with the Run's status.                                            *)
SyncShowsStatus ==
  [][phase = "syncing" /\ phase' = "publishing" /\ owed' = NoStatus
       => board.status = stored.status]_vars
=============================================================================
