--------------------------- MODULE ContentDirector ---------------------------
(***************************************************************************)
(* The Content Director driving one Run of a Workflow to its end           *)
(* (application/content_director.py with task_execution.py,                *)
(* qa_evaluation.py and the parts of brief_intake.py and                   *)
(* review_decision.py that load and save the Run), one invocation after    *)
(* another, on a store that survives crashes.                              *)
(*                                                                         *)
(* `stored' is the row of the run store, `run' the Run the current         *)
(* invocation holds in memory.  A step goes from one commit, or one call   *)
(* of an executor or evaluator, to the next: what lies between them        *)
(* touches memory only, so a crash inside it is a crash before it.         *)
(***************************************************************************)
EXTENDS Integers, Sequences, FiniteSetsExt

CONSTANTS
  MaxReworkIterations, MaxAttempts,   \* the Run's and its Tasks' policies
  Plans,          \* the plans an invocation may be given: sequences of steps
  QaWirings,      \* whether a QA evaluator may be wired, and whether none may
  Measured,       \* whether an executor's or evaluator's calls may be measured, or not
  InitialRuns,    \* what the store may hold at first: NoRun, or a Run of older code
  MaxRecords,     \* bound: Analytics Records of failed evaluator calls
  NoRun           \* no Run: an empty store, an idle process

VARIABLES
  stored,     \* the Run the store holds, or NoRun
  run,        \* the Run in the memory of the running invocation, or NoRun
  pc,         \* where the invocation is
  plan,       \* the steps it was given
  index,      \* the position it works on in plan or among the rework Tasks
  committed,  \* history: this invocation has changed the store
  qa_wired    \* whether the last invocation's Director had a QA evaluator

vars == <<stored, run, pc, plan, index, committed, qa_wired>>

\* task_input: the brief, nothing, the Output of Task ref, or the rework of
\* Artifact ref as Review review asked for it.
TaskInput == [from : {"brief", "nothing", "output", "rework"}, ref : Nat, review : Nat]

FailureReason == {"tasks failed", "invalid output", "no rework output",
                  "rework limit", "no candidate"}

INSTANCE RunOps WITH
  Steps <- UNION {{p[i] : i \in DOMAIN p} : p \in Plans},
  Inputs <- TaskInput, Reasons <- FailureReason, NoReason <- "none"

ASSUME LimitAssumption == MaxReworkIterations \in Nat /\ MaxAttempts \in Nat \ {0}

ASSUME PlanAssumption ==
  /\ Plans # {}
  /\ \A p \in Plans : /\ p \in Seq({p[i] : i \in DOMAIN p}) /\ p # <<>>
                      /\ \A i, j \in DOMAIN p : p[i] = p[j] => i = j
  /\ QaWirings \subseteq BOOLEAN /\ Measured \subseteq BOOLEAN
  /\ MaxRecords \in Nat
  /\ NoRun \in InitialRuns

ReworkDecisions == {"changes_requested", "rejected"}
Label == {"idle", "drive", "steps", "rework", "executing", "ruling", "judging", "refused"}

Init ==
  /\ stored \in InitialRuns
  /\ run = NoRun /\ pc = "idle" /\ plan = <<>> /\ index = 0 /\ committed = FALSE
  /\ qa_wired \in QaWirings

-----------------------------------------------------------------------------
(* Reading the Run. *)

Latest(ids) == IF ids = {} THEN 0 ELSE Max(ids)

\* The Artifact made from the Output of Task t, 0 if none.
ArtifactOf(r, t) == Latest({a \in DOMAIN r.artifacts : r.artifacts[a].output_ref = t})

FinalCandidate(r) ==
  IF r.tasks = <<>> \/ ~HasOutput(r, Len(r.tasks)) THEN 0 ELSE ArtifactOf(r, Len(r.tasks))

LatestQa(r, a) == Latest(EvaluationsOf(r, a))
LatestReview(r, a) == Latest(ReviewsOf(r, a))
LiveCandidate(r) == Latest({a \in DOMAIN r.artifacts : r.artifacts[a].status = "candidate"})

IsReviewOf(r, a, decisions) ==
  LatestReview(r, a) # 0 /\ r.human_reviews[LatestReview(r, a)].status \in decisions

\* Mutant: an approval sends the Run back like any decision.
ReworkOnDecision(r) ==
  /\ r.status = "waiting_human"
  /\ FinalCandidate(r) # 0
  /\ IsReviewOf(r, FinalCandidate(r), ReviewStatus \ {"pending"})

ReworkRequested(r) ==
  /\ r.status = "waiting_human"
  /\ FinalCandidate(r) # 0
  /\ IsReviewOf(r, FinalCandidate(r), ReworkDecisions)

HasReworkSource(r) ==
  LiveCandidate(r) # 0 /\ IsReviewOf(r, LiveCandidate(r), ReworkDecisions)

AllTasksSucceeded(r) == \A t \in DOMAIN r.tasks : r.tasks[t].status = "succeeded"
HasInvalidOutput(r) == \E t \in DOMAIN r.tasks : r.tasks[t].output = "invalid"

\* _ensure_matches: the base Tasks follow the plan, the others repeat its last step.
Matches(r, p) ==
  /\ Len(r.tasks) <= Len(p) + r.rework_count
  /\ \A t \in DOMAIN r.tasks : r.tasks[t].step = IF t <= Len(p) THEN p[t] ELSE p[Len(p)]

\* pending_review: the latest undecided Review of a Run that waits for a human.
PendingReview(r) ==
  IF r.status # "waiting_human" THEN 0
  ELSE Latest({h \in DOMAIN r.human_reviews : r.human_reviews[h].status = "pending"})

-----------------------------------------------------------------------------
(* The invocation's control. *)

\* _commit: save the Run as it is in memory, and go on at label.
Commit(r, label) ==
  /\ run' = r /\ stored' = r /\ pc' = label /\ committed' = TRUE
  /\ UNCHANGED <<plan, qa_wired>>

\* The invocation is over; its memory is gone.
Stop ==
  /\ run' = NoRun /\ pc' = "idle" /\ plan' = <<>> /\ index' = 0 /\ committed' = FALSE
  /\ UNCHANGED qa_wired

CommitAndStop(r) == stored' = r /\ Stop
Return == Stop /\ UNCHANGED stored

Goto(label) == pc' = label /\ UNCHANGED <<stored, run, plan, committed, qa_wired>>

\* RunResumptionError or a domain error escapes: nothing more is saved.
Refuse == Goto("refused") /\ UNCHANGED index

At(label, status) == pc = label /\ run.status = status
Fail(r, reason) == Transition(r, "failed", reason)
MoveTo(r, status) == Transition(r, status, "none")

\* Mutant: the stored Run is not looked up.
InvokeAfresh ==
  /\ pc = "idle"
  /\ plan' \in Plans /\ qa_wired' \in QaWirings
  /\ run' = NewRun /\ pc' = "drive"
  /\ UNCHANGED <<stored, index, committed>>

\* produce_brief: load the Run or create one, and enter execute or resume.
\* The process may have been started anew with other wiring.
Invoke ==
  /\ pc = "idle"
  /\ plan' \in Plans /\ qa_wired' \in QaWirings
  /\ \/ stored = NoRun /\ run' = NewRun
     \/ stored # NoRun /\ IsRestorable(stored) /\ run' = stored
  /\ pc' = IF run'.status = "running" /\ ~Matches(run', plan') THEN "refused" ELSE "drive"
  /\ UNCHANGED <<stored, index, committed>>

\* A crash, an exception of an executor, evaluator or of the store, or the
\* end of a refused invocation: what was not committed is lost.
Interrupt == pc # "idle" /\ Return

Queue == At("drive", "created") /\ Commit(MoveTo(run, "queued"), "drive") /\ UNCHANGED index
Start == At("drive", "queued") /\ Commit(MoveTo(run, "running"), "drive") /\ UNCHANGED index

-----------------------------------------------------------------------------
(* _run_steps: the original plan. *)

\* The Output of the last earlier step that recorded one, else the step's own input.
ChainedInput(r, i) ==
  LET source == Latest({t \in 1..(i - 1) : r.tasks[t].output = "valid"})
  IN  IF source # 0 THEN [from |-> "output", ref |-> source, review |-> 0]
      ELSE [from |-> IF i = 1 THEN "brief" ELSE "nothing", ref |-> 0, review |-> 0]

StartTask(r, step, input) ==
  TransitionTask(OpenTask(r, step, input), Len(r.tasks) + 1, "running")

\* What an executor reports; the calls it measured are one record here.
Answers == [succeeded : {TRUE}, output : OutputStatus, measured : Measured]
             \cup [succeeded : {FALSE}, output : {"none"}, measured : Measured]

FinishTask(r, t, answer) ==
  LET measured == IF answer.measured THEN RecordAnalytics(r, t) ELSE r
      ended == TransitionTask(measured, t, IF answer.succeeded THEN "succeeded" ELSE "failed")
  IN  IF answer.output = "none" THEN ended ELSE RecordOutput(ended, t, answer.output)

\* _add_artifact: a valid Output without an Artifact gets one.
WithArtifact(r, t) ==
  IF r.tasks[t].output = "valid" /\ ArtifactOf(r, t) = 0 THEN CreateArtifact(r, t) ELSE r

\* Mutant: the Schema's verdict is ignored.
StopsPlanOnFailure(task) == task.status # "succeeded"

StopsPlan(task) == task.status # "succeeded" \/ task.output = "invalid"

EnterSteps ==
  /\ At("drive", "running") /\ run.rework_count = 0
  /\ Goto("steps") /\ index' = 1

EndSteps == pc = "steps" /\ index > Len(plan) /\ Goto("ruling") /\ UNCHANGED index

InPlan == pc = "steps" /\ index <= Len(plan)
IsOpened(t) == t <= Len(run.tasks)

PassTerminalTask ==
  /\ InPlan /\ IsOpened(index) /\ IsTerminalTask(run.tasks[index])
  /\ LET r == WithArtifact(run, index)
     IN  /\ run' = r
         /\ stored' = IF r = run THEN stored ELSE r
         /\ committed' = (committed \/ r # run)
  /\ IF StopsPlan(run.tasks[index])
       THEN pc' = "ruling" /\ UNCHANGED index
       ELSE index' = index + 1 /\ UNCHANGED pc
  /\ UNCHANGED <<plan, qa_wired>>

\* Mutant: the attempts used up are ignored.
ResumeTaskForever ==
  /\ InPlan /\ IsOpened(index) /\ ~IsTerminalTask(run.tasks[index])
  /\ Commit(TransitionTask(run, index, "running"), "executing")
  /\ UNCHANGED index

\* Mutant: the lost attempt is accounted too.
ResumeTaskMeasured ==
  /\ InPlan /\ IsOpened(index) /\ ~IsTerminalTask(run.tasks[index])
  /\ IF HasAttemptsLeft(run.tasks[index])
       THEN Commit(TransitionTask(RecordAnalytics(run, index), index, "running"), "executing")
       ELSE Commit(TransitionTask(run, index, "failed"), "ruling")
  /\ UNCHANGED index

ResumeTask ==
  /\ InPlan /\ IsOpened(index) /\ ~IsTerminalTask(run.tasks[index])
  /\ IF HasAttemptsLeft(run.tasks[index])
       THEN Commit(TransitionTask(run, index, "running"), "executing")
       ELSE Commit(TransitionTask(run, index, "failed"), "ruling")
  /\ UNCHANGED index

\* Mutant: the executor is called before the Task is saved.
OpenStepUnsaved ==
  /\ InPlan /\ ~IsOpened(index)
  /\ run' = StartTask(run, plan[index], ChainedInput(run, index))
  /\ pc' = "executing"
  /\ UNCHANGED <<stored, plan, index, committed, qa_wired>>

OpenStep ==
  /\ InPlan /\ ~IsOpened(index)
  /\ Commit(StartTask(run, plan[index], ChainedInput(run, index)), "executing")
  /\ UNCHANGED index

StepAnswered ==
  /\ pc = "executing" /\ run.rework_count = 0
  /\ \E answer \in Answers :
       LET r == WithArtifact(FinishTask(run, index, answer), index)
       IN  IF StopsPlan(r.tasks[index])
             THEN Commit(r, "ruling") /\ UNCHANGED index
             ELSE Commit(r, "steps") /\ index' = index + 1

-----------------------------------------------------------------------------
(* Rework: one more Task of the last step, one more version. *)

\* Mutant: the Run is not matched with the plan before its rework begins.
BeginReworkUnmatched ==
  /\ pc = "drive" /\ ReworkRequested(run)
  /\ IF CanTransition(run, "running")
       THEN Commit(MoveTo(run, "running"), "drive") /\ UNCHANGED index
       ELSE CommitAndStop(Fail(run, "rework limit"))

\* Mutant: at the bound the Run is left as it is.
BeginReworkOrLeave ==
  /\ pc = "drive" /\ ReworkRequested(run)
  /\ \/ ~Matches(run, plan) /\ Refuse
     \/ /\ Matches(run, plan) /\ CanTransition(run, "running")
        /\ Commit(MoveTo(run, "running"), "drive") /\ UNCHANGED index
     \/ Matches(run, plan) /\ ~CanTransition(run, "running") /\ Return

BeginRework ==
  /\ pc = "drive" /\ ReworkRequested(run)
  /\ \/ ~Matches(run, plan) /\ Refuse
     \/ /\ Matches(run, plan) /\ CanTransition(run, "running")
        /\ Commit(MoveTo(run, "running"), "drive") /\ UNCHANGED index
     \/ /\ Matches(run, plan) /\ ~CanTransition(run, "running")
        /\ CommitAndStop(Fail(run, "rework limit"))

ReworkIndex == Len(plan) + run.rework_count

ReworkInput(r) ==
  [from |-> "rework", ref |-> LiveCandidate(r), review |-> LatestReview(r, LiveCandidate(r))]

\* Mutant: the rework makes a new Artifact, not a version.
WithAnotherArtifact(r, t) ==
  IF r.tasks[t].output = "valid" /\ ArtifactOf(r, t) = 0 THEN CreateArtifact(r, t) ELSE r

\* Mutant: every rework supersedes the first version.
WithSuccessorOfFirst(r, t) ==
  IF r.tasks[t].output = "valid" /\ ArtifactOf(r, t) = 0
    THEN CreateArtifactVersion(r, 1, t) ELSE r

\* The successor of the live candidate, from the valid Output of Task t.
WithSuccessor(r, t) ==
  IF r.tasks[t].output = "valid" /\ ArtifactOf(r, t) = 0
    THEN CreateArtifactVersion(r, LiveCandidate(r), t) ELSE r

EnterRework ==
  /\ At("drive", "running") /\ run.rework_count > 0
  /\ IF Matches(run, plan) /\ Len(plan) <= Len(run.tasks) /\ ReworkIndex <= Len(run.tasks) + 1
       THEN Goto("rework") /\ index' = ReworkIndex
       ELSE Refuse

\* Mutant: the rework repeats the first step, not the candidate's.
OpenReworkOfFirst ==
  /\ pc = "rework" /\ ~IsOpened(index)
  /\ IF HasReworkSource(run)
       THEN /\ Commit(StartTask(run, plan[1], ReworkInput(run)), "executing")
            /\ UNCHANGED index
       ELSE Refuse

OpenRework ==
  /\ pc = "rework" /\ ~IsOpened(index)
  /\ IF HasReworkSource(run)
       THEN /\ Commit(StartTask(run, plan[Len(plan)], ReworkInput(run)), "executing")
            /\ UNCHANGED index
       ELSE Refuse

ResumeRework ==
  /\ pc = "rework" /\ IsOpened(index) /\ ~IsTerminalTask(run.tasks[index])
  /\ IF HasAttemptsLeft(run.tasks[index])
       THEN Commit(TransitionTask(run, index, "running"),
                   IF HasReworkSource(run) THEN "executing" ELSE "refused")
       ELSE Commit(TransitionTask(run, index, "failed"), "ruling")
  /\ UNCHANGED index

PassTerminalRework ==
  /\ pc = "rework" /\ IsOpened(index) /\ IsTerminalTask(run.tasks[index])
  /\ LET r == WithSuccessor(run, index)
     IN  IF r = run THEN Goto("ruling") /\ UNCHANGED index
         ELSE IF HasReworkSource(run) THEN Commit(r, "ruling") /\ UNCHANGED index
         ELSE Refuse

ReworkAnswered ==
  /\ pc = "executing" /\ run.rework_count > 0
  /\ \E answer \in Answers :
       Commit(WithSuccessor(FinishTask(run, index, answer), index), "ruling")
  /\ UNCHANGED index

\* The end of _run_rework and of _drive_running.
Rule ==
  /\ pc = "ruling"
  /\ LET reworked == run.tasks[ReworkIndex]
         unusable == run.rework_count > 0 /\ reworked.status = "succeeded"
                       /\ reworked.output # "valid"
     IN  IF unusable THEN CommitAndStop(Fail(run, "no rework output"))
         ELSE IF ~AllTasksSucceeded(run) THEN CommitAndStop(Fail(run, "tasks failed"))
         ELSE IF HasInvalidOutput(run) THEN CommitAndStop(Fail(run, "invalid output"))
         ELSE Commit(MoveTo(run, "waiting_qa"), "drive") /\ UNCHANGED index

-----------------------------------------------------------------------------
(* The QA gate. *)

OpenReviewOn(r, a) == IF IsCandidate(r, a) THEN {OpenHumanReview(r, a)} ELSE {}

\* _open_approval_review: the results it may have - none if the domain refuses.
ApprovalReviewOpened(r) ==
  IF ~qa_wired /\ r.rework_count = 0 THEN {r}
  ELSE IF FinalCandidate(r) = 0 \/ LatestReview(r, FinalCandidate(r)) # 0 THEN {r}
  ELSE OpenReviewOn(r, FinalCandidate(r))

\* Mutant: the draft is not made a candidate.
PromoteNothing(r, a) == r

PromoteDraft(r, a) ==
  IF r.artifacts[a].status = "draft" THEN TransitionArtifact(r, a, "candidate") ELSE r

LeaveUnjudgedRework ==
  At("drive", "waiting_qa") /\ ~qa_wired /\ run.rework_count > 0 /\ Return

PassWithoutQa ==
  /\ At("drive", "waiting_qa") /\ ~qa_wired /\ run.rework_count = 0
  /\ Commit(MoveTo(run, "waiting_human"), "drive")
  /\ UNCHANGED index

AtQaGate == At("drive", "waiting_qa") /\ qa_wired
Candidate == FinalCandidate(run)
Verdict == run.evaluations[LatestQa(run, Candidate)].status

FailWithoutCandidate ==
  AtQaGate /\ Candidate = 0 /\ CommitAndStop(Fail(run, "no candidate"))

OpenQa ==
  /\ AtQaGate /\ Candidate # 0 /\ LatestQa(run, Candidate) = 0
  /\ LET r == PromoteDraft(run, Candidate)
     IN  IF IsCandidate(r, Candidate)
           THEN Commit(OpenEvaluation(r, Candidate, TRUE), "judging") /\ UNCHANGED index
           ELSE Refuse

IsEvaluated == Candidate # 0 /\ LatestQa(run, Candidate) # 0

AskQaAgain ==
  AtQaGate /\ IsEvaluated /\ Verdict = "pending" /\ Goto("judging") /\ UNCHANGED index

\* record_verdict with an answer, and with a MeasuredEvaluatorError.
VerdictGiven ==
  /\ pc = "judging"
  /\ \E verdict \in EvaluationStatus \ {"pending"}, measured \in Measured :
       LET e == LatestQa(run, Candidate)
           r == IF measured THEN RecordEvaluationAnalytics(run, e) ELSE run
       IN  Commit(RecordEvaluation(r, e, verdict), "drive")
  /\ UNCHANGED index

\* It may carry measurements or none, and the Run is saved either way.
EvaluatorFails ==
  /\ pc = "judging"
  /\ \/ CommitAndStop(run)
     \/ /\ Len(run.analytics_records) < MaxRecords
        /\ CommitAndStop(RecordEvaluationAnalytics(run, LatestQa(run, Candidate)))

PassQa ==
  /\ AtQaGate /\ IsEvaluated /\ Verdict = "passed"
  /\ LET opened == ApprovalReviewOpened(MoveTo(run, "waiting_human"))
     IN  \/ \E r \in opened : Commit(r, "drive") /\ UNCHANGED index
         \/ opened = {} /\ Refuse

Escalate ==
  /\ AtQaGate /\ IsEvaluated /\ Verdict \in {"flagged", "failed"}
  /\ LET opened == OpenReviewOn(MoveTo(run, "waiting_human"), Candidate)
     IN  \/ \E r \in opened : CommitAndStop(r)
         \/ opened = {} /\ Refuse

-----------------------------------------------------------------------------
(* The human gate, and the end. *)

AtHumanGate == At("drive", "waiting_human") /\ ~ReworkRequested(run)
IsGateHeld == qa_wired \/ run.rework_count > 0

CompleteWithoutGate ==
  /\ AtHumanGate /\ ~IsGateHeld
  /\ IF run.human_reviews = <<>> THEN CommitAndStop(MoveTo(run, "completed")) ELSE Return

OpenMissingReview ==
  /\ AtHumanGate /\ IsGateHeld
  /\ Candidate # 0 /\ LatestReview(run, Candidate) = 0
  /\ LET opened == ApprovalReviewOpened(run)
     IN  \/ \E r \in opened : CommitAndStop(r)
         \/ opened = {} /\ Refuse

IsReleasable(r) ==
  /\ FinalCandidate(r) # 0
  /\ IsReviewOf(r, FinalCandidate(r), {"approved"})
  /\ LatestQa(r, FinalCandidate(r)) # 0
  /\ r.evaluations[LatestQa(r, FinalCandidate(r))].status = "passed"

\* Mutant: the Artifact is not approved.
ReleaseUnapproved ==
  AtHumanGate /\ IsGateHeld /\ IsReleasable(run) /\ CommitAndStop(MoveTo(run, "completed"))

Release ==
  /\ AtHumanGate /\ IsGateHeld /\ IsReleasable(run)
  /\ LET isOpen == run.artifacts[Candidate].status = "candidate"
         r == IF isOpen THEN TransitionArtifact(run, Candidate, "approved") ELSE run
     IN  IF (isOpen => CanTransitionArtifact(run, Candidate, "approved"))
              /\ CanTransition(r, "completed")
           THEN CommitAndStop(MoveTo(r, "completed"))
           ELSE Refuse

AwaitHuman ==
  /\ AtHumanGate /\ IsGateHeld /\ ~IsReleasable(run)
  /\ Candidate # 0 => LatestReview(run, Candidate) # 0
  /\ Return

LeaveTerminal == pc = "drive" /\ run.status \in {"completed", "failed"} /\ Return

\* take_review_decision, before produce_brief: the desk's decision on the
\* pending review is saved, unless it approves what QA did not pass.
TakeReviewDecision ==
  /\ pc = "idle" /\ stored # NoRun
  /\ PendingReview(stored) # 0
  /\ \E decision \in ReviewStatus \ {"pending"} :
       LET h == PendingReview(stored)
       IN  /\ decision = "approved" => QaPassed(stored, stored.human_reviews[h].artifact_ref)
           /\ stored' = SubmitReview(stored, h, decision)
  /\ UNCHANGED <<run, pc, plan, index, committed, qa_wired>>

-----------------------------------------------------------------------------

StepsNext ==
  \/ EnterSteps \/ EndSteps \/ PassTerminalTask \/ ResumeTask \/ OpenStep \/ StepAnswered

ReworkNext ==
  \/ BeginRework \/ EnterRework \/ OpenRework \/ ResumeRework \/ PassTerminalRework
  \/ ReworkAnswered

GateNext ==
  \/ LeaveUnjudgedRework \/ PassWithoutQa \/ FailWithoutCandidate \/ OpenQa \/ AskQaAgain
  \/ VerdictGiven \/ PassQa \/ Escalate
  \/ CompleteWithoutGate \/ OpenMissingReview \/ Release \/ AwaitHuman \/ LeaveTerminal

\* What the Director does when nothing goes wrong.
Advance == Queue \/ Start \/ StepsNext \/ ReworkNext \/ Rule \/ GateNext

Next == Invoke \/ Advance \/ EvaluatorFails \/ Interrupt \/ TakeReviewDecision

Spec == Init /\ [][Next]_vars

(* An interrupted brief is submitted again, an invocation left alone goes  *)
(* on, and there comes a time when invocations are left alone: no crash    *)
(* and no failing call any more, after any number of them at any points.   *)
(* The human owes nothing.                                                 *)
Fairness ==
  /\ WF_vars(Invoke) /\ WF_vars(Advance)
  /\ <>[][Invoke \/ Advance \/ TakeReviewDecision]_vars

FairSpec == Spec /\ Fairness

-----------------------------------------------------------------------------
(* Every variable keeps its shape, and what the store holds is a Run.      *)
TypeOK ==
  /\ stored \in Run \cup {NoRun}
  /\ run \in Run \cup {NoRun}
  /\ pc \in Label /\ (pc = "idle") <=> (run = NoRun)
  /\ plan \in Plans \cup {<<>>}
  /\ index \in Nat /\ committed \in BOOLEAN /\ qa_wired \in BOOLEAN

IsStored == stored # NoRun

\* Passed on to the human gate by a Director without QA, and not completed.
IsPassedUnjudged(r) ==
  r.status = "waiting_human" /\ r.rework_count = 0 /\ r.human_reviews = <<>>
    /\ FinalCandidate(r) # 0 /\ r.artifacts[FinalCandidate(r)].status = "draft"

(* Whatever is in the store, after whatever crash and under whatever       *)
(* wiring, the Director can take up again: a Run is refused only under a   *)
(* plan its Tasks do not follow - or by a Director with QA when one        *)
(* without has passed it on unjudged -, no later check of the Director and *)
(* no refusal of the domain stops it, and the stored Run always restores   *)
(* (content_director.py _run_rework, _rework_source, _open_approval_review;*)
(* run.py restore).                                                        *)
AlwaysResumable ==
  /\ pc = "refused" => ~Matches(run, plan) \/ (qa_wired /\ IsPassedUnjudged(run))
  /\ IsStored => IsRestorable(stored)

IsReleased(r) ==
  LET a == FinalCandidate(r)
  IN  /\ IsReleasable(r)
      /\ r.artifacts[a].status = "approved"
      /\ \A b \in DOMAIN r.artifacts :
           b # a => r.artifacts[b].status \in {"draft", "superseded"}

(* Where the gate holds - QA is wired, or the Run was reworked or reviewed -  *)
(* a Run completes only through both its halves: the final candidate is    *)
(* approved, the last verdict on it is passed, the last review of it is an *)
(* approval, and every version before it is superseded; whatever wiring    *)
(* earlier invocations had.                                                *)
ReleasedOnlyThroughGates ==
  [][stored # stored' /\ stored'.status = "completed"
       /\ (qa_wired \/ stored'.rework_count > 0 \/ stored'.human_reviews # <<>>)
     => IsReleased(stored')]_vars

(* There is never more than one live candidate, and while the Run waits    *)
(* for QA's or a human's decision it is the final step's Artifact.  A      *)
(* pending review is unique and asks about that candidate - what the       *)
(* review package is built from (review_publication.py                     *)
(* pending_review_package).                                                *)
OneLiveCandidate ==
  IsStored =>
    /\ \A a, b \in DOMAIN stored.artifacts :
         IsCandidate(stored, a) /\ IsCandidate(stored, b) => a = b
    /\ \A h \in DOMAIN stored.human_reviews :
         stored.human_reviews[h].status = "pending" =>
           LET a == stored.human_reviews[h].artifact_ref IN
             /\ stored.status = "waiting_human"
             /\ a = FinalCandidate(stored) /\ IsCandidate(stored, a)
             /\ \A g \in DOMAIN stored.human_reviews :
                  stored.human_reviews[g].status = "pending" => g = h

(* An executor or evaluator is only called once the store says so: the     *)
(* Task it works for is stored as running, the Evaluation as pending.  So  *)
(* a crash during the call is seen by the next invocation.                 *)
CallsAreAnnounced ==
  /\ pc = "executing" =>
       IsStored /\ index \in DOMAIN stored.tasks /\ stored.tasks[index].status = "running"
  /\ pc = "judging" =>
       IsStored /\ \E e \in DOMAIN stored.evaluations :
         /\ stored.evaluations[e].status = "pending"
         /\ stored.evaluations[e].artifact_ref = FinalCandidate(stored)

\* Each record of a Task is of the attempt that ended it, and alone of its Task.
Accounted(r) ==
  \A k, m \in DOMAIN r.analytics_records :
    LET t == r.analytics_records[k].task_id IN
      /\ t # 0 => /\ t \in DOMAIN r.tasks /\ IsTerminalTask(r.tasks[t])
                  /\ r.analytics_records[k].retries = r.tasks[t].attempt_count - 1
      /\ t # 0 /\ r.analytics_records[m].task_id = t => k = m

(* The calls of a Task are accounted to the attempt that ended it, and an  *)
(* attempt is accounted at most once: what a lost attempt measured is lost *)
(* with it, never recorded twice (task_execution.py finish_task).          *)
CallsAccountedOnce == IsStored => Accounted(stored)

(* A bad result goes no further: no Artifact comes from an invalid Output, *)
(* no Task was opened after a Task that failed or whose Output is invalid, *)
(* and none got an input taken from an invalid Output.                     *)
BadResultsStopThePlan ==
  IsStored =>
    /\ \A a \in DOMAIN stored.artifacts :
         stored.tasks[stored.artifacts[a].output_ref].output = "valid"
    /\ \A t \in DOMAIN stored.tasks :
         /\ t < Len(stored.tasks) => /\ stored.tasks[t].status = "succeeded"
                                     /\ stored.tasks[t].output # "invalid"
         /\ stored.tasks[t].task_input.from = "output" =>
              LET source == stored.tasks[t].task_input.ref
              IN  source < t /\ stored.tasks[source].output = "valid"

(* A rework does what it was asked: its Task was opened for a decided,     *)
(* rework-triggering review of the Artifact it names, and the Artifact it  *)
(* produced supersedes exactly that one - also when the Task was resumed   *)
(* by another invocation, which looks its source up again.                 *)
ReworkAnswersItsReview ==
  IsStored =>
    \A t \in DOMAIN stored.tasks :
      stored.tasks[t].task_input.from = "rework" =>
        LET input == stored.tasks[t].task_input IN
          /\ stored.human_reviews[input.review].artifact_ref = input.ref
          /\ stored.human_reviews[input.review].status \in ReworkDecisions
          /\ \A a \in DOMAIN stored.artifacts :
               stored.artifacts[a].output_ref = t =>
                 /\ stored.artifacts[a].supersedes_ref = input.ref
                 /\ stored.artifacts[input.ref].status = "superseded"

\* q is r or a later Run: all that was decided in r is in q as it was.
KeepsWork(r, q) ==
  /\ q # NoRun
  /\ r.status \in {"completed", "failed"} => q = r
  /\ \A t \in DOMAIN r.tasks :
       /\ t \in DOMAIN q.tasks /\ q.tasks[t].task_input = r.tasks[t].task_input
       /\ IsTerminalTask(r.tasks[t]) => q.tasks[t] = r.tasks[t]
  /\ \A a \in DOMAIN r.artifacts :
       a \in DOMAIN q.artifacts /\ q.artifacts[a].output_ref = r.artifacts[a].output_ref
  /\ \A h \in DOMAIN r.human_reviews :
       /\ h \in DOMAIN q.human_reviews
       /\ r.human_reviews[h].status # "pending" => q.human_reviews[h] = r.human_reviews[h]
  /\ \A e \in DOMAIN r.evaluations :
       /\ e \in DOMAIN q.evaluations
       /\ r.evaluations[e].status # "pending" => q.evaluations[e] = r.evaluations[e]
  /\ PendingReview(r) # 0 => q.evaluations = r.evaluations

(* Committed work is never undone and never done again: a stored Task      *)
(* outcome with its Output, a decided review, a verdict, an Artifact's     *)
(* provenance and a terminal status stay in the store as they are.  And    *)
(* what a reviewer has before him does not change under his hands: no      *)
(* verdict is given or asked for while a review is pending.                *)
CommittedWorkIsKept == [][IsStored => KeepsWork(stored, stored')]_vars

IsSettled ==
  /\ IsStored
  /\ \/ stored.status \in {"completed", "failed"}
     \/ PendingReview(stored) # 0

(* A brief once begun always gets somewhere: after any crashes the Run     *)
(* completes, fails, or stops at a review somebody can decide; and after   *)
(* each decision it does so again.                                         *)
AlwaysSettles == IsStored ~> IsSettled

(* RunResumptionError is "raised before anything changes"                  *)
(* (content_director.py RunResumptionError, resume): a refused invocation  *)
(* has committed nothing.                                                  *)
RefusalChangesNothing == pc = "refused" => ~committed

(* Under several plans with the same number of steps, a Run never mixes    *)
(* them: each of its Tasks stands at its place in some plan it can still   *)
(* be matched with, and the rework Tasks repeat that plan's last step.     *)
FollowsSomePlan == IsStored => \E p \in Plans : Matches(stored, p)

\* What the reviewer sees of the stored Run.
Reviewer == INSTANCE ReviewedRelease WITH
  version <- IF IsStored THEN FinalCandidate(stored) ELSE 0,
  reviews <- IF IsStored THEN stored.human_reviews ELSE <<>>,
  round <- IF IsStored THEN stored.rework_count ELSE 0,
  outcome <- IF IsStored /\ stored.status \in {"completed", "failed"} THEN stored.status
             ELSE "open",
  Limit <- MaxReworkIterations

(* To its reviewer a Run is versions he is asked about in turn: whatever   *)
(* crashes, refusals, plans and wirings lie between, he is asked once      *)
(* about each version and about one at a time; a new version is made only  *)
(* when he sent the last one back, as often as the Run allows; and the Run *)
(* ends on his approval, or without him, never while he is asked.          *)
ImplementsReviewedRelease == Reviewer!Spec

=============================================================================
