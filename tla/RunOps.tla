------------------------------- MODULE RunOps -------------------------------
(***************************************************************************)
(* The operations of the Run aggregate (domain/run.py with its children   *)
(* domain/task.py, artifact.py, human_review.py and evaluation.py) as     *)
(* functions of a Run value.  For each public method of the root there is *)
(* a guard, CanX(r, ...), true when the method would not raise, and a     *)
(* result, X(r, ...), the Run after it.  A method that raises leaves the  *)
(* Run as it was.                                                         *)
(*                                                                         *)
(* Children are numbered from 1 in the order they were opened, which is   *)
(* what the five "_seq" counters and the generated ids amount to: the     *)
(* position of a child in its sequence is its id, the length of the       *)
(* sequence its counter.  An Output has the id of its Task.  Wording and  *)
(* payloads are left out; an Evaluation is always of the kind "qa", the   *)
(* only one the code opens.                                               *)
(***************************************************************************)
EXTENDS Integers, Sequences

CONSTANTS
  MaxReworkIterations,  \* ReworkPolicy.max_rework_iterations
  MaxAttempts,          \* TaskRetryPolicy.max_attempts
  Steps,                \* what a Task is opened for: workflow_step_ref and agent_ref
  Inputs,               \* what a Task is opened with: task_input
  Reasons,              \* failure reasons
  NoReason              \* failure_reason is None

ASSUME PolicyAssumption ==
  /\ MaxReworkIterations \in Nat
  /\ MaxAttempts \in Nat \ {0}
  /\ NoReason \notin Reasons

Actor == {"content_director", "agent", "human_reviewer"}

RunStatus == {"created", "queued", "running", "waiting_qa", "waiting_human",
              "completed", "failed"}
TaskStatus == {"pending", "running", "succeeded", "failed", "skipped"}
OutputStatus == {"none", "valid", "invalid"}    \* "none": the Task has no Output
ArtifactStatus == {"draft", "candidate", "approved", "published", "rejected", "superseded"}
ReviewStatus == {"pending", "approved", "rejected", "changes_requested"}
EvaluationStatus == {"pending", "passed", "flagged", "failed"}

AllowedTransitions ==
  [created       |-> {"queued", "failed"},
   queued        |-> {"running", "failed"},
   running       |-> {"waiting_qa", "failed"},
   waiting_qa    |-> {"waiting_human", "running", "failed"},
   waiting_human |-> {"completed", "running", "failed"},
   completed     |-> {},
   failed        |-> {}]

ReworkSources == {"waiting_qa", "waiting_human"}

AllowedTaskTransitions ==
  [pending   |-> {"running", "skipped"},
   running   |-> {"running", "succeeded", "failed"},
   succeeded |-> {}, failed |-> {}, skipped |-> {}]

TerminalTaskStates == {"succeeded", "failed", "skipped"}

AllowedArtifactTransitions ==
  [draft     |-> {"candidate", "superseded"},
   candidate |-> {"approved", "rejected", "superseded"},
   approved  |-> {"published", "superseded"},
   rejected |-> {}, superseded |-> {}, published |-> {}]

EventKind == {"RunCreated", "RunQueued", "RunStarted", "RunCompleted", "RunFailed",
              "TaskCreated", "TaskStarted", "TaskCompleted", "TaskFailed",
              "OutputValidated", "ArtifactCreated", "HumanReviewRequested",
              "HumanReviewApproved", "HumanReviewRejected",
              "EvaluationCompleted", "AnalyticsRecordCaptured"}

-----------------------------------------------------------------------------
(* A Run value and its children.  The journal keeps how often each kind of *)
(* event was emitted.                                                      *)

Task == [step : Steps, task_input : Inputs, status : TaskStatus,
         attempt_count : 0..MaxAttempts, output : OutputStatus]
Artifact == [output_ref : Nat, version : Nat \ {0}, supersedes_ref : Nat,
             status : ArtifactStatus]           \* supersedes_ref = 0: None
HumanReview == [artifact_ref : Nat, status : ReviewStatus]
Evaluation == [artifact_ref : Nat, attributed : BOOLEAN, status : EvaluationStatus]
AnalyticsRecord == [task_id : Nat, evaluation_id : Nat, retries : Int]

Run ==
  [status : RunStatus, rework_count : 0..MaxReworkIterations,
   failure_reason : Reasons \cup {NoReason},
   tasks : Seq(Task), artifacts : Seq(Artifact), human_reviews : Seq(HumanReview),
   evaluations : Seq(Evaluation), analytics_records : Seq(AnalyticsRecord),
   events : [EventKind -> Nat]]

NewRun ==
  [status |-> "created", rework_count |-> 0, failure_reason |-> NoReason,
   tasks |-> <<>>, artifacts |-> <<>>, human_reviews |-> <<>>, evaluations |-> <<>>,
   analytics_records |-> <<>>,
   events |-> [k \in EventKind |-> IF k = "RunCreated" THEN 1 ELSE 0]]

\* r with one more event of each kind in kinds.
Emit(r, kinds) ==
  [r EXCEPT !.events = [k \in EventKind |-> IF k \in kinds THEN @[k] + 1 ELSE @[k]]]

-----------------------------------------------------------------------------
(* The Run's own status. *)

IsTerminalTask(task) == task.status \in TerminalTaskStates
AllTasksTerminal(r) == \A t \in DOMAIN r.tasks : IsTerminalTask(r.tasks[t])
IsRework(r, to) == to = "running" /\ r.status \in ReworkSources

RunEventFor(previous, to) ==
  CASE to = "queued" -> {"RunQueued"}
    [] to = "running" /\ previous = "queued" -> {"RunStarted"}
    [] to = "completed" -> {"RunCompleted"}
    [] to = "failed" -> {"RunFailed"}
    [] OTHER -> {}

CanTransition(r, to) ==
  /\ to \in AllowedTransitions[r.status]
  /\ to = "completed" => AllTasksTerminal(r)
  /\ IsRework(r, to) => r.rework_count < MaxReworkIterations

Transition(r, to, reason) ==
  Emit([r EXCEPT !.status = to,
                 !.rework_count = IF IsRework(r, to) THEN @ + 1 ELSE @,
                 !.failure_reason = IF to = "failed" THEN reason ELSE @],
       RunEventFor(r.status, to))

-----------------------------------------------------------------------------
(* Tasks and their Outputs. *)

OpenTask(r, step, input) ==
  Emit([r EXCEPT !.tasks = Append(@, [step |-> step, task_input |-> input,
                                      status |-> "pending", attempt_count |-> 0,
                                      output |-> "none"])],
       {"TaskCreated"})

\* Mutant: a retried attempt starts its Task again.
TaskEventForEachAttempt(previous, to) ==
  CASE to = "running" -> {"TaskStarted"}
    [] to = "succeeded" -> {"TaskCompleted"}
    [] to = "failed" -> {"TaskFailed"}
    [] OTHER -> {}

TaskEventFor(previous, to) ==
  CASE to = "running" /\ previous = "pending" -> {"TaskStarted"}
    [] to = "succeeded" -> {"TaskCompleted"}
    [] to = "failed" -> {"TaskFailed"}
    [] OTHER -> {}

\* Mutant: the bound is one too high.
HasAttemptsLeftOffByOne(task) == task.attempt_count <= MaxAttempts

HasAttemptsLeft(task) == task.attempt_count < MaxAttempts

CanTransitionTask(r, t, to) ==
  /\ t \in DOMAIN r.tasks
  /\ to \in AllowedTaskTransitions[r.tasks[t].status]
  /\ to = "running" => HasAttemptsLeft(r.tasks[t])

TransitionTask(r, t, to) ==
  Emit([r EXCEPT !.tasks[t].status = to,
                 !.tasks[t].attempt_count = IF to = "running" THEN @ + 1 ELSE @],
       TaskEventFor(r.tasks[t].status, to))

CanRecordOutput(r, t) ==
  /\ t \in DOMAIN r.tasks
  /\ r.tasks[t].status = "succeeded"
  /\ r.tasks[t].output = "none"

\* valid is the Schema's verdict, "valid" or "invalid".
RecordOutput(r, t, valid) ==
  Emit([r EXCEPT !.tasks[t].output = valid],
       IF valid = "valid" THEN {"OutputValidated"} ELSE {})

-----------------------------------------------------------------------------
(* Artifacts and their versions. *)

HasOutput(r, t) == t \in DOMAIN r.tasks /\ r.tasks[t].output # "none"
IsOutputUsed(r, t) == \E a \in DOMAIN r.artifacts : r.artifacts[a].output_ref = t

AddArtifact(r, t, version, supersedes) ==
  Emit([r EXCEPT !.artifacts = Append(@, [output_ref |-> t, version |-> version,
                                          supersedes_ref |-> supersedes,
                                          status |-> "draft"])],
       {"ArtifactCreated"})

CanCreateArtifact(r, t) == HasOutput(r, t) /\ ~IsOutputUsed(r, t)
CreateArtifact(r, t) == AddArtifact(r, t, 1, 0)

\* Mutant: the Output may be another Artifact's already.
CanCreateArtifactVersionOfAny(r, previous, t) ==
  /\ previous \in DOMAIN r.artifacts
  /\ HasOutput(r, t)
  /\ "superseded" \in AllowedArtifactTransitions[r.artifacts[previous].status]

CanCreateArtifactVersion(r, previous, t) ==
  /\ previous \in DOMAIN r.artifacts
  /\ HasOutput(r, t) /\ ~IsOutputUsed(r, t)
  /\ "superseded" \in AllowedArtifactTransitions[r.artifacts[previous].status]

\* Mutant: the previous version stays live.
CreateArtifactVersionBeside(r, previous, t) ==
  AddArtifact(r, t, r.artifacts[previous].version + 1, previous)

CreateArtifactVersion(r, previous, t) ==
  AddArtifact([r EXCEPT !.artifacts[previous].status = "superseded"],
              t, r.artifacts[previous].version + 1, previous)

EvaluationsOf(r, a) == {e \in DOMAIN r.evaluations : r.evaluations[e].artifact_ref = a}
ReviewsOf(r, a) == {h \in DOMAIN r.human_reviews : r.human_reviews[h].artifact_ref = a}

HasApprovedReview(r, a) ==
  \E h \in ReviewsOf(r, a) : r.human_reviews[h].status = "approved"

\* The last Evaluation opened on a is PASSED.
QaPassed(r, a) ==
  \E e \in EvaluationsOf(r, a) :
    /\ r.evaluations[e].status = "passed"
    /\ \A f \in EvaluationsOf(r, a) : f <= e

CanTransitionArtifact(r, a, to) ==
  /\ a \in DOMAIN r.artifacts
  /\ to # "superseded"
  /\ to = "approved" /\ r.artifacts[a].status = "candidate"
       => HasApprovedReview(r, a) /\ QaPassed(r, a)
  /\ to \in AllowedArtifactTransitions[r.artifacts[a].status]

TransitionArtifact(r, a, to) == [r EXCEPT !.artifacts[a].status = to]

-----------------------------------------------------------------------------
(* Human Reviews, Evaluations and Analytics Records. *)

IsCandidate(r, a) == a \in DOMAIN r.artifacts /\ r.artifacts[a].status = "candidate"

OpenHumanReview(r, a) ==
  Emit([r EXCEPT !.human_reviews = Append(@, [artifact_ref |-> a, status |-> "pending"])],
       {"HumanReviewRequested"})

CanSubmitReview(r, h, decision) ==
  /\ h \in DOMAIN r.human_reviews
  /\ r.human_reviews[h].status = "pending"
  /\ decision \in ReviewStatus \ {"pending"}

SubmitReview(r, h, decision) ==
  Emit([r EXCEPT !.human_reviews[h].status = decision],
       CASE decision = "approved" -> {"HumanReviewApproved"}
         [] decision = "rejected" -> {"HumanReviewRejected"}
         [] OTHER -> {})

OpenEvaluation(r, a, attributed) ==
  [r EXCEPT !.evaluations = Append(@, [artifact_ref |-> a, attributed |-> attributed,
                                       status |-> "pending"])]

\* Mutant: a verdict may be given twice.
CanRecordEvaluationAgain(r, e, verdict) ==
  /\ e \in DOMAIN r.evaluations
  /\ verdict \in EvaluationStatus \ {"pending"}

CanRecordEvaluation(r, e, verdict) ==
  /\ e \in DOMAIN r.evaluations
  /\ r.evaluations[e].status = "pending"
  /\ verdict \in EvaluationStatus \ {"pending"}

RecordEvaluation(r, e, verdict) ==
  Emit([r EXCEPT !.evaluations[e].status = verdict], {"EvaluationCompleted"})

Capture(r, record) ==
  Emit([r EXCEPT !.analytics_records = Append(@, record)], {"AnalyticsRecordCaptured"})

CanRecordAnalytics(r, t) == t \in DOMAIN r.tasks /\ r.tasks[t].attempt_count >= 1
RecordAnalytics(r, t) ==
  Capture(r, [task_id |-> t, evaluation_id |-> 0,
              retries |-> r.tasks[t].attempt_count - 1])

CanRecordEvaluationAnalytics(r, e) == e \in DOMAIN r.evaluations /\ r.evaluations[e].attributed
RecordEvaluationAnalytics(r, e) ==
  Capture(r, [task_id |-> 0, evaluation_id |-> e, retries |-> -1])   \* -1: None

-----------------------------------------------------------------------------
(* Run.restore: the snapshot of r is admitted.  The parts are the          *)
(* _verify_* functions and the check on COMPLETED at the end of restore;   *)
(* ids and counters are positions and lengths here, so _verify_counters    *)
(* and the duplicate-id half of _verify_ownership say nothing.             *)

TaskStatesRestorable(r) ==
  \A t \in DOMAIN r.tasks :
    /\ r.tasks[t].attempt_count \in 0..MaxAttempts
    /\ r.tasks[t].output # "none" => r.tasks[t].status = "succeeded"

ReferencesRestorable(r) ==
  /\ \A a \in DOMAIN r.artifacts :
       /\ HasOutput(r, r.artifacts[a].output_ref)
       /\ \A b \in DOMAIN r.artifacts :
            r.artifacts[a].output_ref = r.artifacts[b].output_ref => a = b
       /\ r.artifacts[a].supersedes_ref \in {0} \cup DOMAIN r.artifacts
  /\ \A h \in DOMAIN r.human_reviews : r.human_reviews[h].artifact_ref \in DOMAIN r.artifacts
  /\ \A e \in DOMAIN r.evaluations : r.evaluations[e].artifact_ref \in DOMAIN r.artifacts
  /\ \A k \in DOMAIN r.analytics_records :
       \/ r.analytics_records[k].task_id \in DOMAIN r.tasks
       \/ CanRecordEvaluationAnalytics(r, r.analytics_records[k].evaluation_id)

ChildrenRestorable(r) ==
  /\ r.rework_count \in 0..MaxReworkIterations
  /\ TaskStatesRestorable(r)
  /\ ReferencesRestorable(r)

IsRestorable(r) ==
  /\ ChildrenRestorable(r)
  /\ r.status = "completed" => AllTasksTerminal(r)
=============================================================================
