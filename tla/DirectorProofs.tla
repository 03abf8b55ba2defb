--------------------------- MODULE DirectorProofs ---------------------------
(***************************************************************************)
(* What holds of the Content Director under every plan, wiring, crash and  *)
(* decision: proofs about ContentDirector.  Ops names what RunOpsProofs    *)
(* shows of the operations of a Run, for the Runs the Director drives.     *)
(***************************************************************************)
EXTENDS DirectorStore, WellFoundedInduction, TLAPS

Ops == INSTANCE RunOpsProofs WITH
  Steps <- UNION {{p[i] : i \in DOMAIN p} : p \in Plans},
  Inputs <- TaskInput, Reasons <- FailureReason, NoReason <- "none"

-----------------------------------------------------------------------------
(* The operations of RunOps the Director calls and those of Ops are the    *)
(* same, so what RunOpsProofs shows of them holds here.                    *)

(* The limits of a Run are what the lemmas on its operations assume of     *)
(* them.                                                                   *)
LEMMA Policies == Ops!PolicyAssumption
BY LimitAssumption DEF Ops!PolicyAssumption, FailureReason

(* RunOpsProofs speaks of the Runs of this module.                         *)
LEMMA SameRuns ==
  /\ Run = Ops!Run /\ NewRun = Ops!NewRun
  /\ TaskStatus = Ops!TaskStatus /\ RunStatus = Ops!RunStatus
  /\ ArtifactStatus = Ops!ArtifactStatus /\ ReviewStatus = Ops!ReviewStatus
  /\ EvaluationStatus = Ops!EvaluationStatus /\ TerminalTaskStates = Ops!TerminalTaskStates
  /\ Task = Ops!Task /\ Artifact = Ops!Artifact /\ HumanReview = Ops!HumanReview
  /\ Evaluation = Ops!Evaluation /\ AnalyticsRecord = Ops!AnalyticsRecord
BY DEF Run, Ops!Run, NewRun, Ops!NewRun, Task, Ops!Task, Artifact, Ops!Artifact,
       HumanReview, Ops!HumanReview, Evaluation, Ops!Evaluation,
       AnalyticsRecord, Ops!AnalyticsRecord, TaskStatus, Ops!TaskStatus,
       OutputStatus, Ops!OutputStatus, RunStatus, Ops!RunStatus,
       ArtifactStatus, Ops!ArtifactStatus, ReviewStatus, Ops!ReviewStatus,
       EvaluationStatus, Ops!EvaluationStatus, EventKind, Ops!EventKind,
       TerminalTaskStates, Ops!TerminalTaskStates

(* The two restore the same Runs.                                          *)
LEMMA SameRestore ==
  ASSUME NEW r
  PROVE  /\ ChildrenRestorable(r) = Ops!ChildrenRestorable(r)
         /\ TaskStatesRestorable(r) = Ops!TaskStatesRestorable(r)
BY DEF ChildrenRestorable, Ops!ChildrenRestorable, TaskStatesRestorable,
       Ops!TaskStatesRestorable, ReferencesRestorable, Ops!ReferencesRestorable,
       HasOutput, Ops!HasOutput, CanRecordEvaluationAnalytics, Ops!CanRecordEvaluationAnalytics

(* They move a Run alike.                                                  *)
LEMMA SameMoves ==
  ASSUME NEW r, NEW to, NEW reason
  PROVE  /\ CanTransition(r, to) = Ops!CanTransition(r, to)
         /\ Transition(r, to, reason) = Ops!Transition(r, to, reason)
         /\ IsRework(r, to) = Ops!IsRework(r, to)
BY DEF CanTransition, Ops!CanTransition, Transition, Ops!Transition, Emit, Ops!Emit,
       EventKind, Ops!EventKind, RunEventFor, Ops!RunEventFor, IsRework, Ops!IsRework,
       ReworkSources, Ops!ReworkSources, AllowedTransitions, Ops!AllowedTransitions,
       AllTasksTerminal, Ops!AllTasksTerminal, IsTerminalTask, Ops!IsTerminalTask,
       TerminalTaskStates, Ops!TerminalTaskStates

(* Their operations on Tasks are the same.                                 *)
LEMMA SameTaskCalls ==
  ASSUME NEW r, NEW t, NEW x, NEW y
  PROVE  /\ OpenTask(r, x, y) = Ops!OpenTask(r, x, y)
         /\ CanTransitionTask(r, t, x) = Ops!CanTransitionTask(r, t, x)
         /\ TransitionTask(r, t, x) = Ops!TransitionTask(r, t, x)
         /\ CanRecordOutput(r, t) = Ops!CanRecordOutput(r, t)
         /\ RecordOutput(r, t, x) = Ops!RecordOutput(r, t, x)
         /\ CanRecordAnalytics(r, t) = Ops!CanRecordAnalytics(r, t)
         /\ RecordAnalytics(r, t) = Ops!RecordAnalytics(r, t)
BY DEF OpenTask, Ops!OpenTask, CanTransitionTask, Ops!CanTransitionTask,
       TransitionTask, Ops!TransitionTask, CanRecordOutput, Ops!CanRecordOutput,
       RecordOutput, Ops!RecordOutput, CanRecordAnalytics, Ops!CanRecordAnalytics,
       RecordAnalytics, Ops!RecordAnalytics, Capture, Ops!Capture, Emit, Ops!Emit,
       EventKind, Ops!EventKind, TaskEventFor, Ops!TaskEventFor,
       HasAttemptsLeft, Ops!HasAttemptsLeft, AllowedTaskTransitions, Ops!AllowedTaskTransitions

(* Their operations on Artifacts are the same.                             *)
LEMMA SameArtifactCalls ==
  ASSUME NEW r, NEW a, NEW t, NEW to
  PROVE  /\ CanCreateArtifact(r, t) = Ops!CanCreateArtifact(r, t)
         /\ CreateArtifact(r, t) = Ops!CreateArtifact(r, t)
         /\ CanCreateArtifactVersion(r, a, t) = Ops!CanCreateArtifactVersion(r, a, t)
         /\ CreateArtifactVersion(r, a, t) = Ops!CreateArtifactVersion(r, a, t)
         /\ CanTransitionArtifact(r, a, to) = Ops!CanTransitionArtifact(r, a, to)
         /\ TransitionArtifact(r, a, to) = Ops!TransitionArtifact(r, a, to)
         /\ IsCandidate(r, a) = Ops!IsCandidate(r, a)
BY DEF CanCreateArtifact, Ops!CanCreateArtifact, CreateArtifact, Ops!CreateArtifact,
       CanCreateArtifactVersion, Ops!CanCreateArtifactVersion,
       CreateArtifactVersion, Ops!CreateArtifactVersion, AddArtifact, Ops!AddArtifact,
       CanTransitionArtifact, Ops!CanTransitionArtifact,
       TransitionArtifact, Ops!TransitionArtifact, IsCandidate, Ops!IsCandidate,
       Emit, Ops!Emit, EventKind, Ops!EventKind, HasOutput, Ops!HasOutput,
       IsOutputUsed, Ops!IsOutputUsed, HasApprovedReview, Ops!HasApprovedReview,
       QaPassed, Ops!QaPassed, ReviewsOf, Ops!ReviewsOf, EvaluationsOf, Ops!EvaluationsOf,
       AllowedArtifactTransitions, Ops!AllowedArtifactTransitions

(* Their operations on Human Reviews, Evaluations and Analytics Records    *)
(* are the same.                                                           *)
LEMMA SameJudgementCalls ==
  ASSUME NEW r, NEW a, NEW x
  PROVE  /\ OpenHumanReview(r, a) = Ops!OpenHumanReview(r, a)
         /\ CanSubmitReview(r, a, x) = Ops!CanSubmitReview(r, a, x)
         /\ SubmitReview(r, a, x) = Ops!SubmitReview(r, a, x)
         /\ OpenEvaluation(r, a, x) = Ops!OpenEvaluation(r, a, x)
         /\ CanRecordEvaluation(r, a, x) = Ops!CanRecordEvaluation(r, a, x)
         /\ RecordEvaluation(r, a, x) = Ops!RecordEvaluation(r, a, x)
         /\ CanRecordEvaluationAnalytics(r, a) = Ops!CanRecordEvaluationAnalytics(r, a)
         /\ RecordEvaluationAnalytics(r, a) = Ops!RecordEvaluationAnalytics(r, a)
BY DEF OpenHumanReview, Ops!OpenHumanReview, CanSubmitReview, Ops!CanSubmitReview,
       SubmitReview, Ops!SubmitReview, OpenEvaluation, Ops!OpenEvaluation,
       CanRecordEvaluation, Ops!CanRecordEvaluation, RecordEvaluation, Ops!RecordEvaluation,
       CanRecordEvaluationAnalytics, Ops!CanRecordEvaluationAnalytics,
       RecordEvaluationAnalytics, Ops!RecordEvaluationAnalytics, Capture, Ops!Capture,
       Emit, Ops!Emit, EventKind, Ops!EventKind, ReviewStatus, Ops!ReviewStatus,
       EvaluationStatus, Ops!EvaluationStatus

(* The memory of an invocation is the row of the store. *)
MemoryIsStored ==
  pc # "idle" => \/ run = stored
                 \/ stored = NoRun /\ run = NewRun /\ pc = "drive"

(* The latest Evaluation of the final candidate of r has no verdict yet.   *)
AwaitsVerdict(r) ==
  LET a == FinalCandidate(r)
  IN  /\ a # 0 /\ LatestQa(r, a) # 0
      /\ r.evaluations[LatestQa(r, a)].status = "pending"

(* What an invocation at a label knows of its Run r, plan p and index i.   *)
InControl(label, r, p, i) ==
  /\ label \in {"steps", "rework", "executing", "ruling"} => r.status = "running"
  /\ label = "steps" => r.rework_count = 0 /\ i \in 1..(Len(r.tasks) + 1)
  /\ label = "rework" => r.rework_count > 0 /\ i \in 1..(Len(r.tasks) + 1)
  /\ label = "executing" => /\ i \in DOMAIN r.tasks /\ r.tasks[i].status = "running"
                            /\ r.rework_count > 0 => HasReworkSource(r)
  /\ label = "judging" => r.status = "waiting_qa" /\ AwaitsVerdict(r)

(* What holds of the Director at every step, of its memory and its store. *)
IInv ==
  /\ index \in Nat /\ committed \in BOOLEAN /\ qa_wired \in BOOLEAN
  /\ pc \in Label /\ ((pc = "idle") <=> (run = NoRun))
  /\ plan \in Plans \cup {<<>>} /\ (pc # "idle" => plan \in Plans)
  /\ stored # NoRun => IsKept(stored)
  /\ MemoryIsStored /\ InControl(pc, run, plan, index)

-----------------------------------------------------------------------------
(* What the Director's calls do to a sound Run. *)

(* Whatever an operation does, it makes a sound Run of one and only lets   *)
(* it grow.                                                                *)
LEMMA OperationLegal ==
  ASSUME NEW r, Sound(r), NEW q, Ops!Operation(r, q),
         q.evaluations = r.evaluations \/ PendingAttributed(q)
  PROVE  Sound(q) /\ Ops!Grows(r, q)
<1>1. r \in Ops!Run /\ Ops!ChildrenRestorable(r) /\ Ops!AttemptsCounted(r)
  BY SameRuns, SameRestore DEF Sound, AttemptsCounted, Ops!AttemptsCounted
<1>2. Ops!TaskStatesRestorable(r)
  BY <1>1 DEF Ops!ChildrenRestorable
<1>3. q \in Ops!Run
  BY <1>1, Policies, Ops!OperationTyped, Zenon
<1>4. Ops!ChildrenRestorable(q)
  BY <1>1, Policies, Ops!OperationRestorable, Zenon
<1>5. Ops!AttemptsCounted(q)
  BY <1>1, Policies, Ops!OperationCounts, Zenon
<1>6. Ops!Grows(r, q)
  BY <1>1, <1>2, Policies, Ops!OperationGrows, Zenon
<1>7. q \in Run /\ ChildrenRestorable(q) /\ AttemptsCounted(q)
  BY <1>3, <1>4, <1>5, SameRuns, SameRestore DEF AttemptsCounted, Ops!AttemptsCounted
<1>8. PendingAttributed(q)
  BY DEF PendingAttributed, Sound
<1> QED
  BY <1>6, <1>7, <1>8 DEF Sound

(* Run.transition, called where the code may call it.                      *)
LEMMA MoveLegal ==
  ASSUME NEW r, Sound(r), NEW to \in RunStatus, NEW reason \in FailureReason \cup {"none"},
         CanTransition(r, to)
  PROVE  LET q == Transition(r, to, reason)
         IN  /\ Sound(q) /\ Ops!Grows(r, q) /\ Ops!Keeps(r, q, {"status"})
             /\ q.status = to
             /\ q.rework_count = IF IsRework(r, to) THEN r.rework_count + 1
                                                    ELSE r.rework_count
<1> DEFINE q == Transition(r, to, reason)
<1>1. r \in Ops!Run /\ to \in Ops!RunStatus /\ Ops!CanTransition(r, to)
  BY SameRuns, SameMoves DEF Sound
<1>2. q = Ops!Transition(r, to, reason)
  BY SameMoves
<1>3. Ops!StatusOperation(r, q)
  BY <1>1, <1>2 DEF Ops!StatusOperation
<1> HIDE DEF q
<1>4. /\ Ops!Keeps(r, q, {"status"}) /\ q.status = to
      /\ q.rework_count = IF Ops!IsRework(r, to) THEN r.rework_count + 1 ELSE r.rework_count
  BY <1>1, <1>2, Policies, Ops!TransitionEffect, Zenon
<1>5. q.evaluations = r.evaluations
  BY <1>4 DEF Ops!Keeps
<1>6. Sound(q) /\ Ops!Grows(r, q)
  BY <1>3, <1>5, OperationLegal DEF Ops!Operation
<1>7. IsRework(r, to) = Ops!IsRework(r, to)
  BY SameMoves
<1> QED
  BY <1>4, <1>6, <1>7 DEF q

(* Run.open_task, called where the code may call it.                       *)
LEMMA OpenTaskLegal ==
  ASSUME NEW r, Sound(r), NEW p \in Plans, NEW i \in DOMAIN p, NEW input \in TaskInput
  PROVE  LET q == OpenTask(r, p[i], input)
         IN  /\ Sound(q) /\ Ops!Grows(r, q) /\ Ops!Keeps(r, q, {"tasks"})
             /\ q.tasks = Append(r.tasks, [step |-> p[i], task_input |-> input,
                                           status |-> "pending", attempt_count |-> 0,
                                           output |-> "none"])
<1> DEFINE q == OpenTask(r, p[i], input)
           step == p[i]
<1>1. r \in Ops!Run /\ step \in UNION {{o[j] : j \in DOMAIN o} : o \in Plans}
  BY SameRuns DEF Sound
<1>2. q = Ops!OpenTask(r, step, input)
  BY SameTaskCalls
<1>3. Ops!TaskOperation(r, q)
  BY <1>1, <1>2 DEF Ops!TaskOperation
<1> HIDE DEF q, step
<1>4. /\ Ops!Keeps(r, q, {"tasks"})
      /\ q.tasks = Append(r.tasks, [step |-> step, task_input |-> input,
                                    status |-> "pending", attempt_count |-> 0,
                                    output |-> "none"])
  BY <1>1, <1>2, Policies, Ops!OpenTaskEffect, Zenon
<1>5. q.evaluations = r.evaluations
  BY <1>4 DEF Ops!Keeps
<1>6. Sound(q) /\ Ops!Grows(r, q)
  BY <1>3, <1>5, OperationLegal DEF Ops!Operation
<1> QED
  BY <1>4, <1>6 DEF q, step

(* Run.transition_task, called where the code may call it: the attempts    *)
(* stay counted.                                                           *)
LEMMA TransitionTaskLegal ==
  ASSUME NEW r, Sound(r), NEW t, NEW to \in TaskStatus, CanTransitionTask(r, t, to)
  PROVE  LET q == TransitionTask(r, t, to)
         IN  /\ Sound(q) /\ Ops!Grows(r, q) /\ Ops!Keeps(r, q, {"tasks"})
             /\ q.tasks = Ops!Updated(r.tasks, t, Ops!Attempted(r.tasks[t], to))
<1> DEFINE q == TransitionTask(r, t, to)
<1>1. /\ r \in Ops!Run /\ to \in Ops!TaskStatus /\ t \in DOMAIN r.tasks
      /\ Ops!CanTransitionTask(r, t, to)
  BY SameRuns, SameTaskCalls DEF Sound, CanTransitionTask
<1>2. q = Ops!TransitionTask(r, t, to)
  BY SameTaskCalls
<1>3. Ops!TaskOperation(r, q)
  BY <1>1, <1>2 DEF Ops!TaskOperation
<1> HIDE DEF q
<1>4. /\ Ops!Keeps(r, q, {"tasks"})
      /\ q.tasks = Ops!Updated(r.tasks, t, Ops!Attempted(r.tasks[t], to))
  BY <1>1, <1>2, Policies, Ops!TransitionTaskEffect, Zenon
<1>5. q.evaluations = r.evaluations
  BY <1>4 DEF Ops!Keeps
<1>6. Sound(q) /\ Ops!Grows(r, q)
  BY <1>3, <1>5, OperationLegal DEF Ops!Operation
<1> QED
  BY <1>4, <1>6 DEF q

(* Run.record_output, called where the code may call it.                   *)
LEMMA RecordOutputLegal ==
  ASSUME NEW r, Sound(r), NEW t, NEW valid \in {"valid", "invalid"}, CanRecordOutput(r, t)
  PROVE  LET q == RecordOutput(r, t, valid)
         IN  /\ Sound(q) /\ Ops!Grows(r, q) /\ Ops!Keeps(r, q, {"tasks"})
             /\ q.tasks = Ops!Updated(r.tasks, t, Ops!WithOutput(r.tasks[t], valid))
<1> DEFINE q == RecordOutput(r, t, valid)
<1>1. r \in Ops!Run /\ t \in DOMAIN r.tasks /\ Ops!CanRecordOutput(r, t)
  BY SameRuns, SameTaskCalls DEF Sound, CanRecordOutput
<1>2. q = Ops!RecordOutput(r, t, valid)
  BY SameTaskCalls
<1>3. Ops!TaskOperation(r, q)
  BY <1>1, <1>2 DEF Ops!TaskOperation
<1> HIDE DEF q
<1>4. /\ Ops!Keeps(r, q, {"tasks"})
      /\ q.tasks = Ops!Updated(r.tasks, t, Ops!WithOutput(r.tasks[t], valid))
  BY <1>1, <1>2, Policies, Ops!RecordOutputEffect, Zenon
<1>5. q.evaluations = r.evaluations
  BY <1>4 DEF Ops!Keeps
<1>6. Sound(q) /\ Ops!Grows(r, q)
  BY <1>3, <1>5, OperationLegal DEF Ops!Operation
<1> QED
  BY <1>4, <1>6 DEF q

(* Run.record_analytics of a Task, called where the code may call it.      *)
LEMMA RecordAnalyticsLegal ==
  ASSUME NEW r, Sound(r), NEW t, CanRecordAnalytics(r, t)
  PROVE  LET q == RecordAnalytics(r, t)
         IN  /\ Sound(q) /\ Ops!Grows(r, q) /\ Ops!Keeps(r, q, {"analytics_records"})
             /\ q.analytics_records
                  = Append(r.analytics_records, [task_id |-> t, evaluation_id |-> 0,
                                                 retries |-> r.tasks[t].attempt_count - 1])
<1> DEFINE q == RecordAnalytics(r, t)
<1>1. r \in Ops!Run /\ t \in DOMAIN r.tasks /\ Ops!CanRecordAnalytics(r, t)
  BY SameRuns, SameTaskCalls DEF Sound, CanRecordAnalytics
<1>2. q = Ops!RecordAnalytics(r, t)
  BY SameTaskCalls
<1>3. Ops!RecordOperation(r, q)
  BY <1>1, <1>2 DEF Ops!RecordOperation
<1> HIDE DEF q
<1>4. /\ Ops!Keeps(r, q, {"analytics_records"})
      /\ q.analytics_records
           = Append(r.analytics_records, [task_id |-> t, evaluation_id |-> 0,
                                          retries |-> r.tasks[t].attempt_count - 1])
  BY <1>1, <1>2, Policies, Ops!RecordAnalyticsEffect, Zenon
<1>5. q.evaluations = r.evaluations
  BY <1>4 DEF Ops!Keeps
<1>6. Sound(q) /\ Ops!Grows(r, q)
  BY <1>3, <1>5, OperationLegal DEF Ops!Operation
<1> QED
  BY <1>4, <1>6 DEF q

(* Run.record_analytics of an Evaluation, called where the code may call   *)
(* it.                                                                     *)
LEMMA RecordEvaluationAnalyticsLegal ==
  ASSUME NEW r, Sound(r), NEW e, CanRecordEvaluationAnalytics(r, e)
  PROVE  LET q == RecordEvaluationAnalytics(r, e)
         IN  /\ Sound(q) /\ Ops!Grows(r, q) /\ Ops!Keeps(r, q, {"analytics_records"})
             /\ q.analytics_records
                  = Append(r.analytics_records, [task_id |-> 0, evaluation_id |-> e,
                                                 retries |-> -1])
<1> DEFINE q == RecordEvaluationAnalytics(r, e)
<1>1. /\ r \in Ops!Run /\ e \in DOMAIN r.evaluations
      /\ Ops!CanRecordEvaluationAnalytics(r, e)
  BY SameRuns, SameJudgementCalls DEF Sound, CanRecordEvaluationAnalytics
<1>2. q = Ops!RecordEvaluationAnalytics(r, e)
  BY SameJudgementCalls
<1>3. Ops!RecordOperation(r, q)
  BY <1>1, <1>2 DEF Ops!RecordOperation
<1> HIDE DEF q
<1>4. /\ Ops!Keeps(r, q, {"analytics_records"})
      /\ q.analytics_records
           = Append(r.analytics_records, [task_id |-> 0, evaluation_id |-> e,
                                          retries |-> -1])
  BY <1>1, <1>2, Policies, Ops!RecordEvaluationAnalyticsEffect, Zenon
<1>5. q.evaluations = r.evaluations
  BY <1>4 DEF Ops!Keeps
<1>6. Sound(q) /\ Ops!Grows(r, q)
  BY <1>3, <1>5, OperationLegal DEF Ops!Operation
<1> QED
  BY <1>4, <1>6 DEF q

(* Run.create_artifact, called where the code may call it.                 *)
LEMMA CreateArtifactLegal ==
  ASSUME NEW r, Sound(r), NEW t, CanCreateArtifact(r, t)
  PROVE  LET q == CreateArtifact(r, t)
         IN  /\ Sound(q) /\ Ops!Grows(r, q) /\ Ops!Keeps(r, q, {"artifacts"})
             /\ q.artifacts = Append(r.artifacts,
                                     [output_ref |-> t, version |-> 1,
                                      supersedes_ref |-> 0, status |-> "draft"])
<1> DEFINE q == CreateArtifact(r, t)
<1>1. r \in Ops!Run /\ t \in DOMAIN r.tasks /\ Ops!CanCreateArtifact(r, t)
  BY SameRuns, SameArtifactCalls DEF Sound, CanCreateArtifact, HasOutput
<1>2. q = Ops!CreateArtifact(r, t)
  BY SameArtifactCalls
<1>3. Ops!ArtifactOperation(r, q)
  BY <1>1, <1>2 DEF Ops!ArtifactOperation
<1> HIDE DEF q
<1>4. /\ Ops!Keeps(r, q, {"artifacts"})
      /\ q.artifacts = Append(r.artifacts, [output_ref |-> t, version |-> 1,
                                            supersedes_ref |-> 0, status |-> "draft"])
  BY <1>1, <1>2, Policies, Ops!CreateArtifactEffect, Zenon
<1>5. q.evaluations = r.evaluations
  BY <1>4 DEF Ops!Keeps
<1>6. Sound(q) /\ Ops!Grows(r, q)
  BY <1>3, <1>5, OperationLegal DEF Ops!Operation
<1> QED
  BY <1>4, <1>6 DEF q

(* Run.create_artifact_version, called where the code may call it.         *)
LEMMA CreateArtifactVersionLegal ==
  ASSUME NEW r, Sound(r), NEW a, NEW t, CanCreateArtifactVersion(r, a, t)
  PROVE  LET q == CreateArtifactVersion(r, a, t)
         IN  /\ Sound(q) /\ Ops!Grows(r, q) /\ Ops!Keeps(r, q, {"artifacts"})
             /\ q.artifacts =
                  Append(Ops!Updated(r.artifacts, a,
                                     Ops!WithStatus(r.artifacts[a], "superseded")),
                         [output_ref |-> t, version |-> r.artifacts[a].version + 1,
                          supersedes_ref |-> a, status |-> "draft"])
<1> DEFINE q == CreateArtifactVersion(r, a, t)
<1>1. /\ r \in Ops!Run /\ t \in DOMAIN r.tasks /\ a \in DOMAIN r.artifacts
      /\ Ops!CanCreateArtifactVersion(r, a, t)
  BY SameRuns, SameArtifactCalls DEF Sound, CanCreateArtifactVersion, HasOutput
<1>2. q = Ops!CreateArtifactVersion(r, a, t)
  BY SameArtifactCalls
<1>3. Ops!ArtifactOperation(r, q)
  BY <1>1, <1>2 DEF Ops!ArtifactOperation
<1> HIDE DEF q
<1>4. /\ Ops!Keeps(r, q, {"artifacts"})
      /\ q.artifacts = Append(Ops!Updated(r.artifacts, a,
                                          Ops!WithStatus(r.artifacts[a], "superseded")),
                              [output_ref |-> t, version |-> r.artifacts[a].version + 1,
                               supersedes_ref |-> a, status |-> "draft"])
  BY <1>1, <1>2, Policies, Ops!CreateArtifactVersionEffect, Zenon
<1>5. q.evaluations = r.evaluations
  BY <1>4 DEF Ops!Keeps
<1>6. Sound(q) /\ Ops!Grows(r, q)
  BY <1>3, <1>5, OperationLegal DEF Ops!Operation
<1> QED
  BY <1>4, <1>6 DEF q

(* Run.transition_artifact, called where the code may call it.             *)
LEMMA TransitionArtifactLegal ==
  ASSUME NEW r, Sound(r), NEW a, NEW to \in ArtifactStatus, CanTransitionArtifact(r, a, to)
  PROVE  LET q == TransitionArtifact(r, a, to)
         IN  /\ Sound(q) /\ Ops!Grows(r, q) /\ Ops!Keeps(r, q, {"artifacts"})
             /\ q.artifacts = Ops!Updated(r.artifacts, a, Ops!WithStatus(r.artifacts[a], to))
<1> DEFINE q == TransitionArtifact(r, a, to)
<1>1. /\ r \in Ops!Run /\ to \in Ops!ArtifactStatus /\ a \in DOMAIN r.artifacts
      /\ Ops!CanTransitionArtifact(r, a, to)
  BY SameRuns, SameArtifactCalls DEF Sound, CanTransitionArtifact
<1>2. q = Ops!TransitionArtifact(r, a, to)
  BY SameArtifactCalls
<1>3. Ops!ArtifactOperation(r, q)
  BY <1>1, <1>2 DEF Ops!ArtifactOperation
<1> HIDE DEF q
<1>4. /\ Ops!Keeps(r, q, {"artifacts"})
      /\ q.artifacts = Ops!Updated(r.artifacts, a, Ops!WithStatus(r.artifacts[a], to))
  BY <1>1, <1>2, Policies, Ops!TransitionArtifactEffect, Zenon
<1>5. q.evaluations = r.evaluations
  BY <1>4 DEF Ops!Keeps
<1>6. Sound(q) /\ Ops!Grows(r, q)
  BY <1>3, <1>5, OperationLegal DEF Ops!Operation
<1> QED
  BY <1>4, <1>6 DEF q

(* Run.open_human_review, called on a candidate.                           *)
LEMMA OpenHumanReviewLegal ==
  ASSUME NEW r, Sound(r), NEW a, IsCandidate(r, a)
  PROVE  LET q == OpenHumanReview(r, a)
         IN  /\ Sound(q) /\ Ops!Grows(r, q) /\ Ops!Keeps(r, q, {"human_reviews"})
             /\ q.human_reviews = Append(r.human_reviews,
                                         [artifact_ref |-> a, status |-> "pending"])
<1> DEFINE q == OpenHumanReview(r, a)
<1>1. r \in Ops!Run /\ a \in DOMAIN r.artifacts /\ Ops!IsCandidate(r, a)
  BY SameRuns, SameArtifactCalls DEF Sound, IsCandidate
<1>2. q = Ops!OpenHumanReview(r, a)
  BY SameJudgementCalls
<1>3. Ops!ReviewOperation(r, q)
  BY <1>1, <1>2 DEF Ops!ReviewOperation
<1>4. a \in Nat
  BY <1>1, Policies, Ops!ChildNumbers
<1> HIDE DEF q
<1>5. /\ Ops!Keeps(r, q, {"human_reviews"})
      /\ q.human_reviews = Append(r.human_reviews,
                                  [artifact_ref |-> a, status |-> "pending"])
  BY <1>1, <1>2, <1>4, Policies, Ops!OpenHumanReviewEffect, Zenon
<1>6. q.evaluations = r.evaluations
  BY <1>5 DEF Ops!Keeps
<1>7. Sound(q) /\ Ops!Grows(r, q)
  BY <1>3, <1>6, OperationLegal DEF Ops!Operation
<1> QED
  BY <1>5, <1>7 DEF q

(* Run.submit_review, called on a pending Review.                          *)
LEMMA SubmitReviewLegal ==
  ASSUME NEW r, Sound(r), NEW h, NEW decision, CanSubmitReview(r, h, decision)
  PROVE  LET q == SubmitReview(r, h, decision)
         IN  /\ Sound(q) /\ Ops!Grows(r, q) /\ Ops!Keeps(r, q, {"human_reviews"})
             /\ q.human_reviews = Ops!Updated(r.human_reviews, h,
                                              Ops!WithStatus(r.human_reviews[h], decision))
<1> DEFINE q == SubmitReview(r, h, decision)
<1>1. /\ r \in Ops!Run /\ h \in DOMAIN r.human_reviews /\ decision \in Ops!ReviewStatus
      /\ Ops!CanSubmitReview(r, h, decision)
  BY SameRuns, SameJudgementCalls DEF Sound, CanSubmitReview
<1>2. q = Ops!SubmitReview(r, h, decision)
  BY SameJudgementCalls
<1>3. Ops!ReviewOperation(r, q)
  BY <1>1, <1>2 DEF Ops!ReviewOperation
<1> HIDE DEF q
<1>4. /\ Ops!Keeps(r, q, {"human_reviews"})
      /\ q.human_reviews = Ops!Updated(r.human_reviews, h,
                                       Ops!WithStatus(r.human_reviews[h], decision))
  BY <1>1, <1>2, Policies, Ops!SubmitReviewEffect, Zenon
<1>5. q.evaluations = r.evaluations
  BY <1>4 DEF Ops!Keeps
<1>6. Sound(q) /\ Ops!Grows(r, q)
  BY <1>3, <1>5, OperationLegal DEF Ops!Operation
<1> QED
  BY <1>4, <1>6 DEF q

(* Run.open_evaluation, called on a candidate, with the evaluator named.   *)
LEMMA OpenEvaluationLegal ==
  ASSUME NEW r, Sound(r), NEW a, IsCandidate(r, a)
  PROVE  LET q == OpenEvaluation(r, a, TRUE)
         IN  /\ Sound(q) /\ Ops!Grows(r, q) /\ Ops!Keeps(r, q, {"evaluations"})
             /\ q.evaluations = Append(r.evaluations, [artifact_ref |-> a, attributed |-> TRUE,
                                                       status |-> "pending"])
<1> DEFINE q == OpenEvaluation(r, a, TRUE)
           evaluation == [artifact_ref |-> a, attributed |-> TRUE, status |-> "pending"]
<1>1. r \in Ops!Run /\ a \in DOMAIN r.artifacts /\ Ops!IsCandidate(r, a)
  BY SameRuns, SameArtifactCalls DEF Sound, IsCandidate
<1>2. q = Ops!OpenEvaluation(r, a, TRUE)
  BY SameJudgementCalls
<1>3. Ops!EvaluationOperation(r, q)
  BY <1>1, <1>2 DEF Ops!EvaluationOperation
<1>4. a \in Nat
  BY <1>1, Policies, Ops!ChildNumbers
<1> HIDE DEF q
<1>5. Ops!Keeps(r, q, {"evaluations"}) /\ q.evaluations = Append(r.evaluations, evaluation)
  BY <1>1, <1>2, <1>4, Policies, Ops!OpenEvaluationEffect, Zenon
<1>6. r.evaluations \in Seq(Evaluation) /\ evaluation.attributed
  BY <1>1 DEF Sound, Run
<1> HIDE DEF evaluation
<1>7. PendingAttributed(q)
  BY <1>5, <1>6 DEF Sound, PendingAttributed
<1>8. Sound(q) /\ Ops!Grows(r, q)
  BY <1>3, <1>7, OperationLegal DEF Ops!Operation
<1> QED
  BY <1>5, <1>8 DEF q, evaluation

(* Run.record_evaluation, called on a pending Evaluation.                  *)
LEMMA RecordEvaluationLegal ==
  ASSUME NEW r, Sound(r), NEW e, NEW verdict, CanRecordEvaluation(r, e, verdict)
  PROVE  LET q == RecordEvaluation(r, e, verdict)
         IN  /\ Sound(q) /\ Ops!Grows(r, q) /\ Ops!Keeps(r, q, {"evaluations"})
             /\ q.evaluations = Ops!Updated(r.evaluations, e,
                                            Ops!WithStatus(r.evaluations[e], verdict))
<1> DEFINE q == RecordEvaluation(r, e, verdict)
           next == Ops!WithStatus(r.evaluations[e], verdict)
<1>1. /\ r \in Ops!Run /\ e \in DOMAIN r.evaluations /\ verdict \in Ops!EvaluationStatus
      /\ Ops!CanRecordEvaluation(r, e, verdict)
  BY SameRuns, SameJudgementCalls DEF Sound, CanRecordEvaluation
<1>2. q = Ops!RecordEvaluation(r, e, verdict)
  BY SameJudgementCalls
<1>3. Ops!EvaluationOperation(r, q)
  BY <1>1, <1>2 DEF Ops!EvaluationOperation
<1> HIDE DEF q
<1>4. Ops!Keeps(r, q, {"evaluations"}) /\ q.evaluations = Ops!Updated(r.evaluations, e, next)
  BY <1>1, <1>2, Policies, Ops!RecordEvaluationEffect, Zenon
<1>5. r.evaluations \in Seq(Evaluation) /\ r.evaluations[e] \in Evaluation
  BY <1>1 DEF Sound, Run
<1>6. next.status # "pending"
  BY <1>5 DEF Evaluation, Ops!WithStatus, CanRecordEvaluation
<1>7. PendingAttributed(q)
  BY <1>1, <1>4, <1>5, <1>6 DEF Sound, PendingAttributed, Ops!Updated
<1>8. Sound(q) /\ Ops!Grows(r, q)
  BY <1>3, <1>7, OperationLegal DEF Ops!Operation
<1> QED
  BY <1>4, <1>8 DEF q

-----------------------------------------------------------------------------
(* Latest is the greatest of a set of positions, 0 if there is none.       *)
LEMMA LatestIsGreatest ==
  ASSUME NEW n \in Nat, NEW S \in SUBSET (1..n)
  PROVE  /\ Latest(S) = 0 <=> S = {}
         /\ S # {} => Latest(S) \in S /\ \A x \in S : x <= Latest(S)
<1>1. CASE S = {}
  BY <1>1 DEF Latest
<1>2. CASE S # {}
  <2> DEFINE R == OpToRel(<, Nat)
             T == {n - x : x \in S}
  <2>1. IsWellFoundedOn(R, Nat)
    BY NatLessThanWellFounded
  <2>2. T \subseteq Nat /\ T # {}
    <3>1. \A x \in S : n - x \in Nat
      OBVIOUS
    <3> QED
      BY <1>2, <3>1
  <2>3. \A i, j \in Nat : <<i, j>> \in R <=> i < j
    BY DEF OpToRel
  <2> HIDE DEF R
  <2>4. PICK m \in T : \A k \in T : ~(<<k, m>> \in R)
    BY <2>1, <2>2, WFMin
  <2>5. PICK x \in S : m = n - x
    BY <2>4
  <2>6. \A y \in S : x >= y
    <3> SUFFICES ASSUME NEW y \in S PROVE x >= y
      OBVIOUS
    <3>1. n - y \in T /\ n - y \in Nat /\ m \in Nat
      BY <2>2
    <3>2. ~(n - y < m)
      BY <2>3, <2>4, <3>1
    <3> QED
      BY <2>5, <3>2
  <2>7. Max(S) \in S /\ \A y \in S : Max(S) >= y
    BY <2>5, <2>6 DEF Max
  <2> QED
    BY <1>2, <2>7 DEF Latest
<1> QED
  BY <1>1, <1>2

-----------------------------------------------------------------------------
(* The Director's steps on a Run, put together from the calls they make.   *)

\* q is a sound Run that has grown from r in the fields changed.
Carries(r, q, changed) == Sound(q) /\ Ops!Grows(r, q) /\ Ops!Keeps(r, q, changed)

(* Two calls in a row. *)
LEMMA CarriesOn ==
  ASSUME NEW r, NEW p, NEW q, NEW c, NEW d, Sound(r), Carries(r, p, c), Carries(p, q, d)
  PROVE  Carries(r, q, c \cup d)
<1>1. r \in Ops!Run /\ p \in Ops!Run /\ q \in Ops!Run
  BY SameRuns DEF Carries, Sound
<1>2. Ops!Grows(r, q)
  BY <1>1, Policies, Ops!GrowsTransitively, Zenon DEF Carries
<1>3. Ops!Keeps(r, q, c \cup d)
  BY DEF Carries, Ops!Keeps
<1> QED
  BY <1>2, <1>3 DEF Carries

(* A Run that stays as it is carries everything on.                        *)
LEMMA StaysAsItIs ==
  ASSUME NEW r, Sound(r), NEW changed
  PROVE  Carries(r, r, changed)
<1>1. Ops!Grows(r, r)
  BY Policies, Ops!GrowsByNothing DEF Ops!Keeps
<1> QED
  BY <1>1 DEF Carries, Ops!Keeps

(* A Task that is started is opened and has its first attempt. *)
LEMMA StartTaskEffect ==
  ASSUME NEW r, Sound(r), NEW p \in Plans, NEW i \in DOMAIN p, NEW input \in TaskInput,
         NEW q, q = StartTask(r, p[i], input)
  PROVE  /\ Carries(r, q, {"tasks"})
         /\ Len(q.tasks) = Len(r.tasks) + 1
         /\ \A t \in DOMAIN r.tasks : q.tasks[t] = r.tasks[t]
         /\ LET task == q.tasks[Len(q.tasks)]
            IN  /\ task.step = p[i] /\ task.task_input = input /\ task.output = "none"
                /\ task.status = "running" /\ task.attempt_count = 1
<1> DEFINE o == OpenTask(r, p[i], input)
           task == [step |-> p[i], task_input |-> input, status |-> "pending",
                    attempt_count |-> 0, output |-> "none"]
           started == Ops!Attempted(task, "running")
           n == Len(r.tasks) + 1
<1>1. /\ Sound(o) /\ Ops!Grows(r, o) /\ Ops!Keeps(r, o, {"tasks"})
      /\ o.tasks = Append(r.tasks, task)
  BY OpenTaskLegal, Zenon
<1>2. q = TransitionTask(o, n, "running")
  BY DEF StartTask
<1>3. /\ task.status = "pending" /\ task.attempt_count = 0
      /\ started.step = p[i] /\ started.task_input = input /\ started.output = "none"
      /\ started.status = "running" /\ started.attempt_count = 1
  BY DEF Ops!Attempted
<1> HIDE DEF o, task, started
<1>4. r.tasks \in Seq(Task) /\ o.tasks \in Seq(Task)
  BY <1>1 DEF Sound, Run
<1>5. /\ n \in DOMAIN o.tasks /\ o.tasks[n] = task /\ Len(o.tasks) = n
      /\ \A t \in DOMAIN r.tasks : t \in DOMAIN o.tasks /\ o.tasks[t] = r.tasks[t] /\ t # n
  BY <1>1, <1>4
<1>6. CanTransitionTask(o, n, "running")
  BY <1>3, <1>5, LimitAssumption
  DEF CanTransitionTask, AllowedTaskTransitions, HasAttemptsLeft
<1>7. "running" \in TaskStatus
  BY DEF TaskStatus
<1>8. /\ Sound(q) /\ Ops!Grows(o, q) /\ Ops!Keeps(o, q, {"tasks"})
      /\ q.tasks = Ops!Updated(o.tasks, n, Ops!Attempted(o.tasks[n], "running"))
  BY <1>1, <1>2, <1>6, <1>7, TransitionTaskLegal, Zenon
<1>9. q.tasks = [o.tasks EXCEPT ![n] = started]
  BY <1>5, <1>8 DEF started, Ops!Updated
<1>10. Carries(r, q, {"tasks"} \cup {"tasks"})
  BY <1>1, <1>8, CarriesOn, Zenon DEF Carries
<1>11. /\ Len(q.tasks) = Len(r.tasks) + 1 /\ q.tasks[n] = started
       /\ \A t \in DOMAIN r.tasks : q.tasks[t] = r.tasks[t]
  BY <1>4, <1>5, <1>9
<1> QED
  BY <1>3, <1>10, <1>11

(* One Task of r is replaced in q, the others stay.                        *)
OneTaskMoves(r, q, t) ==
  /\ Len(q.tasks) = Len(r.tasks) /\ DOMAIN q.tasks = DOMAIN r.tasks
  /\ \A u \in DOMAIN r.tasks \ {t} : q.tasks[u] = r.tasks[u]
  /\ q.tasks[t].step = r.tasks[t].step /\ q.tasks[t].task_input = r.tasks[t].task_input

(* A transition of a Task moves that Task alone.                           *)
LEMMA TaskMoveEffect ==
  ASSUME NEW r, Sound(r), NEW t, NEW to \in TaskStatus, CanTransitionTask(r, t, to),
         NEW q, q = TransitionTask(r, t, to)
  PROVE  /\ Carries(r, q, {"tasks"}) /\ OneTaskMoves(r, q, t)
         /\ q.tasks[t].status = to /\ q.tasks[t].output = r.tasks[t].output
         /\ q.tasks[t].attempt_count = IF to = "running" THEN r.tasks[t].attempt_count + 1
                                                         ELSE r.tasks[t].attempt_count
<1> DEFINE next == Ops!Attempted(r.tasks[t], to)
<1>1. /\ Sound(q) /\ Ops!Grows(r, q) /\ Ops!Keeps(r, q, {"tasks"})
      /\ q.tasks = Ops!Updated(r.tasks, t, next)
  BY TransitionTaskLegal, Zenon
<1>2. r.tasks \in Seq(Task) /\ t \in DOMAIN r.tasks
  BY DEF Sound, Run, CanTransitionTask
<1>3. r.tasks[t] \in Task
  BY <1>2
<1>4. /\ next.status = to /\ next.output = r.tasks[t].output
      /\ next.step = r.tasks[t].step /\ next.task_input = r.tasks[t].task_input
      /\ next.attempt_count = IF to = "running" THEN r.tasks[t].attempt_count + 1
                                                ELSE r.tasks[t].attempt_count
  BY <1>3 DEF Ops!Attempted, Task
<1> HIDE DEF next
<1>5. /\ Len(q.tasks) = Len(r.tasks) /\ DOMAIN q.tasks = DOMAIN r.tasks
      /\ \A u \in DOMAIN r.tasks \ {t} : q.tasks[u] = r.tasks[u]
      /\ q.tasks[t] = next
  BY <1>1, <1>2 DEF Ops!Updated
<1> QED
  BY <1>1, <1>4, <1>5 DEF Carries, OneTaskMoves

(* A recorded Output moves its Task alone.                                 *)
LEMMA OutputEffect ==
  ASSUME NEW r, Sound(r), NEW t, NEW valid \in {"valid", "invalid"}, CanRecordOutput(r, t),
         NEW q, q = RecordOutput(r, t, valid)
  PROVE  /\ Carries(r, q, {"tasks"}) /\ OneTaskMoves(r, q, t)
         /\ q.tasks[t].output = valid /\ q.tasks[t].status = r.tasks[t].status
         /\ q.tasks[t].attempt_count = r.tasks[t].attempt_count
<1> DEFINE next == Ops!WithOutput(r.tasks[t], valid)
<1>1. /\ Sound(q) /\ Ops!Grows(r, q) /\ Ops!Keeps(r, q, {"tasks"})
      /\ q.tasks = Ops!Updated(r.tasks, t, next)
  BY RecordOutputLegal, Zenon
<1>2. r.tasks \in Seq(Task) /\ t \in DOMAIN r.tasks
  BY DEF Sound, Run, CanRecordOutput
<1>3. r.tasks[t] \in Task
  BY <1>2
<1>4. /\ next.output = valid /\ next.status = r.tasks[t].status
      /\ next.step = r.tasks[t].step /\ next.task_input = r.tasks[t].task_input
      /\ next.attempt_count = r.tasks[t].attempt_count
  BY <1>3 DEF Ops!WithOutput, Task
<1> HIDE DEF next
<1>5. /\ Len(q.tasks) = Len(r.tasks) /\ DOMAIN q.tasks = DOMAIN r.tasks
      /\ \A u \in DOMAIN r.tasks \ {t} : q.tasks[u] = r.tasks[u]
      /\ q.tasks[t] = next
  BY <1>1, <1>2 DEF Ops!Updated
<1> QED
  BY <1>1, <1>4, <1>5 DEF Carries, OneTaskMoves

(* What an executor answered ends its Task: with the calls it measured     *)
(* recorded before, and the Output of a success after.                     *)
LEMMA FinishTaskEffect ==
  ASSUME NEW r, Sound(r), NEW t \in DOMAIN r.tasks, r.tasks[t].status = "running",
         NEW answer \in Answers, NEW q, q = FinishTask(r, t, answer)
  PROVE  /\ Carries(r, q, {"tasks", "analytics_records"}) /\ OneTaskMoves(r, q, t)
         /\ q.tasks[t].status = IF answer.succeeded THEN "succeeded" ELSE "failed"
         /\ q.tasks[t].output = answer.output
         /\ q.tasks[t].attempt_count = r.tasks[t].attempt_count
         /\ q.analytics_records
              = IF answer.measured
                  THEN Append(r.analytics_records,
                              [task_id |-> t, evaluation_id |-> 0,
                               retries |-> r.tasks[t].attempt_count - 1])
                  ELSE r.analytics_records
<1> DEFINE m == IF answer.measured THEN RecordAnalytics(r, t) ELSE r
           to == IF answer.succeeded THEN "succeeded" ELSE "failed"
           n == TransitionTask(m, t, to)
<1>1. r.tasks[t] \in Task /\ r.tasks[t].attempt_count > 0 /\ r.tasks[t].output = "none"
  <2>1. r.tasks \in Seq(Task) /\ TaskStatesRestorable(r)
    BY DEF Sound, Run, ChildrenRestorable
  <2> QED
    BY <2>1 DEF Sound, AttemptsCounted, TaskStatesRestorable
<1>2. /\ Carries(r, m, {"analytics_records"})
      /\ m.analytics_records
           = IF answer.measured
               THEN Append(r.analytics_records,
                           [task_id |-> t, evaluation_id |-> 0,
                            retries |-> r.tasks[t].attempt_count - 1])
               ELSE r.analytics_records
  <2>1. CanRecordAnalytics(r, t)
    BY <1>1 DEF CanRecordAnalytics, Task
  <2>2. CASE answer.measured
    BY <2>1, <2>2, RecordAnalyticsLegal DEF Carries
  <2>3. CASE ~answer.measured
    BY <2>3, StaysAsItIs
  <2> QED
    BY <2>2, <2>3
<1>3. m.tasks = r.tasks /\ Sound(m)
  BY <1>2 DEF Carries, Ops!Keeps
<1> HIDE DEF m
<1>4. to \in TaskStatus /\ CanTransitionTask(m, t, to) /\ to # "running"
  BY <1>3 DEF TaskStatus, CanTransitionTask, AllowedTaskTransitions
<1>0. n = TransitionTask(m, t, to)
  OBVIOUS
<1> HIDE DEF n
<1>5. /\ Carries(m, n, {"tasks"}) /\ OneTaskMoves(m, n, t)
      /\ n.tasks[t].status = to /\ n.tasks[t].output = m.tasks[t].output
      /\ n.tasks[t].attempt_count = IF to = "running" THEN m.tasks[t].attempt_count + 1
                                                      ELSE m.tasks[t].attempt_count
  BY <1>0, <1>3, <1>4, TaskMoveEffect
<1>6. /\ Carries(r, n, {"tasks", "analytics_records"}) /\ Sound(n)
      /\ n.analytics_records = m.analytics_records
  <2>1. Carries(r, n, {"analytics_records"} \cup {"tasks"})
    BY <1>2, <1>5, CarriesOn, Zenon
  <2>2. {"analytics_records"} \cup {"tasks"} = {"tasks", "analytics_records"}
    OBVIOUS
  <2> QED
    BY <1>5, <2>1, <2>2 DEF Carries, Ops!Keeps
<1>7. q = IF answer.output = "none" THEN n ELSE RecordOutput(n, t, answer.output)
  BY DEF FinishTask, m, n
<1>8. CASE answer.output = "none"
  BY <1>1, <1>2, <1>3, <1>4, <1>5, <1>6, <1>7, <1>8 DEF OneTaskMoves
<1>9. CASE answer.output # "none"
  <2>1. answer.output \in {"valid", "invalid"} /\ answer.succeeded
    BY <1>9 DEF Answers, OutputStatus
  <2>2. CanRecordOutput(n, t)
    BY <1>1, <1>3, <1>5, <2>1 DEF CanRecordOutput, OneTaskMoves
  <2>0. q = RecordOutput(n, t, answer.output)
    BY <1>7, <1>9
  <2>3. /\ Carries(n, q, {"tasks"}) /\ OneTaskMoves(n, q, t)
        /\ q.tasks[t].output = answer.output /\ q.tasks[t].status = n.tasks[t].status
        /\ q.tasks[t].attempt_count = n.tasks[t].attempt_count
    BY <1>6, <2>0, <2>1, <2>2, OutputEffect
  <2>4. Carries(r, q, {"tasks", "analytics_records"} \cup {"tasks"})
    BY <1>6, <2>3, CarriesOn, Zenon
  <2>5. {"tasks", "analytics_records"} \cup {"tasks"} = {"tasks", "analytics_records"}
    OBVIOUS
  <2>6. q.analytics_records = n.analytics_records
    BY <2>3 DEF Carries, Ops!Keeps
  <2> QED
    BY <1>1, <1>2, <1>3, <1>4, <1>5, <1>6, <2>3, <2>4, <2>5, <2>6 DEF OneTaskMoves
<1> QED
  BY <1>8, <1>9

(* The Director's lookups among the children of a sound Run.               *)
LEMMA Lookups ==
  ASSUME NEW r, Sound(r)
  PROVE  /\ \A t : /\ ArtifactOf(r, t) = 0 <=> ~IsOutputUsed(r, t)
                   /\ ArtifactOf(r, t) # 0 => /\ ArtifactOf(r, t) \in DOMAIN r.artifacts
                                              /\ r.artifacts[ArtifactOf(r, t)].output_ref = t
         /\ LiveCandidate(r) # 0 => IsCandidate(r, LiveCandidate(r))
         /\ \A a \in DOMAIN r.artifacts : IsCandidate(r, a) => LiveCandidate(r) # 0
         /\ \A a : LatestQa(r, a) # 0 => /\ LatestQa(r, a) \in EvaluationsOf(r, a)
                                         /\ \A e \in EvaluationsOf(r, a) : e <= LatestQa(r, a)
         /\ \A a : LatestQa(r, a) = 0 <=> EvaluationsOf(r, a) = {}
         /\ \A a : LatestReview(r, a) # 0 => /\ LatestReview(r, a) \in ReviewsOf(r, a)
                                             /\ \A h \in ReviewsOf(r, a) :
                                                  h <= LatestReview(r, a)
         /\ \A a : LatestReview(r, a) = 0 <=> ReviewsOf(r, a) = {}
<1>1. /\ r.artifacts \in Seq(Artifact) /\ r.evaluations \in Seq(Evaluation)
      /\ r.human_reviews \in Seq(HumanReview)
  BY DEF Sound, Run
<1>2. ASSUME NEW t
      PROVE  /\ ArtifactOf(r, t) = 0 <=> ~IsOutputUsed(r, t)
             /\ ArtifactOf(r, t) # 0 => /\ ArtifactOf(r, t) \in DOMAIN r.artifacts
                                        /\ r.artifacts[ArtifactOf(r, t)].output_ref = t
  <2> DEFINE S == {a \in DOMAIN r.artifacts : r.artifacts[a].output_ref = t}
  <2>1. S \in SUBSET (1..Len(r.artifacts)) /\ Len(r.artifacts) \in Nat
    BY <1>1
  <2>2. S = {} <=> ~IsOutputUsed(r, t)
    BY DEF IsOutputUsed
  <2>3. ArtifactOf(r, t) = Latest(S)
    BY DEF ArtifactOf
  <2>4. \A a \in S : a \in DOMAIN r.artifacts /\ r.artifacts[a].output_ref = t
    OBVIOUS
  <2> HIDE DEF S
  <2>5. (Latest(S) = 0 <=> S = {}) /\ (S # {} => Latest(S) \in S)
    BY <2>1, LatestIsGreatest
  <2> QED
    BY <2>2, <2>3, <2>4, <2>5
<1>3. /\ LiveCandidate(r) # 0 => IsCandidate(r, LiveCandidate(r))
      /\ \A a \in DOMAIN r.artifacts : IsCandidate(r, a) => LiveCandidate(r) # 0
  <2> DEFINE S == {a \in DOMAIN r.artifacts : r.artifacts[a].status = "candidate"}
  <2>1. S \in SUBSET (1..Len(r.artifacts)) /\ Len(r.artifacts) \in Nat
    BY <1>1
  <2>2. \A a : a \in S <=> IsCandidate(r, a)
    BY DEF IsCandidate
  <2>3. LiveCandidate(r) = Latest(S)
    BY DEF LiveCandidate
  <2> HIDE DEF S
  <2>4. (Latest(S) = 0 <=> S = {}) /\ (S # {} => Latest(S) \in S)
    BY <2>1, LatestIsGreatest
  <2> QED
    BY <2>2, <2>3, <2>4
<1>4. ASSUME NEW a
      PROVE  /\ LatestQa(r, a) = 0 <=> EvaluationsOf(r, a) = {}
             /\ LatestQa(r, a) # 0 => /\ LatestQa(r, a) \in EvaluationsOf(r, a)
                                      /\ \A e \in EvaluationsOf(r, a) : e <= LatestQa(r, a)
  <2>1. EvaluationsOf(r, a) \in SUBSET (1..Len(r.evaluations)) /\ Len(r.evaluations) \in Nat
    BY <1>1 DEF EvaluationsOf
  <2> QED
    BY <2>1, LatestIsGreatest DEF LatestQa
<1>5. ASSUME NEW a
      PROVE  /\ LatestReview(r, a) = 0 <=> ReviewsOf(r, a) = {}
             /\ LatestReview(r, a) # 0 =>
                  /\ LatestReview(r, a) \in ReviewsOf(r, a)
                  /\ \A h \in ReviewsOf(r, a) : h <= LatestReview(r, a)
  <2>1. ReviewsOf(r, a) \in SUBSET (1..Len(r.human_reviews)) /\ Len(r.human_reviews) \in Nat
    BY <1>1 DEF ReviewsOf
  <2> QED
    BY <2>1, LatestIsGreatest DEF LatestReview
<1> QED
  BY <1>2, <1>3, <1>4, <1>5, Zenon

(* A valid Output gets its Artifact once (_add_artifact).                  *)
LEMMA WithArtifactEffect ==
  ASSUME NEW r, Sound(r), NEW t \in DOMAIN r.tasks, NEW q, q = WithArtifact(r, t)
  PROVE  /\ Carries(r, q, {"artifacts"})
         /\ \/ q = r
            \/ /\ r.tasks[t].output = "valid" /\ ArtifactOf(r, t) = 0
               /\ q.artifacts = Append(r.artifacts,
                                       [output_ref |-> t, version |-> 1,
                                        supersedes_ref |-> 0, status |-> "draft"])
<1>1. CASE r.tasks[t].output = "valid" /\ ArtifactOf(r, t) = 0
  <2>1. CanCreateArtifact(r, t)
    BY <1>1, Lookups DEF CanCreateArtifact, HasOutput
  <2>2. q = CreateArtifact(r, t)
    BY <1>1 DEF WithArtifact
  <2> QED
    BY <1>1, <2>1, <2>2, CreateArtifactLegal, Zenon DEF Carries
<1>2. CASE ~(r.tasks[t].output = "valid" /\ ArtifactOf(r, t) = 0)
  <2>1. q = r
    BY <1>2 DEF WithArtifact
  <2> QED
    BY <2>1, StaysAsItIs
<1> QED
  BY <1>1, <1>2

(* The valid Output of a rework gets the next version of the live          *)
(* candidate, once (_run_rework).                                          *)
LEMMA WithSuccessorEffect ==
  ASSUME NEW r, Sound(r), NEW t \in DOMAIN r.tasks, LiveCandidate(r) # 0,
         NEW q, q = WithSuccessor(r, t)
  PROVE  /\ Carries(r, q, {"artifacts"})
         /\ \/ q = r /\ ~(r.tasks[t].output = "valid" /\ ArtifactOf(r, t) = 0)
            \/ LET a == LiveCandidate(r) IN
                 /\ r.tasks[t].output = "valid" /\ ArtifactOf(r, t) = 0
                 /\ q.artifacts =
                      Append(Ops!Updated(r.artifacts, a,
                                         Ops!WithStatus(r.artifacts[a], "superseded")),
                             [output_ref |-> t, version |-> r.artifacts[a].version + 1,
                              supersedes_ref |-> a, status |-> "draft"])
<1>1. CASE r.tasks[t].output = "valid" /\ ArtifactOf(r, t) = 0
  <2>1. CanCreateArtifactVersion(r, LiveCandidate(r), t)
    BY <1>1, Lookups
    DEF CanCreateArtifactVersion, HasOutput, IsCandidate, AllowedArtifactTransitions
  <2>2. q = CreateArtifactVersion(r, LiveCandidate(r), t)
    BY <1>1 DEF WithSuccessor
  <2> QED
    BY <1>1, <2>1, <2>2, CreateArtifactVersionLegal, Zenon DEF Carries
<1>2. CASE ~(r.tasks[t].output = "valid" /\ ArtifactOf(r, t) = 0)
  <2>1. q = r
    BY <1>2 DEF WithSuccessor
  <2> QED
    BY <1>2, <2>1, StaysAsItIs
<1> QED
  BY <1>1, <1>2

-----------------------------------------------------------------------------
(* From one commit to the next.                                            *)

(* The Tasks of r that ended are in q as they were.                        *)
Steady(r, q) ==
  \A t \in DOMAIN r.tasks : IsTerminalTask(r.tasks[t]) => q.tasks[t] = r.tasks[t]

(* The Director may store q after r.                                       *)
Advances(r, q) ==
  /\ IsKept(q) /\ Ops!Grows(r, q) /\ Steady(r, q)
  /\ r.status \notin {"completed", "failed"}
  /\ r.status = "waiting_human" => q.evaluations = r.evaluations

(* What is not about a Task adds nothing to what the Tasks account for.    *)
LEMMA AccountedOn ==
  ASSUME NEW r, IsKept(r), NEW q, Sound(q), Ops!Grows(r, q), Steady(r, q),
         \/ q.analytics_records = r.analytics_records
         \/ \E e : q.analytics_records
                     = Append(r.analytics_records,
                              [task_id |-> 0, evaluation_id |-> e, retries |-> -1])
  PROVE  Accounted(q)
<1>1. r.analytics_records \in Seq(AnalyticsRecord) /\ Accounted(r)
  BY DEF IsKept, Sound, Run
<1>2. \A k \in DOMAIN r.analytics_records :
        LET t == r.analytics_records[k].task_id IN
          t # 0 => /\ t \in DOMAIN q.tasks /\ IsTerminalTask(q.tasks[t])
                   /\ r.analytics_records[k].retries = q.tasks[t].attempt_count - 1
  BY <1>1 DEF Accounted, Steady, Ops!Grows, Ops!TasksGrow
<1>3. CASE q.analytics_records = r.analytics_records
  BY <1>1, <1>2, <1>3 DEF Accounted
<1>4. ASSUME NEW e, q.analytics_records
                      = Append(r.analytics_records,
                               [task_id |-> 0, evaluation_id |-> e, retries |-> -1])
      PROVE  Accounted(q)
  <2> DEFINE record == [task_id |-> 0, evaluation_id |-> e, retries |-> -1]
  <2>1. record.task_id = 0 /\ q.analytics_records = Append(r.analytics_records, record)
    BY <1>4
  <2> HIDE DEF record
  <2>2. \A k \in DOMAIN q.analytics_records :
          \/ k \in DOMAIN r.analytics_records
               /\ q.analytics_records[k] = r.analytics_records[k]
          \/ q.analytics_records[k].task_id = 0
    BY <1>1, <2>1
  <2> QED
    BY <1>1, <1>2, <2>2 DEF Accounted
<1> QED
  BY <1>3, <1>4

(* A step that leaves the Tasks and the Analytics Records alone.           *)
LEMMA AdvancesBeside ==
  ASSUME NEW r, IsKept(r), r.status \notin {"completed", "failed"},
         NEW q, NEW changed, Carries(r, q, changed),
         "tasks" \notin changed, "analytics_records" \notin changed,
         q.status = r.status \/ JudgedDone(q),
         "evaluations" \in changed => r.status # "waiting_human"
  PROVE  Advances(r, q)
<1>1. q.tasks = r.tasks /\ q.analytics_records = r.analytics_records
  BY DEF Carries, Ops!Keeps
<1>2. Accounted(q)
  BY <1>1, AccountedOn DEF Carries, Steady
<1>3. JudgedDone(q)
  BY <1>1 DEF IsKept, JudgedDone, IsJudged, AllTasksSucceeded
<1> QED
  BY <1>1, <1>2, <1>3 DEF Advances, IsKept, Carries, Steady, Ops!Keeps

(* A transition of the Run.                                                *)
LEMMA AdvancesMoving ==
  ASSUME NEW r, IsKept(r), NEW to \in RunStatus, NEW reason \in FailureReason \cup {"none"},
         CanTransition(r, to), to = "waiting_qa" => AllTasksSucceeded(r),
         NEW q, q = Transition(r, to, reason)
  PROVE  /\ Advances(r, q) /\ Carries(r, q, {"status"}) /\ q.status = to
         /\ q.rework_count = IF IsRework(r, to) THEN r.rework_count + 1 ELSE r.rework_count
<1>1. /\ Carries(r, q, {"status"}) /\ q.status = to
      /\ q.rework_count = IF IsRework(r, to) THEN r.rework_count + 1 ELSE r.rework_count
  BY MoveLegal DEF IsKept, Carries
<1>2. r.status \in RunStatus /\ to \in AllowedTransitions[r.status]
  BY DEF IsKept, Sound, Run, CanTransition
<1>3. /\ r.status \notin {"completed", "failed"}
      /\ to \in {"waiting_human", "completed"} => r.status \in {"waiting_qa", "waiting_human"}
  BY <1>2 DEF AllowedTransitions, RunStatus
<1>4. q.tasks = r.tasks
  BY <1>1 DEF Carries, Ops!Keeps
<1>5. JudgedDone(q)
  BY <1>1, <1>3, <1>4 DEF IsKept, JudgedDone, IsJudged, AllTasksSucceeded
<1> QED
  BY <1>1, <1>3, <1>5, AdvancesBeside

(* A Task is opened and started.                                           *)
LEMMA AdvancesStarting ==
  ASSUME NEW r, IsKept(r), r.status = "running",
         NEW p \in Plans, NEW i \in DOMAIN p, NEW input \in TaskInput,
         NEW q, q = StartTask(r, p[i], input)
  PROVE  Advances(r, q)
<1>1. Carries(r, q, {"tasks"}) /\ \A t \in DOMAIN r.tasks : q.tasks[t] = r.tasks[t]
  BY StartTaskEffect DEF IsKept
<1>2. Accounted(q)
  BY <1>1, AccountedOn DEF Carries, Steady, Ops!Keeps
<1>3. JudgedDone(q)
  BY <1>1 DEF JudgedDone, IsJudged, Carries, Ops!Keeps
<1> QED
  BY <1>1, <1>2, <1>3 DEF Advances, IsKept, Carries, Steady

(* A Task that has not ended is tried again, or given up.                  *)
LEMMA AdvancesTrying ==
  ASSUME NEW r, IsKept(r), r.status = "running",
         NEW t \in DOMAIN r.tasks, ~IsTerminalTask(r.tasks[t]),
         NEW to, to = IF HasAttemptsLeft(r.tasks[t]) THEN "running" ELSE "failed",
         NEW q, q = TransitionTask(r, t, to)
  PROVE  /\ Advances(r, q) /\ Carries(r, q, {"tasks"}) /\ OneTaskMoves(r, q, t)
         /\ q.tasks[t].status = to
<1>1. r.tasks \in Seq(Task) /\ r.tasks[t] \in Task
  BY DEF IsKept, Sound, Run
<1>2. r.tasks[t].status \in {"pending", "running"}
  BY <1>1 DEF Task, TaskStatus, IsTerminalTask, TerminalTaskStates
<1>3. to = "failed" => r.tasks[t].status = "running"
  BY <1>2, LimitAssumption DEF IsKept, Sound, AttemptsCounted, HasAttemptsLeft
<1>4. to \in TaskStatus /\ CanTransitionTask(r, t, to)
  BY <1>2, <1>3 DEF TaskStatus, CanTransitionTask, AllowedTaskTransitions
<1>5. /\ Carries(r, q, {"tasks"}) /\ OneTaskMoves(r, q, t)
      /\ q.tasks[t].status = to
  BY <1>4, TaskMoveEffect DEF IsKept
<1>6. Steady(r, q)
  BY <1>5 DEF Steady, OneTaskMoves
<1>7. Accounted(q)
  BY <1>5, <1>6, AccountedOn DEF Carries, Ops!Keeps
<1>8. JudgedDone(q)
  BY <1>5 DEF JudgedDone, IsJudged, Carries, Ops!Keeps
<1> QED
  BY <1>5, <1>6, <1>7, <1>8 DEF Advances, IsKept, Carries

(* An executor's answer ends the Task and accounts for its last attempt.   *)
LEMMA AdvancesFinishing ==
  ASSUME NEW r, IsKept(r), r.status = "running",
         NEW t \in DOMAIN r.tasks, r.tasks[t].status = "running",
         NEW answer \in Answers, NEW q, q = FinishTask(r, t, answer)
  PROVE  Advances(r, q)
<1>1. /\ Carries(r, q, {"tasks", "analytics_records"}) /\ OneTaskMoves(r, q, t)
      /\ q.tasks[t].status = IF answer.succeeded THEN "succeeded" ELSE "failed"
      /\ q.tasks[t].attempt_count = r.tasks[t].attempt_count
      /\ q.analytics_records
           = IF answer.measured
               THEN Append(r.analytics_records,
                           [task_id |-> t, evaluation_id |-> 0,
                            retries |-> r.tasks[t].attempt_count - 1])
               ELSE r.analytics_records
  BY FinishTaskEffect DEF IsKept
<1>2. IsTerminalTask(q.tasks[t]) /\ ~IsTerminalTask(r.tasks[t])
  BY <1>1 DEF IsTerminalTask, TerminalTaskStates
<1>3. Steady(r, q)
  BY <1>1, <1>2 DEF Steady, OneTaskMoves
<1>4. JudgedDone(q)
  BY <1>1 DEF JudgedDone, IsJudged, Carries, Ops!Keeps
<1>5. Accounted(q)
  <2>1. CASE ~answer.measured
    BY <1>1, <1>3, <2>1, AccountedOn DEF Carries
  <2>2. CASE answer.measured
    <3> DEFINE record == [task_id |-> t, evaluation_id |-> 0,
                          retries |-> r.tasks[t].attempt_count - 1]
    <3>1. /\ record.task_id = t /\ record.retries = q.tasks[t].attempt_count - 1
          /\ q.analytics_records = Append(r.analytics_records, record)
      BY <1>1, <2>2
    <3> HIDE DEF record
    <3>2. r.analytics_records \in Seq(AnalyticsRecord) /\ Accounted(r)
      BY DEF IsKept, Sound, Run
    <3>3. \A k \in DOMAIN r.analytics_records :
            /\ r.analytics_records[k].task_id # t
            /\ r.analytics_records[k].task_id # 0
                 => LET u == r.analytics_records[k].task_id IN
                      /\ u \in DOMAIN q.tasks /\ IsTerminalTask(q.tasks[u])
                      /\ r.analytics_records[k].retries = q.tasks[u].attempt_count - 1
      <4> SUFFICES ASSUME NEW k \in DOMAIN r.analytics_records,
                          r.analytics_records[k].task_id # 0 \/ r.analytics_records[k].task_id = t
                   PROVE  LET u == r.analytics_records[k].task_id IN
                            /\ u # t /\ u \in DOMAIN q.tasks /\ IsTerminalTask(q.tasks[u])
                            /\ r.analytics_records[k].retries = q.tasks[u].attempt_count - 1
        OBVIOUS
      <4> DEFINE u == r.analytics_records[k].task_id
      <4>0. t # 0
        BY DEF IsKept, Sound, Run
      <4>1. /\ u \in DOMAIN r.tasks /\ IsTerminalTask(r.tasks[u])
            /\ r.analytics_records[k].retries = r.tasks[u].attempt_count - 1
        BY <3>2, <4>0 DEF Accounted
      <4> QED
        BY <1>2, <1>1, <4>1 DEF OneTaskMoves
    <3>4. \A k \in DOMAIN q.analytics_records :
            \/ k \in DOMAIN r.analytics_records
                 /\ q.analytics_records[k] = r.analytics_records[k]
            \/ k = Len(r.analytics_records) + 1 /\ q.analytics_records[k] = record
      BY <3>1, <3>2
    <3>5. t \in DOMAIN q.tasks
      BY <1>1 DEF OneTaskMoves
    <3> QED
      BY <1>2, <3>1, <3>2, <3>3, <3>4, <3>5 DEF Accounted
  <2> QED
    BY <2>1, <2>2
<1> QED
  BY <1>1, <1>3, <1>4, <1>5 DEF Advances, IsKept, Carries

(* Two advances without a commit between them are one.                     *)
LEMMA AdvancesTwice ==
  ASSUME NEW r, IsKept(r), NEW p, NEW q, Advances(r, p), Advances(p, q),
         r.status = "waiting_human" => p.status = "waiting_human"
  PROVE  Advances(r, q)
<1>1. Ops!Grows(r, q)
  <2>1. r \in Ops!Run /\ p \in Ops!Run /\ q \in Ops!Run
    BY SameRuns DEF Advances, IsKept, Sound
  <2> QED
    BY <2>1, Policies, Ops!GrowsTransitively, Zenon DEF Advances
<1>2. Steady(r, q)
  <2> SUFFICES ASSUME NEW t \in DOMAIN r.tasks, IsTerminalTask(r.tasks[t])
               PROVE  q.tasks[t] = r.tasks[t]
    BY DEF Steady
  <2>1. t \in DOMAIN p.tasks /\ p.tasks[t] = r.tasks[t]
    BY DEF Advances, Steady, Ops!Grows, Ops!TasksGrow
  <2> QED
    BY <2>1 DEF Advances, Steady
<1> QED
  BY <1>1, <1>2 DEF Advances

-----------------------------------------------------------------------------
(* The invariant, action by action.                                        *)

(* A Run is created with what every stored Run has.                        *)
LEMMA NewRunKept == IsKept(NewRun) /\ NewRun.status = "created" /\ NewRun.rework_count = 0
<1>1. Ops!NewRun \in Ops!Run /\ Ops!ChildrenRestorable(Ops!NewRun)
  BY Policies, Ops!NewRunTyped, Ops!NewRunRestorable, Zenon
<1>2. NewRun \in Run /\ ChildrenRestorable(NewRun)
  BY <1>1, SameRuns, SameRestore
<1>3. /\ NewRun.status = "created" /\ NewRun.rework_count = 0 /\ NewRun.tasks = <<>>
      /\ NewRun.evaluations = <<>> /\ NewRun.analytics_records = <<>>
  BY DEF NewRun
<1> QED
  BY <1>2, <1>3
  DEF IsKept, Sound, AttemptsCounted, PendingAttributed, JudgedDone, IsJudged, Accounted

(* What an invocation works on is in the store, or new.                    *)
LEMMA RunIsKept ==
  ASSUME IInv, pc # "idle"
  PROVE  /\ IsKept(run) /\ run # NoRun /\ plan \in Plans
         /\ stored = run \/ (stored = NoRun /\ run = NewRun /\ pc = "drive")
BY NewRunKept DEF IInv, MemoryIsStored

(* What a step does to the store: nothing, or it brings the Run further.   *)
StoreStep ==
  \/ stored' = stored
  \/ IsKept(stored') /\ (stored = NoRun \/ Advances(stored, stored'))

(* A commit that advances the Run keeps the invariant.                     *)
LEMMA Committed ==
  ASSUME IInv, pc # "idle", NEW q, Advances(run, q), NEW label \in Label \ {"idle"},
         Commit(q, label), index' \in Nat, InControl(label, q, plan, index')
  PROVE  IInv' /\ StoreStep
<1>1. /\ run' = q /\ stored' = q /\ pc' = label /\ committed' = TRUE
      /\ plan' = plan /\ qa_wired' = qa_wired
  BY DEF Commit
<1>2. IsKept(q) /\ q # NoRun
  BY StoreAssumption DEF Advances, IsKept, Sound
<1>3. /\ IsKept(stored') /\ IsKept(run') /\ run' # NoRun /\ pc' # "idle"
      /\ InControl(pc', run', plan', index')
  BY <1>1, <1>2
<1>4. StoreStep
  BY <1>1, <1>3, RunIsKept DEF StoreStep
<1>5. IInv'
  BY <1>1, <1>3, RunIsKept DEF IInv, MemoryIsStored
<1> QED
  BY <1>4, <1>5

(* An idle process has no Run.                                             *)
LEMMA Idle ==
  ASSUME IInv, Stop, stored' = NoRun \/ IsKept(stored')
  PROVE  IInv'
<1>1. /\ run' = NoRun /\ pc' = "idle" /\ plan' = <<>> /\ index' = 0 /\ committed' = FALSE
      /\ qa_wired' = qa_wired
  BY DEF Stop
<1>2. InControl(pc', run', plan', index')
  BY <1>1 DEF InControl
<1> QED
  BY <1>1, <1>2 DEF IInv, MemoryIsStored, Label

(* A last commit that advances the Run keeps the invariant.                *)
LEMMA CommittedAndStopped ==
  ASSUME IInv, pc # "idle", NEW q, Advances(run, q), CommitAndStop(q)
  PROVE  IInv' /\ StoreStep
<1>1. stored' = q /\ Stop /\ IsKept(q)
  BY DEF CommitAndStop, Advances
<1>2. IsKept(stored')
  BY <1>1
<1>3. IInv'
  BY <1>1, <1>2, Idle
<1>4. StoreStep
  BY <1>1, <1>2, RunIsKept DEF StoreStep
<1> QED
  BY <1>3, <1>4

(* The end of an invocation without a commit keeps the invariant.          *)
LEMMA Returned ==
  ASSUME IInv, Return
  PROVE  IInv' /\ StoreStep
<1>1. Stop /\ stored' = stored
  BY DEF Return
<1>2. stored' = NoRun \/ IsKept(stored')
  BY <1>1 DEF IInv
<1>3. IInv'
  BY <1>1, <1>2, Idle
<1> QED
  BY <1>1, <1>3 DEF StoreStep

(* A step in memory keeps it.                                              *)
LEMMA WentOn ==
  ASSUME IInv, pc # "idle", run.status # "created", NEW label \in Label \ {"idle"},
         Goto(label), index' \in Nat, InControl(label, run, plan, index')
  PROVE  IInv' /\ StoreStep
<1>1. /\ pc' = label /\ stored' = stored /\ run' = run /\ plan' = plan
      /\ committed' = committed /\ qa_wired' = qa_wired
  BY DEF Goto
<1>2. stored = run /\ IsKept(run) /\ run # NoRun /\ plan \in Plans
  BY RunIsKept, NewRunKept
<1>3. /\ stored' = run' /\ IsKept(stored') /\ run' # NoRun /\ pc' # "idle"
      /\ InControl(pc', run', plan', index')
  BY <1>1, <1>2
<1>4. IInv'
  BY <1>1, <1>2, <1>3 DEF IInv, MemoryIsStored
<1> QED
  BY <1>1, <1>4 DEF StoreStep

(* A refusal keeps it.                                                     *)
LEMMA Refused ==
  ASSUME IInv, pc # "idle", run.status # "created", Refuse
  PROVE  IInv' /\ StoreStep
<1>1. Goto("refused") /\ index' \in Nat /\ InControl("refused", run, plan, index')
  BY DEF Refuse, IInv, InControl
<1> QED
  BY <1>1, WentOn DEF Label

(* An invocation begins.                                                   *)
LEMMA InvokeKeeps == ASSUME IInv, Invoke PROVE IInv' /\ StoreStep
<1>1. /\ pc = "idle" /\ plan' \in Plans /\ qa_wired' \in BOOLEAN
      /\ stored' = stored /\ index' = index /\ committed' = committed
      /\ \/ stored = NoRun /\ run' = NewRun
         \/ stored # NoRun /\ run' = stored
      /\ pc' = IF run'.status = "running" /\ ~Matches(run', plan') THEN "refused" ELSE "drive"
  BY PlanAssumption DEF Invoke
<1>2. IsKept(run') /\ run' # NoRun
  BY <1>1, NewRunKept, StoreAssumption DEF IInv, IsKept, Sound
<1>3. run' = NewRun => pc' = "drive"
  BY <1>1, NewRunKept
<1>4. pc' \in {"refused", "drive"}
  BY <1>1
<1>5. MemoryIsStored'
  BY <1>1, <1>3 DEF MemoryIsStored
<1>6. InControl(pc', run', plan', index')
  BY <1>4 DEF InControl
<1>7. IInv'
  BY <1>1, <1>2, <1>4, <1>5, <1>6 DEF IInv, Label
<1> QED
  BY <1>1, <1>7 DEF StoreStep

(* A Run is queued.                                                        *)
LEMMA QueueKeeps == ASSUME IInv, Queue PROVE IInv' /\ StoreStep
<1>1. pc # "idle" /\ run.status = "created" /\ index' = index
      /\ Commit(MoveTo(run, "queued"), "drive")
  BY DEF Queue, At
<1>2. CanTransition(run, "queued")
  BY <1>1 DEF CanTransition, AllowedTransitions, IsRework
<1>3. Advances(run, MoveTo(run, "queued"))
  BY <1>1, <1>2, RunIsKept, AdvancesMoving DEF MoveTo, RunStatus
<1>4. InControl("drive", MoveTo(run, "queued"), plan, index') /\ index' \in Nat
  BY <1>1 DEF InControl, IInv
<1> QED
  BY <1>1, <1>3, <1>4, Committed DEF Label

(* A Run is started.                                                       *)
LEMMA StartKeeps == ASSUME IInv, Start PROVE IInv' /\ StoreStep
<1>1. pc # "idle" /\ run.status = "queued" /\ index' = index
      /\ Commit(MoveTo(run, "running"), "drive")
  BY DEF Start, At
<1>2. CanTransition(run, "running")
  BY <1>1 DEF CanTransition, AllowedTransitions, IsRework, ReworkSources
<1>3. Advances(run, MoveTo(run, "running"))
  BY <1>1, <1>2, RunIsKept, AdvancesMoving DEF MoveTo, RunStatus
<1>4. InControl("drive", MoveTo(run, "running"), plan, index') /\ index' \in Nat
  BY <1>1 DEF InControl, IInv
<1> QED
  BY <1>1, <1>3, <1>4, Committed DEF Label

(* The plan is entered.                                                    *)
LEMMA EnterStepsKeeps == ASSUME IInv, EnterSteps PROVE IInv' /\ StoreStep
<1>1. /\ pc # "idle" /\ run.status = "running" /\ run.rework_count = 0
      /\ Goto("steps") /\ index' = 1
  BY DEF EnterSteps, At
<1>2. Len(run.tasks) \in Nat
  BY <1>1, RunIsKept DEF IsKept, Sound, Run
<1>3. InControl("steps", run, plan, index') /\ index' \in Nat
  BY <1>1, <1>2 DEF InControl
<1> QED
  BY <1>1, <1>3, WentOn DEF Label

(* The plan is at its end.                                                 *)
LEMMA EndStepsKeeps == ASSUME IInv, EndSteps PROVE IInv' /\ StoreStep
<1>1. /\ pc # "idle" /\ run.status = "running" /\ index' \in Nat /\ Goto("ruling")
  BY DEF EndSteps, IInv, InControl
<1>2. InControl("ruling", run, plan, index')
  BY <1>1 DEF InControl
<1> QED
  BY <1>1, <1>2, WentOn DEF Label

(* Position i of the Tasks of a Run in which all before it are.            *)
LEMMA OpenedPosition ==
  ASSUME NEW r, IsKept(r), NEW i \in 1..(Len(r.tasks) + 1)
  PROVE  /\ i \in Nat /\ Len(r.tasks) \in Nat
         /\ i <= Len(r.tasks) => i \in DOMAIN r.tasks
         /\ ~(i <= Len(r.tasks)) => i = Len(r.tasks) + 1
BY DEF IsKept, Sound, Run

(* A finished Task is passed by, with the Artifact it lacks.               *)
LEMMA PassTerminalTaskKeeps == ASSUME IInv, PassTerminalTask PROVE IInv' /\ StoreStep
<1> DEFINE q == WithArtifact(run, index)
           label == IF StopsPlan(run.tasks[index]) THEN "ruling" ELSE "steps"
<1>1. /\ pc = "steps" /\ run.status = "running" /\ run.rework_count = 0
      /\ index \in 1..(Len(run.tasks) + 1) /\ index <= Len(run.tasks)
      /\ run' = q /\ stored' = (IF q = run THEN stored ELSE q)
      /\ committed' \in BOOLEAN
      /\ pc' = label /\ index' = (IF label = "ruling" THEN index ELSE index + 1)
      /\ plan' = plan /\ qa_wired' = qa_wired
  BY DEF PassTerminalTask, InPlan, IsOpened, IInv, InControl
<1>2. IsKept(run) /\ run # NoRun /\ stored = run /\ plan \in Plans
  BY <1>1, RunIsKept
<1>3. index \in DOMAIN run.tasks /\ index \in Nat /\ Len(run.tasks) \in Nat
  BY <1>1, <1>2, OpenedPosition
<1>0. q = WithArtifact(run, index)
  OBVIOUS
<1> HIDE DEF q, label
<1>4. Carries(run, q, {"artifacts"})
  BY <1>0, <1>2, <1>3, WithArtifactEffect DEF IsKept
<1>5. Advances(run, q)
  <2>1. q.status = run.status
    BY <1>4 DEF Carries, Ops!Keeps
  <2>2. /\ "tasks" \notin {"artifacts"} /\ "analytics_records" \notin {"artifacts"}
        /\ "evaluations" \notin {"artifacts"}
        /\ run.status \notin {"completed", "failed"}
    BY <1>1
  <2> QED
    BY <1>2, <1>4, <2>1, <2>2, AdvancesBeside
<1>6. q.status = "running" /\ q.rework_count = 0 /\ q.tasks = run.tasks
  BY <1>1, <1>4 DEF Carries, Ops!Keeps
<1>7. label \in {"ruling", "steps"}
  BY DEF label
<1>8. InControl(label, q, plan, index') /\ index' \in Nat
  BY <1>1, <1>3, <1>6, <1>7 DEF InControl
<1>9. IsKept(q) /\ q # NoRun
  BY <1>5, StoreAssumption DEF Advances, IsKept, Sound
<1>10. stored' = run' /\ IsKept(stored') /\ run' # NoRun /\ pc' \in Label \ {"idle"}
       /\ InControl(pc', run', plan', index')
  BY <1>1, <1>2, <1>7, <1>8, <1>9 DEF Label
<1>11. IInv'
  BY <1>1, <1>2, <1>8, <1>10 DEF IInv, MemoryIsStored
<1> QED
  BY <1>1, <1>2, <1>5, <1>10, <1>11 DEF StoreStep

(* A lost Task is tried again, or fails.                                   *)
LEMMA ResumeTaskKeeps == ASSUME IInv, ResumeTask PROVE IInv' /\ StoreStep
<1>1. /\ pc = "steps" /\ run.status = "running" /\ run.rework_count = 0
      /\ index \in 1..(Len(run.tasks) + 1) /\ index <= Len(run.tasks)
      /\ ~IsTerminalTask(run.tasks[index]) /\ index' = index
  BY DEF ResumeTask, InPlan, IsOpened, IInv, InControl
<1>2. IsKept(run) /\ index \in DOMAIN run.tasks /\ index' \in Nat
  BY <1>1, RunIsKept, OpenedPosition
<1> DEFINE to == IF HasAttemptsLeft(run.tasks[index]) THEN "running" ELSE "failed"
           q == TransitionTask(run, index, to)
           label == IF HasAttemptsLeft(run.tasks[index]) THEN "executing" ELSE "ruling"
<1>3. Commit(q, label)
  BY DEF ResumeTask
<1>0. q = TransitionTask(run, index, to)
      /\ to = IF HasAttemptsLeft(run.tasks[index]) THEN "running" ELSE "failed"
  OBVIOUS
<1>7. label \in {"executing", "ruling"} /\ (label = "executing" => to = "running")
  OBVIOUS
<1> HIDE DEF q, to, label
<1>4. /\ Advances(run, q) /\ Carries(run, q, {"tasks"}) /\ OneTaskMoves(run, q, index)
      /\ q.tasks[index].status = to
  BY <1>0, <1>1, <1>2, AdvancesTrying
<1>5. q.status = "running" /\ q.rework_count = 0 /\ index \in DOMAIN q.tasks
  BY <1>1, <1>2, <1>4 DEF Carries, Ops!Keeps, OneTaskMoves
<1>6. InControl(label, q, plan, index')
  BY <1>1, <1>4, <1>5, <1>7 DEF InControl
<1> QED
  BY <1>1, <1>2, <1>3, <1>4, <1>6, <1>7, Committed DEF Label

(* A step's input names an earlier Task, or none.                          *)
LEMMA ChainedInputTyped ==
  ASSUME NEW r, NEW i \in Nat \ {0}
  PROVE  ChainedInput(r, i) \in TaskInput
<1> DEFINE S == {t \in 1..(i - 1) : r.tasks[t].output = "valid"}
<1>1. Latest(S) \in Nat
  <2> DEFINE n == i - 1
  <2>1. n \in Nat /\ S \in SUBSET (1..n) /\ \A x \in 1..n : x \in Nat
    OBVIOUS
  <2> HIDE DEF S, n
  <2>2. (Latest(S) = 0 <=> S = {}) /\ (S # {} => Latest(S) \in S)
    BY <2>1, LatestIsGreatest
  <2>3. CASE S = {}
    BY <2>2, <2>3
  <2>4. CASE S # {}
    <3>1. Latest(S) \in 1..n
      BY <2>1, <2>2, <2>4, Zenon
    <3> QED
      BY <2>1, <3>1
  <2> QED
    BY <2>3, <2>4
<1> QED
  BY <1>1 DEF ChainedInput, TaskInput

(* A plan has a step.                                                      *)
LEMMA PlanPositions ==
  ASSUME NEW p \in Plans
  PROVE  /\ Len(p) \in Nat \ {0} /\ DOMAIN p = 1..Len(p)
<1>1. p \in Seq({p[i] : i \in DOMAIN p}) /\ p # <<>>
  BY PlanAssumption
<1> DEFINE S == {p[i] : i \in DOMAIN p}
<1>2. p \in Seq(S)
  BY <1>1
<1> HIDE DEF S
<1> QED
  BY <1>1, <1>2

(* The next step is opened and started.                                    *)
LEMMA OpenStepKeeps == ASSUME IInv, OpenStep PROVE IInv' /\ StoreStep
<1>1. /\ pc = "steps" /\ run.status = "running" /\ run.rework_count = 0
      /\ index \in 1..(Len(run.tasks) + 1) /\ ~(index <= Len(run.tasks))
      /\ index <= Len(plan) /\ index' = index
  BY DEF OpenStep, InPlan, IsOpened, IInv, InControl
<1>2. /\ IsKept(run) /\ plan \in Plans /\ index' \in Nat /\ index \in Nat \ {0}
      /\ index = Len(run.tasks) + 1
  BY <1>1, RunIsKept, OpenedPosition
<1>3. index \in DOMAIN plan
  BY <1>1, <1>2, PlanPositions
<1> DEFINE input == ChainedInput(run, index)
           q == StartTask(run, plan[index], input)
<1>4. Commit(q, "executing") /\ input \in TaskInput
  BY <1>2, ChainedInputTyped DEF OpenStep
<1>0. q = StartTask(run, plan[index], input)
  OBVIOUS
<1> HIDE DEF q, input
<1>5. Advances(run, q)
  BY <1>0, <1>1, <1>2, <1>3, <1>4, AdvancesStarting
<1>6. /\ Carries(run, q, {"tasks"}) /\ Len(q.tasks) = Len(run.tasks) + 1
      /\ q.tasks[Len(q.tasks)].status = "running"
  BY <1>0, <1>2, <1>3, <1>4, StartTaskEffect DEF IsKept
<1>7. /\ q.status = "running" /\ q.rework_count = 0 /\ index \in DOMAIN q.tasks
      /\ q.tasks[index].status = "running"
  <2>1. q.tasks \in Seq(Task)
    BY <1>6 DEF Carries, Sound, Run
  <2> QED
    BY <1>1, <1>2, <1>6, <2>1 DEF Carries, Ops!Keeps
<1>8. InControl("executing", q, plan, index')
  BY <1>1, <1>7 DEF InControl
<1> QED
  BY <1>1, <1>2, <1>4, <1>5, <1>8, Committed DEF Label

(* What the Answer of an executor and its Artifact make of a Run.          *)
LEMMA AdvancesAnswered ==
  ASSUME NEW r, IsKept(r), r.status = "running",
         NEW t \in DOMAIN r.tasks, r.tasks[t].status = "running",
         NEW answer \in Answers, NEW n, n = FinishTask(r, t, answer),
         NEW q, \/ q = WithArtifact(n, t)
                \/ LiveCandidate(r) # 0 /\ q = WithSuccessor(n, t)
  PROVE  /\ Advances(r, q) /\ q.status = "running" /\ q.rework_count = r.rework_count
         /\ DOMAIN q.tasks = DOMAIN r.tasks /\ Len(q.tasks) = Len(r.tasks)
<1>1. Advances(r, n)
  BY AdvancesFinishing
<1>2. Carries(r, n, {"tasks", "analytics_records"}) /\ OneTaskMoves(r, n, t)
  BY FinishTaskEffect DEF IsKept
<1>3. /\ n.status = "running" /\ n.rework_count = r.rework_count
      /\ n.artifacts = r.artifacts /\ IsKept(n)
      /\ DOMAIN n.tasks = DOMAIN r.tasks /\ Len(n.tasks) = Len(r.tasks)
  BY <1>1, <1>2 DEF Carries, Ops!Keeps, OneTaskMoves, Advances
<1>4. Carries(n, q, {"artifacts"})
  <2>1. CASE q = WithArtifact(n, t)
    BY <1>3, <2>1, WithArtifactEffect DEF IsKept
  <2>2. CASE LiveCandidate(r) # 0 /\ q = WithSuccessor(n, t)
    <3>1. LiveCandidate(n) # 0
      BY <1>3, <2>2 DEF LiveCandidate
    <3> QED
      BY <1>3, <2>2, <3>1, WithSuccessorEffect DEF IsKept
  <2> QED
    BY <2>1, <2>2
<1>5. q.status = n.status /\ q.rework_count = n.rework_count /\ q.tasks = n.tasks
  BY <1>4 DEF Carries, Ops!Keeps
<1>6. Advances(n, q)
  <2>1. /\ "tasks" \notin {"artifacts"} /\ "analytics_records" \notin {"artifacts"}
        /\ "evaluations" \notin {"artifacts"}
        /\ n.status \notin {"completed", "failed"}
    BY <1>3
  <2> QED
    BY <1>3, <1>4, <1>5, <2>1, AdvancesBeside
<1>7. Advances(r, q)
  BY <1>1, <1>6, AdvancesTwice
<1> QED
  BY <1>3, <1>5, <1>7

(* The executor answers.                                                   *)
LEMMA StepAnsweredKeeps == ASSUME IInv, StepAnswered PROVE IInv' /\ StoreStep
<1>1. /\ pc = "executing" /\ run.rework_count = 0 /\ index \in DOMAIN run.tasks
      /\ run.status = "running" /\ run.tasks[index].status = "running" /\ index \in Nat
  BY DEF StepAnswered, IInv, InControl
<1>2. IsKept(run)
  BY <1>1, RunIsKept
<1>3. PICK answer \in Answers :
        LET r == WithArtifact(FinishTask(run, index, answer), index)
        IN  IF StopsPlan(r.tasks[index])
              THEN Commit(r, "ruling") /\ UNCHANGED index
              ELSE Commit(r, "steps") /\ index' = index + 1
  BY DEF StepAnswered
<1> DEFINE n == FinishTask(run, index, answer)
           q == WithArtifact(n, index)
<1>4. n = FinishTask(run, index, answer) /\ q = WithArtifact(n, index)
  OBVIOUS
<1>5. \/ Commit(q, "ruling") /\ index' = index
      \/ Commit(q, "steps") /\ index' = index + 1
  BY <1>3
<1> HIDE DEF n, q
<1>6. /\ Advances(run, q) /\ q.status = "running" /\ q.rework_count = run.rework_count
      /\ DOMAIN q.tasks = DOMAIN run.tasks /\ Len(q.tasks) = Len(run.tasks)
  BY <1>1, <1>2, <1>4, AdvancesAnswered
<1>7. run.tasks \in Seq(Task)
  BY <1>2 DEF IsKept, Sound, Run
<1>8. CASE Commit(q, "ruling") /\ index' = index
  <2>1. InControl("ruling", q, plan, index') /\ index' \in Nat
    BY <1>1, <1>6, <1>8 DEF InControl
  <2> QED
    BY <1>1, <1>6, <1>8, <2>1, Committed DEF Label
<1>9. CASE Commit(q, "steps") /\ index' = index + 1
  <2>1. InControl("steps", q, plan, index') /\ index' \in Nat
    BY <1>1, <1>6, <1>7, <1>9 DEF InControl
  <2> QED
    BY <1>1, <1>6, <1>9, <2>1, Committed DEF Label
<1> QED
  BY <1>5, <1>8, <1>9

(* A Run that has not ended can always fail.                               *)
LEMMA FailAdvances ==
  ASSUME NEW r, IsKept(r), r.status \notin {"completed", "failed"},
         NEW reason \in FailureReason
  PROVE  Advances(r, Fail(r, reason))
<1>1. r.status \in RunStatus
  BY DEF IsKept, Sound, Run
<1>2. CanTransition(r, "failed")
  BY <1>1 DEF CanTransition, AllowedTransitions, RunStatus, IsRework
<1> QED
  BY <1>2, AdvancesMoving DEF Fail, RunStatus

(* A rework begins, or fails at its limit.                                 *)
LEMMA BeginReworkKeeps == ASSUME IInv, BeginRework PROVE IInv' /\ StoreStep
<1>1. pc = "drive" /\ run.status = "waiting_human" /\ IsKept(run) /\ index \in Nat
  BY RunIsKept DEF BeginRework, ReworkRequested, IInv
<1>2. CASE Refuse
  BY <1>1, <1>2, Refused
<1>3. CASE /\ CanTransition(run, "running")
           /\ Commit(MoveTo(run, "running"), "drive") /\ UNCHANGED index
  <2>1. Advances(run, MoveTo(run, "running"))
    BY <1>1, <1>3, AdvancesMoving DEF MoveTo, RunStatus
  <2>2. InControl("drive", MoveTo(run, "running"), plan, index') /\ index' \in Nat
    BY <1>1, <1>3 DEF InControl
  <2> QED
    BY <1>1, <1>3, <2>1, <2>2, Committed DEF Label
<1>4. CASE CommitAndStop(Fail(run, "rework limit"))
  <2>1. Advances(run, Fail(run, "rework limit"))
    BY <1>1, FailAdvances DEF FailureReason
  <2> QED
    BY <1>1, <1>4, <2>1, CommittedAndStopped
<1> QED
  BY <1>2, <1>3, <1>4 DEF BeginRework

(* A rework is entered.                                                    *)
LEMMA EnterReworkKeeps == ASSUME IInv, EnterRework PROVE IInv' /\ StoreStep
<1>1. /\ pc = "drive" /\ run.status = "running" /\ run.rework_count > 0 /\ IsKept(run)
      /\ plan \in Plans
  BY RunIsKept DEF EnterRework, At, IInv
<1>2. CASE Refuse
  BY <1>1, <1>2, Refused
<1>3. CASE /\ ReworkIndex <= Len(run.tasks) + 1
           /\ Goto("rework") /\ index' = ReworkIndex
  <2>1. ReworkIndex \in 1..(Len(run.tasks) + 1) /\ ReworkIndex \in Nat
    <3>1. run.rework_count \in Nat /\ Len(run.tasks) \in Nat /\ Len(plan) \in Nat \ {0}
      BY <1>1, LimitAssumption, PlanPositions DEF IsKept, Sound, Run
    <3> QED
      BY <1>1, <1>3, <3>1 DEF ReworkIndex
  <2>2. InControl("rework", run, plan, index') /\ index' \in Nat
    BY <1>1, <1>3, <2>1 DEF InControl
  <2> QED
    BY <1>1, <1>3, <2>2, WentOn DEF Label
<1> QED
  BY <1>2, <1>3 DEF EnterRework

(* What the rework answers is known as long as Artifacts and Reviews stay. *)
LEMMA ReworkSourceKept ==
  ASSUME NEW r, NEW q, q.artifacts = r.artifacts, q.human_reviews = r.human_reviews
  PROVE  HasReworkSource(q) = HasReworkSource(r) /\ LiveCandidate(q) = LiveCandidate(r)
BY DEF HasReworkSource, LiveCandidate, IsReviewOf, LatestReview, ReviewsOf

(* The input of a rework names an Artifact and a Review, or none.          *)
LEMMA ReworkInputTyped ==
  ASSUME NEW r, IsKept(r)
  PROVE  ReworkInput(r) \in TaskInput
<1>1. r.artifacts \in Seq(Artifact) /\ r.human_reviews \in Seq(HumanReview) /\ Sound(r)
  BY DEF IsKept, Sound, Run
<1>2. LiveCandidate(r) \in Nat
  BY <1>1, Lookups DEF IsCandidate
<1>3. LatestReview(r, LiveCandidate(r)) \in Nat
  BY <1>1, Lookups DEF ReviewsOf
<1> QED
  BY <1>2, <1>3 DEF ReworkInput, TaskInput

(* The Task of a rework is opened.                                         *)
LEMMA OpenReworkKeeps == ASSUME IInv, OpenRework PROVE IInv' /\ StoreStep
<1>1. /\ pc = "rework" /\ run.status = "running" /\ run.rework_count > 0
      /\ index \in 1..(Len(run.tasks) + 1) /\ ~(index <= Len(run.tasks))
  BY DEF OpenRework, IsOpened, IInv, InControl
<1>2. /\ IsKept(run) /\ plan \in Plans /\ index \in Nat /\ index = Len(run.tasks) + 1
      /\ Len(plan) \in DOMAIN plan
  BY <1>1, RunIsKept, OpenedPosition, PlanPositions
<1>3. CASE Refuse
  BY <1>1, <1>3, Refused
<1>4. CASE /\ HasReworkSource(run)
           /\ Commit(StartTask(run, plan[Len(plan)], ReworkInput(run)), "executing")
           /\ UNCHANGED index
  <2> DEFINE input == ReworkInput(run)
             q == StartTask(run, plan[Len(plan)], input)
  <2>1. /\ q = StartTask(run, plan[Len(plan)], input) /\ Commit(q, "executing")
        /\ index' \in Nat
    BY <1>2, <1>4
  <2>2. input \in TaskInput
    BY <1>2, ReworkInputTyped
  <2> HIDE DEF q, input
  <2>3. Advances(run, q)
    BY <1>1, <1>2, <2>1, <2>2, AdvancesStarting
  <2>4. /\ Carries(run, q, {"tasks"}) /\ Len(q.tasks) = Len(run.tasks) + 1
        /\ q.tasks[Len(q.tasks)].status = "running"
    BY <1>2, <2>1, <2>2, StartTaskEffect DEF IsKept
  <2>5. q.tasks \in Seq(Task)
    BY <2>4 DEF Carries, Sound, Run
  <2>6. /\ q.status = "running" /\ index \in DOMAIN q.tasks
        /\ q.tasks[index].status = "running"
    BY <1>1, <1>2, <2>4, <2>5 DEF Carries, Ops!Keeps
  <2>7. HasReworkSource(q)
    BY <1>4, <2>4, ReworkSourceKept DEF Carries, Ops!Keeps
  <2>8. InControl("executing", q, plan, index')
    BY <1>4, <2>6, <2>7 DEF InControl
  <2> QED
    BY <1>1, <2>1, <2>3, <2>8, Committed DEF Label
<1> QED
  BY <1>3, <1>4 DEF OpenRework

(* The lost Task of a rework is tried again, or fails.                     *)
LEMMA ResumeReworkKeeps == ASSUME IInv, ResumeRework PROVE IInv' /\ StoreStep
<1>1. /\ pc = "rework" /\ run.status = "running" /\ run.rework_count > 0
      /\ index \in 1..(Len(run.tasks) + 1) /\ index <= Len(run.tasks)
      /\ ~IsTerminalTask(run.tasks[index]) /\ index' = index
  BY DEF ResumeRework, IsOpened, IInv, InControl
<1>2. IsKept(run) /\ index \in DOMAIN run.tasks /\ index' \in Nat
  BY <1>1, RunIsKept, OpenedPosition
<1> DEFINE to == IF HasAttemptsLeft(run.tasks[index]) THEN "running" ELSE "failed"
           q == TransitionTask(run, index, to)
           label == IF ~HasAttemptsLeft(run.tasks[index]) THEN "ruling"
                    ELSE IF HasReworkSource(run) THEN "executing" ELSE "refused"
<1>3. Commit(q, label)
  BY DEF ResumeRework
<1>0. q = TransitionTask(run, index, to)
      /\ to = IF HasAttemptsLeft(run.tasks[index]) THEN "running" ELSE "failed"
  OBVIOUS
<1>7. /\ label \in {"executing", "ruling", "refused"}
      /\ label = "executing" => to = "running" /\ HasReworkSource(run)
  OBVIOUS
<1> HIDE DEF q, to, label
<1>4. /\ Advances(run, q) /\ Carries(run, q, {"tasks"}) /\ OneTaskMoves(run, q, index)
      /\ q.tasks[index].status = to
  BY <1>0, <1>1, <1>2, AdvancesTrying
<1>5. q.status = "running" /\ index \in DOMAIN q.tasks
  BY <1>1, <1>2, <1>4 DEF Carries, Ops!Keeps, OneTaskMoves
<1>6. HasReworkSource(q) = HasReworkSource(run)
  BY <1>4, ReworkSourceKept DEF Carries, Ops!Keeps
<1>8. InControl(label, q, plan, index')
  BY <1>1, <1>4, <1>5, <1>6, <1>7 DEF InControl
<1> QED
  BY <1>1, <1>2, <1>3, <1>4, <1>7, <1>8, Committed DEF Label

(* The finished Task of a rework is passed by.                             *)
LEMMA PassTerminalReworkKeeps == ASSUME IInv, PassTerminalRework PROVE IInv' /\ StoreStep
<1> DEFINE q == WithSuccessor(run, index)
<1>1. /\ pc = "rework" /\ run.status = "running"
      /\ index \in 1..(Len(run.tasks) + 1) /\ index <= Len(run.tasks)
      /\ \/ Goto("ruling") /\ index' = index
         \/ HasReworkSource(run) /\ Commit(q, "ruling") /\ index' = index
         \/ Refuse
  BY DEF PassTerminalRework, IsOpened, IInv, InControl
<1>2. IsKept(run) /\ index \in DOMAIN run.tasks /\ index \in Nat
  BY <1>1, RunIsKept, OpenedPosition
<1>3. CASE Refuse
  BY <1>1, <1>3, Refused
<1>4. CASE Goto("ruling") /\ index' = index
  <2>1. InControl("ruling", run, plan, index')
    BY <1>1 DEF InControl
  <2> QED
    BY <1>1, <1>2, <1>4, <2>1, WentOn DEF Label
<1>5. CASE HasReworkSource(run) /\ Commit(q, "ruling") /\ index' = index
  <2>1. LiveCandidate(run) # 0 /\ q = WithSuccessor(run, index)
    BY <1>5 DEF HasReworkSource
  <2> HIDE DEF q
  <2>2. Carries(run, q, {"artifacts"})
    BY <1>2, <2>1, WithSuccessorEffect DEF IsKept
  <2>3. q.status = run.status
    BY <2>2 DEF Carries, Ops!Keeps
  <2>4. /\ "tasks" \notin {"artifacts"} /\ "analytics_records" \notin {"artifacts"}
        /\ "evaluations" \notin {"artifacts"}
        /\ run.status \notin {"completed", "failed"}
    BY <1>1
  <2>5. Advances(run, q)
    BY <1>2, <2>2, <2>3, <2>4, AdvancesBeside
  <2>6. InControl("ruling", q, plan, index')
    BY <1>1, <2>3 DEF InControl
  <2> QED
    BY <1>1, <1>2, <1>5, <2>5, <2>6, Committed DEF Label
<1> QED
  BY <1>1, <1>3, <1>4, <1>5

(* The executor answers a rework.                                          *)
LEMMA ReworkAnsweredKeeps == ASSUME IInv, ReworkAnswered PROVE IInv' /\ StoreStep
<1>1. /\ pc = "executing" /\ run.rework_count > 0 /\ index \in DOMAIN run.tasks
      /\ run.status = "running" /\ run.tasks[index].status = "running" /\ index' \in Nat
      /\ HasReworkSource(run)
  BY DEF ReworkAnswered, IInv, InControl
<1>2. IsKept(run) /\ LiveCandidate(run) # 0
  BY <1>1, RunIsKept DEF HasReworkSource
<1>3. PICK answer \in Answers :
        Commit(WithSuccessor(FinishTask(run, index, answer), index), "ruling")
  BY DEF ReworkAnswered
<1> DEFINE n == FinishTask(run, index, answer)
           q == WithSuccessor(n, index)
<1>4. n = FinishTask(run, index, answer) /\ q = WithSuccessor(n, index)
      /\ Commit(q, "ruling")
  BY <1>3
<1> HIDE DEF n, q
<1>5. Advances(run, q) /\ q.status = "running"
  BY <1>1, <1>2, <1>4, AdvancesAnswered
<1>6. InControl("ruling", q, plan, index')
  BY <1>5 DEF InControl
<1> QED
  BY <1>1, <1>4, <1>5, <1>6, Committed DEF Label

(* A Run that ran is passed on to QA, or fails.                            *)
LEMMA RuleKeeps == ASSUME IInv, Rule PROVE IInv' /\ StoreStep
<1>1. pc = "ruling" /\ run.status = "running" /\ index \in Nat
  BY DEF Rule, IInv, InControl
<1>2. IsKept(run)
  BY <1>1, RunIsKept
<1>3. \/ \E reason \in FailureReason : CommitAndStop(Fail(run, reason))
      \/ /\ AllTasksSucceeded(run)
         /\ Commit(MoveTo(run, "waiting_qa"), "drive") /\ index' = index
  BY DEF Rule, FailureReason
<1>4. ASSUME NEW reason \in FailureReason, CommitAndStop(Fail(run, reason))
      PROVE  IInv' /\ StoreStep
  <2>1. Advances(run, Fail(run, reason))
    BY <1>1, <1>2, FailAdvances
  <2> QED
    BY <1>1, <1>4, <2>1, CommittedAndStopped
<1>5. CASE /\ AllTasksSucceeded(run)
           /\ Commit(MoveTo(run, "waiting_qa"), "drive") /\ index' = index
  <2>1. CanTransition(run, "waiting_qa")
    BY <1>1 DEF CanTransition, AllowedTransitions, IsRework
  <2>2. Advances(run, MoveTo(run, "waiting_qa"))
    BY <1>2, <1>5, <2>1, AdvancesMoving DEF MoveTo, RunStatus
  <2>3. InControl("drive", MoveTo(run, "waiting_qa"), plan, index') /\ index' \in Nat
    BY <1>1, <1>5 DEF InControl
  <2> QED
    BY <1>1, <1>5, <2>2, <2>3, Committed DEF Label
<1> QED
  BY <1>3, <1>4, <1>5

(* A Run that is not over may be stored as it is.                          *)
LEMMA AdvancesByNothing ==
  ASSUME NEW r, IsKept(r), r.status \notin {"completed", "failed"}
  PROVE  Advances(r, r)
BY StaysAsItIs DEF Advances, Carries, IsKept, Steady

(* A Review is opened on a candidate.                                      *)
LEMMA ReviewOpenedAdvances ==
  ASSUME NEW r, IsKept(r), r.status \notin {"completed", "failed"},
         NEW a, NEW q \in OpenReviewOn(r, a)
  PROVE  Advances(r, q)
<1>1. IsCandidate(r, a) /\ q = OpenHumanReview(r, a)
  BY DEF OpenReviewOn
<1>2. Carries(r, q, {"human_reviews"})
  BY <1>1, OpenHumanReviewLegal DEF Carries, IsKept
<1>3. q.status = r.status
  BY <1>2 DEF Carries, Ops!Keeps
<1>4. /\ "tasks" \notin {"human_reviews"} /\ "analytics_records" \notin {"human_reviews"}
      /\ "evaluations" \notin {"human_reviews"}
  OBVIOUS
<1> QED
  BY <1>2, <1>3, <1>4, AdvancesBeside

(* _open_approval_review opens a Review or leaves the Run alone.           *)
LEMMA ApprovalReviewAdvances ==
  ASSUME NEW r, IsKept(r), r.status \notin {"completed", "failed"},
         NEW q \in ApprovalReviewOpened(r)
  PROVE  Advances(r, q)
<1>1. q = r \/ q \in OpenReviewOn(r, FinalCandidate(r))
  BY DEF ApprovalReviewOpened
<1> QED
  BY <1>1, AdvancesByNothing, ReviewOpenedAdvances

(* A Run is passed on to the human gate.                                   *)
LEMMA WaitingForHuman ==
  ASSUME NEW r, IsKept(r), r.status = "waiting_qa"
  PROVE  LET q == MoveTo(r, "waiting_human")
         IN  /\ Advances(r, q) /\ q.status = "waiting_human" /\ Carries(r, q, {"status"})
<1>1. CanTransition(r, "waiting_human")
  BY DEF CanTransition, AllowedTransitions, IsRework
<1> QED
  BY <1>1, AdvancesMoving DEF MoveTo, RunStatus

(* A Run is passed on without QA.                                          *)
LEMMA PassWithoutQaKeeps == ASSUME IInv, PassWithoutQa PROVE IInv' /\ StoreStep
<1>1. /\ pc = "drive" /\ run.status = "waiting_qa" /\ IsKept(run) /\ index' \in Nat
      /\ Commit(MoveTo(run, "waiting_human"), "drive")
  BY RunIsKept DEF PassWithoutQa, At, IInv
<1>2. InControl("drive", MoveTo(run, "waiting_human"), plan, index')
  BY DEF InControl
<1> QED
  BY <1>1, <1>2, WaitingForHuman, Committed DEF Label

(* A Run with nothing to judge fails.                                      *)
LEMMA FailWithoutCandidateKeeps == ASSUME IInv, FailWithoutCandidate PROVE IInv' /\ StoreStep
<1>1. /\ pc = "drive" /\ run.status = "waiting_qa" /\ IsKept(run)
      /\ CommitAndStop(Fail(run, "no candidate"))
  BY RunIsKept DEF FailWithoutCandidate, AtQaGate, At
<1>2. Advances(run, Fail(run, "no candidate"))
  BY <1>1, FailAdvances DEF FailureReason
<1> QED
  BY <1>1, <1>2, CommittedAndStopped

(* The final candidate depends on the Tasks and the Artifacts' Outputs.    *)
LEMMA FinalCandidateKept ==
  ASSUME NEW r, NEW q, q.tasks = r.tasks, DOMAIN q.artifacts = DOMAIN r.artifacts,
         \A a \in DOMAIN r.artifacts :
           q.artifacts[a].output_ref = r.artifacts[a].output_ref
  PROVE  FinalCandidate(q) = FinalCandidate(r)
<1>1. ASSUME NEW t
      PROVE  {a \in DOMAIN q.artifacts : q.artifacts[a].output_ref = t}
               = {a \in DOMAIN r.artifacts : r.artifacts[a].output_ref = t}
  OBVIOUS
<1> QED
  BY <1>1 DEF FinalCandidate, HasOutput, ArtifactOf

(* A candidate is put before QA: the draft is promoted, and its Evaluation *)
(* opened.                                                                 *)
LEMMA QaOpenedAdvances ==
  ASSUME NEW r, IsKept(r), r.status = "waiting_qa",
         NEW a, a = FinalCandidate(r), a # 0, LatestQa(r, a) = 0,
         NEW p, p = PromoteDraft(r, a), IsCandidate(p, a),
         NEW q, q = OpenEvaluation(p, a, TRUE)
  PROVE  Advances(r, q) /\ q.status = "waiting_qa" /\ AwaitsVerdict(q)
<1>1. a \in DOMAIN r.artifacts /\ Sound(r)
  BY Lookups DEF FinalCandidate, IsKept
<1>2. /\ Carries(r, p, {"artifacts"}) /\ DOMAIN p.artifacts = DOMAIN r.artifacts
      /\ \A b \in DOMAIN r.artifacts :
           p.artifacts[b].output_ref = r.artifacts[b].output_ref
  <2>1. CASE r.artifacts[a].status = "draft"
    <3>1. CanTransitionArtifact(r, a, "candidate") /\ "candidate" \in ArtifactStatus
      BY <1>1, <2>1
      DEF CanTransitionArtifact, AllowedArtifactTransitions, ArtifactStatus
    <3>2. p = TransitionArtifact(r, a, "candidate")
      BY <2>1 DEF PromoteDraft
    <3> DEFINE next == Ops!WithStatus(r.artifacts[a], "candidate")
    <3>3. Carries(r, p, {"artifacts"}) /\ p.artifacts = Ops!Updated(r.artifacts, a, next)
      BY <1>1, <3>1, <3>2, TransitionArtifactLegal, Zenon DEF Carries
    <3>4. r.artifacts \in Seq(Artifact) /\ r.artifacts[a] \in Artifact
      BY <1>1 DEF Sound, Run
    <3>5. next.output_ref = r.artifacts[a].output_ref
      BY <3>4 DEF Ops!WithStatus, Artifact
    <3> HIDE DEF next
    <3> QED
      BY <1>1, <3>3, <3>4, <3>5 DEF Ops!Updated
  <2>2. CASE r.artifacts[a].status # "draft"
    <3>1. p = r
      BY <2>2 DEF PromoteDraft
    <3> QED
      BY <1>1, <3>1, StaysAsItIs
  <2> QED
    BY <2>1, <2>2
<1>3. /\ p.status = "waiting_qa" /\ p.tasks = r.tasks /\ p.evaluations = r.evaluations
  BY <1>2 DEF Carries, Ops!Keeps
<1>4. Advances(r, p)
  <2>1. /\ "tasks" \notin {"artifacts"} /\ "analytics_records" \notin {"artifacts"}
        /\ "evaluations" \notin {"artifacts"}
        /\ r.status \notin {"completed", "failed"}
    OBVIOUS
  <2> QED
    BY <1>2, <1>3, <2>1, AdvancesBeside
<1> DEFINE evaluation == [artifact_ref |-> a, attributed |-> TRUE, status |-> "pending"]
<1>5. /\ Carries(p, q, {"evaluations"}) /\ q.evaluations = Append(p.evaluations, evaluation)
  BY <1>2, OpenEvaluationLegal, Zenon DEF Carries
<1>6. q.status = "waiting_qa" /\ q.tasks = r.tasks /\ q.artifacts = p.artifacts
  BY <1>3, <1>5 DEF Carries, Ops!Keeps
<1>7. Advances(p, q)
  <2>1. /\ "tasks" \notin {"evaluations"} /\ "analytics_records" \notin {"evaluations"}
        /\ p.status \notin {"completed", "failed"} /\ p.status # "waiting_human"
    BY <1>3
  <2> QED
    BY <1>3, <1>4, <1>5, <1>6, <2>1, AdvancesBeside DEF Advances
<1>8. Advances(r, q)
  BY <1>4, <1>7, AdvancesTwice
<1>9. FinalCandidate(q) = a
  BY <1>2, <1>6, FinalCandidateKept
<1>10. /\ r.evaluations \in Seq(Evaluation) /\ evaluation.artifact_ref = a
       /\ evaluation.status = "pending"
  BY <1>1 DEF Sound, Run
<1>11. EvaluationsOf(r, a) = {}
  BY <1>1, Lookups
<1> HIDE DEF evaluation
<1>12. /\ EvaluationsOf(q, a) = {Len(r.evaluations) + 1}
       /\ q.evaluations[Len(r.evaluations) + 1].status = "pending"
  <2> DEFINE n == Len(r.evaluations) + 1
  <2>1. /\ DOMAIN q.evaluations = DOMAIN r.evaluations \cup {n}
        /\ q.evaluations[n] = evaluation
        /\ \A e \in DOMAIN r.evaluations : q.evaluations[e] = r.evaluations[e] /\ e # n
    <3> DEFINE s == r.evaluations
    <3>1. q.evaluations = Append(s, evaluation) /\ s \in Seq(Evaluation)
      BY <1>3, <1>5, <1>10
    <3> HIDE DEF s
    <3>2. /\ DOMAIN Append(s, evaluation) = DOMAIN s \cup {Len(s) + 1}
          /\ Append(s, evaluation)[Len(s) + 1] = evaluation
          /\ \A e \in DOMAIN s : Append(s, evaluation)[e] = s[e] /\ e # Len(s) + 1
      BY <3>1
    <3> QED
      BY <3>1, <3>2 DEF s
  <2> HIDE DEF n
  <2>2. \A e : e \in EvaluationsOf(q, a) <=> e = n
    BY <1>10, <1>11, <2>1, Zenon DEF EvaluationsOf
  <2>3. EvaluationsOf(q, a) = {n}
    BY <2>2, Zenon
  <2> QED
    BY <1>10, <2>1, <2>3 DEF n
<1>13. LatestQa(q, a) # 0 /\ LatestQa(q, a) \in EvaluationsOf(q, a)
  <2>1. Sound(q)
    BY <1>5 DEF Carries
  <2>2. EvaluationsOf(q, a) # {}
    BY <1>12, Zenon
  <2> QED
    BY <2>1, <2>2, Lookups, Zenon
<1> QED
  BY <1>1, <1>6, <1>8, <1>9, <1>12, <1>13 DEF AwaitsVerdict

(* QA is asked.                                                            *)
LEMMA OpenQaKeeps == ASSUME IInv, OpenQa PROVE IInv' /\ StoreStep
<1>1. /\ pc = "drive" /\ run.status = "waiting_qa" /\ IsKept(run) /\ index \in Nat
      /\ Candidate # 0 /\ LatestQa(run, Candidate) = 0
  BY RunIsKept DEF OpenQa, AtQaGate, At, IInv
<1>2. CASE Refuse
  BY <1>1, <1>2, Refused
<1> DEFINE p == PromoteDraft(run, Candidate)
           q == OpenEvaluation(p, Candidate, TRUE)
<1>3. CASE IsCandidate(p, Candidate) /\ Commit(q, "judging") /\ index' = index
  <2>1. p = PromoteDraft(run, Candidate) /\ q = OpenEvaluation(p, Candidate, TRUE)
        /\ Candidate = FinalCandidate(run)
    BY DEF Candidate
  <2> HIDE DEF p, q
  <2>2. Advances(run, q) /\ q.status = "waiting_qa" /\ AwaitsVerdict(q)
    BY <1>1, <1>3, <2>1, QaOpenedAdvances
  <2>3. InControl("judging", q, plan, index') /\ index' \in Nat
    BY <1>1, <1>3, <2>2 DEF InControl
  <2> QED
    BY <1>1, <1>3, <2>2, <2>3, Committed DEF Label
<1> QED
  BY <1>2, <1>3 DEF OpenQa

(* QA is asked once more for a lost verdict.                               *)
LEMMA AskQaAgainKeeps == ASSUME IInv, AskQaAgain PROVE IInv' /\ StoreStep
<1>1. /\ pc = "drive" /\ run.status = "waiting_qa" /\ AwaitsVerdict(run)
      /\ Goto("judging") /\ index' \in Nat
  BY DEF AskQaAgain, AtQaGate, At, IsEvaluated, Verdict, Candidate, AwaitsVerdict, IInv
<1>2. InControl("judging", run, plan, index')
  BY <1>1 DEF InControl
<1> QED
  BY <1>1, <1>2, WentOn DEF Label

(* The calls of the evaluator are recorded.                                *)
LEMMA MeasuredAdvances ==
  ASSUME NEW r, IsKept(r), r.status = "waiting_qa",
         NEW e \in DOMAIN r.evaluations, r.evaluations[e].status = "pending",
         NEW q, q = RecordEvaluationAnalytics(r, e)
  PROVE  Advances(r, q) /\ q.status = r.status /\ q.evaluations = r.evaluations
<1>1. CanRecordEvaluationAnalytics(r, e)
  BY DEF IsKept, Sound, PendingAttributed, CanRecordEvaluationAnalytics
<1>2. /\ Carries(r, q, {"analytics_records"})
      /\ q.analytics_records = Append(r.analytics_records,
                                      [task_id |-> 0, evaluation_id |-> e, retries |-> -1])
  BY <1>1, RecordEvaluationAnalyticsLegal, Zenon DEF Carries, IsKept
<1>3. q.tasks = r.tasks /\ q.status = r.status /\ q.evaluations = r.evaluations
  BY <1>2 DEF Carries, Ops!Keeps
<1>4. Steady(r, q) /\ JudgedDone(q)
  BY <1>3 DEF Steady, IsKept, JudgedDone, IsJudged, AllTasksSucceeded
<1>5. Accounted(q)
  <2>1. \E f : q.analytics_records
                 = Append(r.analytics_records,
                          [task_id |-> 0, evaluation_id |-> f, retries |-> -1])
    BY <1>2, Zenon
  <2>2. Sound(q) /\ Ops!Grows(r, q)
    BY <1>2 DEF Carries
  <2> QED
    BY <1>4, <2>1, <2>2, AccountedOn, Zenon
<1> QED
  BY <1>2, <1>3, <1>4, <1>5 DEF Advances, IsKept, Carries

(* The verdict is given.                                                   *)
LEMMA VerdictAdvances ==
  ASSUME NEW r, IsKept(r), r.status = "waiting_qa",
         NEW e \in DOMAIN r.evaluations, r.evaluations[e].status = "pending",
         NEW verdict \in EvaluationStatus \ {"pending"},
         NEW q, q = RecordEvaluation(r, e, verdict)
  PROVE  Advances(r, q)
<1>1. CanRecordEvaluation(r, e, verdict)
  BY DEF CanRecordEvaluation
<1>2. Carries(r, q, {"evaluations"})
  BY <1>1, RecordEvaluationLegal, Zenon DEF Carries, IsKept
<1>3. q.status = r.status
  BY <1>2 DEF Carries, Ops!Keeps
<1>4. "tasks" \notin {"evaluations"} /\ "analytics_records" \notin {"evaluations"}
  OBVIOUS
<1> QED
  BY <1>2, <1>3, <1>4, AdvancesBeside

(* What is judged: the latest Evaluation of the final candidate.           *)
LEMMA Judging ==
  ASSUME IInv, pc = "judging"
  PROVE  /\ IsKept(run) /\ run.status = "waiting_qa" /\ index \in Nat
         /\ LatestQa(run, Candidate) \in DOMAIN run.evaluations
         /\ run.evaluations[LatestQa(run, Candidate)].status = "pending"
         /\ run.evaluations[LatestQa(run, Candidate)].artifact_ref = FinalCandidate(run)
<1>1. IsKept(run) /\ run.status = "waiting_qa" /\ AwaitsVerdict(run) /\ index \in Nat
  BY RunIsKept DEF IInv, InControl
<1>2. LatestQa(run, Candidate) \in EvaluationsOf(run, Candidate)
  BY <1>1, Lookups DEF AwaitsVerdict, Candidate, IsKept
<1> QED
  BY <1>1, <1>2 DEF AwaitsVerdict, Candidate, EvaluationsOf

(* A verdict is given.                                                     *)
LEMMA VerdictGivenKeeps == ASSUME IInv, VerdictGiven PROVE IInv' /\ StoreStep
<1>1. PICK verdict \in EvaluationStatus \ {"pending"}, measured \in Measured :
        LET e == LatestQa(run, Candidate)
            r == IF measured THEN RecordEvaluationAnalytics(run, e) ELSE run
        IN  Commit(RecordEvaluation(r, e, verdict), "drive")
  BY DEF VerdictGiven
<1> DEFINE e == LatestQa(run, Candidate)
           r == IF measured THEN RecordEvaluationAnalytics(run, e) ELSE run
           q == RecordEvaluation(r, e, verdict)
<1>2. /\ q = RecordEvaluation(r, e, verdict) /\ Commit(q, "drive")
      /\ measured => r = RecordEvaluationAnalytics(run, e)
      /\ ~measured => r = run
  BY <1>1
<1>3. /\ pc = "judging" /\ index' = index /\ IsKept(run) /\ run.status = "waiting_qa"
      /\ index \in Nat /\ e \in DOMAIN run.evaluations
      /\ run.evaluations[e].status = "pending"
  BY Judging DEF VerdictGiven
<1> HIDE DEF e, r, q
<1>4. /\ Advances(run, r) /\ r.status = "waiting_qa" /\ r.evaluations = run.evaluations
  <2>1. CASE measured
    BY <1>2, <1>3, <2>1, MeasuredAdvances
  <2>2. CASE ~measured
    BY <1>2, <1>3, <2>2, AdvancesByNothing
  <2> QED
    BY <2>1, <2>2
<1>5. Advances(r, q)
  BY <1>2, <1>3, <1>4, VerdictAdvances DEF Advances
<1>6. Advances(run, q)
  BY <1>3, <1>4, <1>5, AdvancesTwice
<1>7. InControl("drive", q, plan, index') /\ index' \in Nat
  BY <1>3 DEF InControl
<1> QED
  BY <1>2, <1>3, <1>6, <1>7, Committed DEF Label

(* An evaluator fails, after calls or without one.                         *)
LEMMA EvaluatorFailsKeeps == ASSUME IInv, EvaluatorFails PROVE IInv' /\ StoreStep
<1> DEFINE m == RecordEvaluationAnalytics(run, LatestQa(run, Candidate))
<1>1. /\ pc = "judging"
      /\ CommitAndStop(run) \/ CommitAndStop(m)
  BY DEF EvaluatorFails
<1>2. Advances(run, m)
  BY <1>1, Judging, MeasuredAdvances
<1>3. Advances(run, run)
  BY <1>1, Judging, AdvancesByNothing
<1> HIDE DEF m
<1> QED
  BY <1>1, <1>2, <1>3, CommittedAndStopped

(* A passed candidate goes to its Review.                                  *)
LEMMA PassQaKeeps == ASSUME IInv, PassQa PROVE IInv' /\ StoreStep
<1> DEFINE p == MoveTo(run, "waiting_human")
<1>1. pc = "drive" /\ run.status = "waiting_qa" /\ IsKept(run) /\ index \in Nat
  BY RunIsKept DEF PassQa, AtQaGate, At, IInv
<1>2. \/ \E r \in ApprovalReviewOpened(p) : Commit(r, "drive") /\ UNCHANGED index
      \/ Refuse
  BY DEF PassQa
<1>3. Advances(run, p) /\ p.status = "waiting_human"
  BY <1>1, WaitingForHuman
<1> HIDE DEF p
<1>4. CASE Refuse
  BY <1>1, <1>4, Refused
<1>5. ASSUME NEW r \in ApprovalReviewOpened(p), Commit(r, "drive") /\ UNCHANGED index
      PROVE  IInv' /\ StoreStep
  <2>1. Advances(p, r)
    BY <1>3, ApprovalReviewAdvances DEF Advances
  <2>2. Advances(run, r)
    BY <1>1, <1>3, <2>1, AdvancesTwice
  <2>3. InControl("drive", r, plan, index') /\ index' \in Nat
    BY <1>1, <1>5 DEF InControl
  <2> QED
    BY <1>1, <1>5, <2>2, <2>3, Committed DEF Label
<1> QED
  BY <1>2, <1>4, <1>5

(* A candidate that did not pass goes to its Review.                       *)
LEMMA EscalateKeeps == ASSUME IInv, Escalate PROVE IInv' /\ StoreStep
<1> DEFINE p == MoveTo(run, "waiting_human")
<1>1. pc = "drive" /\ run.status = "waiting_qa" /\ IsKept(run)
  BY RunIsKept DEF Escalate, AtQaGate, At
<1>2. \/ \E r \in OpenReviewOn(p, Candidate) : CommitAndStop(r)
      \/ Refuse
  BY DEF Escalate
<1>3. Advances(run, p) /\ p.status = "waiting_human"
  BY <1>1, WaitingForHuman
<1> HIDE DEF p
<1>4. CASE Refuse
  BY <1>1, <1>4, Refused
<1>5. ASSUME NEW r \in OpenReviewOn(p, Candidate), CommitAndStop(r)
      PROVE  IInv' /\ StoreStep
  <2>1. Advances(p, r)
    BY <1>3, ReviewOpenedAdvances DEF Advances
  <2>2. Advances(run, r)
    BY <1>1, <1>3, <2>1, AdvancesTwice
  <2> QED
    BY <1>1, <1>5, <2>2, CommittedAndStopped
<1> QED
  BY <1>2, <1>4, <1>5

(* A Run without gates completes.                                          *)
LEMMA CompleteWithoutGateKeeps == ASSUME IInv, CompleteWithoutGate PROVE IInv' /\ StoreStep
<1>1. pc = "drive" /\ run.status = "waiting_human" /\ IsKept(run)
  BY RunIsKept DEF CompleteWithoutGate, AtHumanGate, At
<1>2. CASE CommitAndStop(MoveTo(run, "completed"))
  <2>1. AllTasksTerminal(run)
    BY <1>1
    DEF IsKept, JudgedDone, IsJudged, AllTasksSucceeded, AllTasksTerminal, IsTerminalTask,
        TerminalTaskStates
  <2>2. CanTransition(run, "completed")
    BY <1>1, <2>1 DEF CanTransition, AllowedTransitions, IsRework
  <2>3. Advances(run, MoveTo(run, "completed"))
    BY <1>1, <2>2, AdvancesMoving DEF MoveTo, RunStatus
  <2> QED
    BY <1>1, <1>2, <2>3, CommittedAndStopped
<1>3. CASE Return
  BY <1>3, Returned
<1> QED
  BY <1>2, <1>3 DEF CompleteWithoutGate

(* A Review that is missing is opened.                                     *)
LEMMA OpenMissingReviewKeeps == ASSUME IInv, OpenMissingReview PROVE IInv' /\ StoreStep
<1>1. pc = "drive" /\ run.status = "waiting_human" /\ IsKept(run)
  BY RunIsKept DEF OpenMissingReview, AtHumanGate, At
<1>2. CASE Refuse
  BY <1>1, <1>2, Refused
<1>3. ASSUME NEW r \in ApprovalReviewOpened(run), CommitAndStop(r)
      PROVE  IInv' /\ StoreStep
  BY <1>1, <1>3, ApprovalReviewAdvances, CommittedAndStopped
<1> QED
  BY <1>2, <1>3 DEF OpenMissingReview

(* A Run is released.                                                      *)
LEMMA ReleaseKeeps == ASSUME IInv, Release PROVE IInv' /\ StoreStep
<1> DEFINE isOpen == run.artifacts[Candidate].status = "candidate"
           p == IF isOpen THEN TransitionArtifact(run, Candidate, "approved") ELSE run
           q == MoveTo(p, "completed")
<1>1. pc = "drive" /\ run.status = "waiting_human" /\ IsKept(run)
  BY RunIsKept DEF Release, AtHumanGate, At
<1>2. CASE Refuse
  BY <1>1, <1>2, Refused
<1>3. CASE /\ isOpen => CanTransitionArtifact(run, Candidate, "approved")
           /\ CanTransition(p, "completed") /\ CommitAndStop(q)
  <2>1. Advances(run, p) /\ p.status = "waiting_human"
    <3>1. CASE ~isOpen
      BY <1>1, <3>1, AdvancesByNothing
    <3>2. CASE isOpen
      <4>1. p = TransitionArtifact(run, Candidate, "approved") /\ "approved" \in ArtifactStatus
        BY <3>2 DEF ArtifactStatus
      <4>2. CanTransitionArtifact(run, Candidate, "approved") /\ Sound(run)
        BY <1>1, <1>3, <3>2 DEF IsKept
      <4> HIDE DEF p, isOpen
      <4>3. Carries(run, p, {"artifacts"})
        BY <4>1, <4>2, TransitionArtifactLegal, Zenon DEF Carries
      <4>4. p.status = run.status
        BY <4>3 DEF Carries, Ops!Keeps
      <4>5. /\ "tasks" \notin {"artifacts"} /\ "analytics_records" \notin {"artifacts"}
            /\ "evaluations" \notin {"artifacts"}
            /\ run.status \notin {"completed", "failed"}
        BY <1>1
      <4> QED
        BY <1>1, <4>3, <4>4, <4>5, AdvancesBeside
    <3> QED
      BY <3>1, <3>2
  <2>2. CanTransition(p, "completed") /\ CommitAndStop(q) /\ q = MoveTo(p, "completed")
    BY <1>3
  <2> HIDE DEF isOpen, p, q
  <2>3. Advances(p, q)
    BY <2>1, <2>2, AdvancesMoving DEF MoveTo, RunStatus, Advances
  <2>4. Advances(run, q)
    BY <1>1, <2>1, <2>3, AdvancesTwice
  <2> QED
    BY <1>1, <2>2, <2>4, CommittedAndStopped
<1> QED
  BY <1>2, <1>3 DEF Release

(* The pending Review a waiting Run is asked about.                        *)
LEMMA PendingReviewFound ==
  ASSUME NEW r, IsKept(r), PendingReview(r) # 0
  PROVE  /\ r.status = "waiting_human" /\ PendingReview(r) \in DOMAIN r.human_reviews
         /\ r.human_reviews[PendingReview(r)].status = "pending"
<1> DEFINE S == {h \in DOMAIN r.human_reviews : r.human_reviews[h].status = "pending"}
<1>1. r.status = "waiting_human" /\ PendingReview(r) = Latest(S)
  BY DEF PendingReview
<1>2. S \in SUBSET (1..Len(r.human_reviews)) /\ Len(r.human_reviews) \in Nat
  BY DEF IsKept, Sound, Run
<1>3. \A h \in S : h \in DOMAIN r.human_reviews /\ r.human_reviews[h].status = "pending"
  OBVIOUS
<1> HIDE DEF S
<1>4. (Latest(S) = 0 <=> S = {}) /\ (S # {} => Latest(S) \in S)
  BY <1>2, LatestIsGreatest
<1> QED
  BY <1>1, <1>3, <1>4

(* A Review is decided.                                                    *)
LEMMA TakeReviewDecisionKeeps == ASSUME IInv, TakeReviewDecision PROVE IInv' /\ StoreStep
<1>1. /\ pc = "idle" /\ stored # NoRun /\ IsKept(stored) /\ PendingReview(stored) # 0
      /\ run' = run /\ pc' = pc /\ plan' = plan /\ index' = index
      /\ committed' = committed /\ qa_wired' = qa_wired
  BY DEF TakeReviewDecision, IInv
<1>2. PICK decision \in ReviewStatus \ {"pending"} :
        stored' = SubmitReview(stored, PendingReview(stored), decision)
  BY DEF TakeReviewDecision
<1>3. PICK q : q = stored'
  OBVIOUS
<1>4. Carries(stored, q, {"human_reviews"})
  <2>1. CanSubmitReview(stored, PendingReview(stored), decision)
    BY <1>1, PendingReviewFound DEF CanSubmitReview
  <2>2. q = SubmitReview(stored, PendingReview(stored), decision) /\ Sound(stored)
    BY <1>1, <1>2, <1>3 DEF IsKept
  <2> QED
    BY <2>1, <2>2, SubmitReviewLegal, Zenon DEF Carries
<1>5. Advances(stored, q)
  <2>1. q.status = stored.status
    BY <1>4 DEF Carries, Ops!Keeps
  <2>2. /\ "tasks" \notin {"human_reviews"} /\ "analytics_records" \notin {"human_reviews"}
        /\ "evaluations" \notin {"human_reviews"}
        /\ stored.status \notin {"completed", "failed"}
    BY <1>1, PendingReviewFound
  <2> QED
    BY <1>1, <1>4, <2>1, <2>2, AdvancesBeside
<1>6. IsKept(stored') /\ Advances(stored, stored')
  BY <1>3, <1>5 DEF Advances
<1>7. InControl(pc', run', plan', index')
  BY <1>1 DEF InControl
<1>8. IInv'
  BY <1>1, <1>6, <1>7 DEF IInv, MemoryIsStored
<1> QED
  BY <1>6, <1>8 DEF StoreStep

(* An invocation that only ends changes nothing.                           *)
LEMMA ReturnsKeep ==
  ASSUME IInv, Interrupt \/ LeaveUnjudgedRework \/ AwaitHuman \/ LeaveTerminal
  PROVE  IInv' /\ StoreStep
<1>1. Return
  BY DEF Interrupt, LeaveUnjudgedRework, AwaitHuman, LeaveTerminal
<1> QED
  BY <1>1, Returned

(* Every step keeps the invariant, and stores what advances the stored     *)
(* Run.                                                                    *)
LEMMA NextKeeps == ASSUME IInv, Next PROVE IInv' /\ StoreStep
<1>1. CASE StepsNext
  BY <1>1, EnterStepsKeeps, EndStepsKeeps, PassTerminalTaskKeeps, ResumeTaskKeeps,
     OpenStepKeeps, StepAnsweredKeeps DEF StepsNext
<1>2. CASE ReworkNext
  BY <1>2, BeginReworkKeeps, EnterReworkKeeps, OpenReworkKeeps, ResumeReworkKeeps,
     PassTerminalReworkKeeps, ReworkAnsweredKeeps DEF ReworkNext
<1>3. CASE GateNext
  BY <1>3, ReturnsKeep, PassWithoutQaKeeps, FailWithoutCandidateKeeps, OpenQaKeeps,
     AskQaAgainKeeps, VerdictGivenKeeps, PassQaKeeps, EscalateKeeps,
     CompleteWithoutGateKeeps, OpenMissingReviewKeeps, ReleaseKeeps DEF GateNext
<1>4. CASE Invoke \/ Interrupt \/ TakeReviewDecision \/ EvaluatorFails
  BY <1>4, InvokeKeeps, ReturnsKeep, TakeReviewDecisionKeeps, EvaluatorFailsKeeps
<1>5. CASE Queue \/ Start \/ Rule
  BY <1>5, QueueKeeps, StartKeeps, RuleKeeps
<1> QED
  BY <1>1, <1>2, <1>3, <1>4, <1>5 DEF Next, Advance

(* No step at all keeps the invariant.                                     *)
LEMMA StutteringKeeps == ASSUME IInv, UNCHANGED vars PROVE IInv' /\ StoreStep
<1>1. /\ stored' = stored /\ run' = run /\ pc' = pc /\ plan' = plan /\ index' = index
      /\ committed' = committed /\ qa_wired' = qa_wired
  BY DEF vars
<1>2. InControl(pc', run', plan', index')
  BY <1>1 DEF IInv
<1> QED
  BY <1>1, <1>2 DEF IInv, MemoryIsStored, StoreStep

(* The invariant holds of an empty store, and of a Run of older code.      *)
LEMMA InitKept == ASSUME Init PROVE IInv
<1>1. /\ stored \in InitialRuns /\ run = NoRun /\ pc = "idle" /\ plan = <<>> /\ index = 0
      /\ committed = FALSE /\ qa_wired \in BOOLEAN
  BY PlanAssumption DEF Init
<1>2. InControl(pc, run, plan, index)
  BY <1>1 DEF InControl
<1>3. stored # NoRun => IsKept(stored)
  BY <1>1, StoreAssumption
<1> QED
  BY <1>1, <1>2, <1>3 DEF IInv, MemoryIsStored, Label

(* The invariant behind the theorems below: after any crash at any point   *)
(* the store holds a Run that restores, its Tasks' attempts and measured   *)
(* calls counted, and an invocation works on what the store holds          *)
(* (content_director.py _commit).                                          *)
THEOREM StoreIsSound == Spec => []IInv
<1>1. Init => IInv
  BY InitKept
<1>2. IInv /\ [Next]_vars => IInv'
  BY NextKeeps, StutteringKeeps
<1> QED
  BY <1>1, <1>2, PTL DEF Spec

(* Every variable keeps its shape, and what the store holds is a Run.      *)
THEOREM DirectorTyped == Spec => []TypeOK
<1>1. IInv => TypeOK
  <2> SUFFICES ASSUME IInv PROVE TypeOK
    OBVIOUS
  <2>1. stored \in Run \cup {NoRun} /\ NewRun \in Run
    BY NewRunKept DEF IInv, IsKept, Sound
  <2>2. run \in Run \cup {NoRun}
    BY <2>1 DEF IInv, MemoryIsStored
  <2> QED
    BY <2>1, <2>2 DEF TypeOK, IInv
<1> QED
  BY <1>1, StoreIsSound, PTL

(* An executor or evaluator is only called once the store says so          *)
(* (content_director.py _run_steps, qa_evaluation.py evaluate_artifact).       *)
THEOREM CallsAnnounced == Spec => []CallsAreAnnounced
<1>1. IInv => CallsAreAnnounced
  <2> SUFFICES ASSUME IInv PROVE CallsAreAnnounced
    OBVIOUS
  <2>1. ASSUME pc = "executing"
        PROVE  IsStored /\ index \in DOMAIN stored.tasks
                 /\ stored.tasks[index].status = "running"
    BY <2>1, RunIsKept DEF IInv, InControl, IsStored
  <2>2. ASSUME pc = "judging"
        PROVE  IsStored /\ \E e \in DOMAIN stored.evaluations :
                 /\ stored.evaluations[e].status = "pending"
                 /\ stored.evaluations[e].artifact_ref = FinalCandidate(stored)
    <3>1. stored = run /\ IsStored
      BY <2>2, RunIsKept DEF IsStored
    <3> QED
      BY <2>2, <3>1, Judging
  <2> QED
    BY <2>1, <2>2 DEF CallsAreAnnounced
<1> QED
  BY <1>1, StoreIsSound, PTL

(* The calls of a Task are accounted to the attempt that ended it, and at  *)
(* most once (task_execution.py finish_task).                              *)
THEOREM CallsAccounted == Spec => []CallsAccountedOnce
<1>1. IInv => CallsAccountedOnce
  BY DEF IInv, IsKept, CallsAccountedOnce, IsStored
<1> QED
  BY <1>1, StoreIsSound, PTL

(* What the store holds restores: the half of AlwaysResumable that is      *)
(* about the snapshot (run.py restore).                                    *)
THEOREM StoreRestores == Spec => [](IsStored => IsRestorable(stored))
<1>1. IInv => (IsStored => IsRestorable(stored))
  BY DEF IInv, IsKept, Sound, IsStored, IsRestorable, JudgedDone, IsJudged, AllTasksSucceeded,
         AllTasksTerminal, IsTerminalTask, TerminalTaskStates
<1> QED
  BY <1>1, StoreIsSound, PTL

(* Committed work is never undone and never done again, and no verdict is  *)
(* given or asked for while a review is pending (content_director.py       *)
(* resume, review_decision.py).                                            *)
THEOREM CommittedWorkStands == Spec => CommittedWorkIsKept
<1>1. ASSUME NEW r, IsKept(r), NEW q, Advances(r, q)
      PROVE  KeepsWork(r, q)
  <2>1. q # NoRun /\ r.status \notin {"completed", "failed"}
    BY <1>1, StoreAssumption DEF Advances, IsKept, Sound
  <2>2. \A t \in DOMAIN r.tasks :
          /\ t \in DOMAIN q.tasks /\ q.tasks[t].task_input = r.tasks[t].task_input
          /\ IsTerminalTask(r.tasks[t]) => q.tasks[t] = r.tasks[t]
    BY <1>1 DEF Advances, Steady, Ops!Grows, Ops!TasksGrow
  <2>3. /\ \A a \in DOMAIN r.artifacts :
             a \in DOMAIN q.artifacts /\ q.artifacts[a].output_ref = r.artifacts[a].output_ref
        /\ \A h \in DOMAIN r.human_reviews :
             /\ h \in DOMAIN q.human_reviews
             /\ r.human_reviews[h].status # "pending" => q.human_reviews[h] = r.human_reviews[h]
        /\ \A e \in DOMAIN r.evaluations :
             /\ e \in DOMAIN q.evaluations
             /\ r.evaluations[e].status # "pending" => q.evaluations[e] = r.evaluations[e]
    BY <1>1 DEF Advances, Ops!Grows, Ops!ArtifactsGrow, Ops!ReviewsGrow, Ops!EvaluationsGrow
  <2>4. PendingReview(r) # 0 => q.evaluations = r.evaluations
    BY <1>1, PendingReviewFound DEF Advances
  <2> QED
    BY <2>1, <2>2, <2>3, <2>4 DEF KeepsWork
<1>2. ASSUME NEW r, r # NoRun
      PROVE  KeepsWork(r, r)
  BY <1>2 DEF KeepsWork
<1>3. IInv /\ [Next]_vars => [IsStored => KeepsWork(stored, stored')]_vars
  <2> SUFFICES ASSUME IInv, Next, IsStored PROVE KeepsWork(stored, stored')
    BY DEF vars
  <2>1. \/ stored' = stored
        \/ Advances(stored, stored') /\ IsKept(stored)
    BY NextKeeps DEF StoreStep, IsStored, IInv
  <2> QED
    BY <1>1, <1>2, <2>1 DEF IsStored
<1> QED
  BY <1>3, StoreIsSound, PTL DEF Spec, CommittedWorkIsKept

-----------------------------------------------------------------------------
(* Where the Artifacts of a sound Run are found.                           *)
LEMMA ArtifactPlaces ==
  ASSUME NEW r, Sound(r)
  PROVE  /\ Len(r.tasks) \in Nat /\ DOMAIN r.tasks = 1..Len(r.tasks)
         /\ r.rework_count \in Nat /\ r.status \in RunStatus
         /\ Len(r.human_reviews) \in Nat
         /\ DOMAIN r.human_reviews = 1..Len(r.human_reviews)
         /\ \A a \in DOMAIN r.artifacts :
              /\ a \in Nat \ {0}
              /\ r.artifacts[a].output_ref \in DOMAIN r.tasks
              /\ ArtifactOf(r, r.artifacts[a].output_ref) = a
              /\ r.artifacts[a].output_ref = Len(r.tasks) => FinalCandidate(r) = a
         /\ \A t : ArtifactOf(r, t) # 0 =>
              /\ ArtifactOf(r, t) \in DOMAIN r.artifacts
              /\ r.artifacts[ArtifactOf(r, t)].output_ref = t
         /\ FinalCandidate(r) # 0 =>
              /\ FinalCandidate(r) \in DOMAIN r.artifacts /\ Len(r.tasks) > 0
              /\ r.artifacts[FinalCandidate(r)].output_ref = Len(r.tasks)
              /\ FinalCandidate(r) = ArtifactOf(r, Len(r.tasks))
         /\ \A h \in DOMAIN r.human_reviews : r.human_reviews[h].artifact_ref \in DOMAIN r.artifacts
         /\ \A e \in DOMAIN r.evaluations : r.evaluations[e].artifact_ref \in DOMAIN r.artifacts
<1>1. /\ r.tasks \in Seq(Task) /\ r.artifacts \in Seq(Artifact)
      /\ r.human_reviews \in Seq(HumanReview) /\ r.status \in RunStatus
      /\ r.rework_count \in Nat
  BY LimitAssumption DEF Sound, Run
<1>2. /\ \A a \in DOMAIN r.artifacts :
           /\ HasOutput(r, r.artifacts[a].output_ref)
           /\ \A b \in DOMAIN r.artifacts :
                r.artifacts[a].output_ref = r.artifacts[b].output_ref => a = b
      /\ \A h \in DOMAIN r.human_reviews : r.human_reviews[h].artifact_ref \in DOMAIN r.artifacts
      /\ \A e \in DOMAIN r.evaluations : r.evaluations[e].artifact_ref \in DOMAIN r.artifacts
  BY DEF Sound, ChildrenRestorable, ReferencesRestorable
<1>3. \A t : /\ ArtifactOf(r, t) = 0 <=> ~IsOutputUsed(r, t)
             /\ ArtifactOf(r, t) # 0 => /\ ArtifactOf(r, t) \in DOMAIN r.artifacts
                                        /\ r.artifacts[ArtifactOf(r, t)].output_ref = t
  BY Lookups
<1>4. /\ Len(r.tasks) \in Nat /\ DOMAIN r.tasks = 1..Len(r.tasks)
      /\ Len(r.human_reviews) \in Nat /\ DOMAIN r.human_reviews = 1..Len(r.human_reviews)
      /\ \A a \in DOMAIN r.artifacts : a \in Nat \ {0}
  BY <1>1
<1>5. ASSUME NEW a \in DOMAIN r.artifacts
      PROVE  /\ r.artifacts[a].output_ref \in DOMAIN r.tasks
             /\ ArtifactOf(r, r.artifacts[a].output_ref) = a
             /\ r.artifacts[a].output_ref = Len(r.tasks) => FinalCandidate(r) = a
  <2>1. HasOutput(r, r.artifacts[a].output_ref)
    BY <1>2
  <2>2. r.artifacts[a].output_ref \in DOMAIN r.tasks
    BY <2>1 DEF HasOutput
  <2>3. ArtifactOf(r, r.artifacts[a].output_ref) # 0
    BY <1>3 DEF IsOutputUsed
  <2>4. ArtifactOf(r, r.artifacts[a].output_ref) = a
    BY <1>2, <1>3, <2>3
  <2>5. r.tasks # <<>>
    BY <1>1, <2>2
  <2> QED
    BY <2>1, <2>2, <2>4, <2>5 DEF FinalCandidate
<1>6. FinalCandidate(r) # 0 =>
        /\ FinalCandidate(r) \in DOMAIN r.artifacts /\ Len(r.tasks) > 0
        /\ r.artifacts[FinalCandidate(r)].output_ref = Len(r.tasks)
        /\ FinalCandidate(r) = ArtifactOf(r, Len(r.tasks))
  <2> SUFFICES ASSUME FinalCandidate(r) # 0
               PROVE  /\ FinalCandidate(r) \in DOMAIN r.artifacts /\ Len(r.tasks) > 0
                      /\ r.artifacts[FinalCandidate(r)].output_ref = Len(r.tasks)
                      /\ FinalCandidate(r) = ArtifactOf(r, Len(r.tasks))
    OBVIOUS
  <2>1. r.tasks # <<>> /\ FinalCandidate(r) = ArtifactOf(r, Len(r.tasks))
    BY DEF FinalCandidate
  <2> QED
    BY <1>1, <1>3, <2>1
<1> QED
  BY <1>1, <1>2, <1>3, <1>4, <1>5, <1>6

(* The one candidate is the live one.                                      *)
LEMMA TheLiveCandidate ==
  ASSUME NEW r, Sound(r), ArtifactsInOrder(r)
  PROVE  /\ \A a : IsCandidate(r, a) => LiveCandidate(r) = a
         /\ LiveCandidate(r) # 0 => IsCandidate(r, LiveCandidate(r))
         /\ HasCandidate(r) <=> LiveCandidate(r) # 0
<1>1. /\ LiveCandidate(r) # 0 => IsCandidate(r, LiveCandidate(r))
      /\ \A a \in DOMAIN r.artifacts : IsCandidate(r, a) => LiveCandidate(r) # 0
  BY Lookups
<1>2. \A a : IsCandidate(r, a) => a \in DOMAIN r.artifacts
  BY DEF IsCandidate
<1>3. \A a, b \in DOMAIN r.artifacts : IsCandidate(r, a) /\ IsCandidate(r, b) => a = b
  BY DEF ArtifactsInOrder
<1> QED
  BY <1>1, <1>2, <1>3, Zenon DEF HasCandidate

(* The lookups read the children only.                                     *)
LEMMA LookupsKept ==
  ASSUME NEW r, NEW q, q.tasks = r.tasks, q.artifacts = r.artifacts
  PROVE  /\ FinalCandidate(q) = FinalCandidate(r) /\ LiveCandidate(q) = LiveCandidate(r)
         /\ HasCandidate(q) = HasCandidate(r)
         /\ \A a : ArtifactOf(q, a) = ArtifactOf(r, a) /\ IsCandidate(q, a) = IsCandidate(r, a)
BY DEF FinalCandidate, HasOutput, LiveCandidate, HasCandidate, IsCandidate, ArtifactOf

(* Who judged what is read from the Human Reviews and the Evaluations      *)
(* only.                                                                   *)
LEMMA JudgementsKept ==
  ASSUME NEW r, NEW q, q.human_reviews = r.human_reviews, q.evaluations = r.evaluations
  PROVE  \A a : /\ ReviewsOf(q, a) = ReviewsOf(r, a) /\ EvaluationsOf(q, a) = EvaluationsOf(r, a)
                /\ LatestReview(q, a) = LatestReview(r, a) /\ LatestQa(q, a) = LatestQa(r, a)
                /\ q.artifacts = r.artifacts => IsFresh(q, a) = IsFresh(r, a)
BY DEF ReviewsOf, EvaluationsOf, LatestReview, LatestQa, IsFresh

(* A plan a Run follows it follows whatever happens to the Run but a new   *)
(* Task.                                                                   *)
LEMMA MatchesKept ==
  ASSUME NEW r, Sound(r), NEW p \in Plans, Matches(r, p), NEW q,
         q.rework_count \in Nat, q.rework_count >= r.rework_count,
         DOMAIN q.tasks = DOMAIN r.tasks, Len(q.tasks) = Len(r.tasks),
         \A t \in DOMAIN r.tasks : q.tasks[t].step = r.tasks[t].step
  PROVE  Matches(q, p)
<1>1. Len(p) \in Nat /\ Len(r.tasks) \in Nat /\ r.rework_count \in Nat
  BY ArtifactPlaces, PlanPositions
<1>2. Len(q.tasks) <= Len(p) + q.rework_count
  BY <1>1 DEF Matches
<1> QED
  BY <1>2 DEF Matches

(* Two plans which the Tasks of a Run cover and follow are equally long:   *)
(* no plan has a step twice.                                               *)
LEMMA PlansAgree ==
  ASSUME NEW r, NEW p \in Plans, NEW s \in Plans, Sound(r), Matches(r, p), Matches(r, s),
         Len(p) <= Len(r.tasks), Len(s) <= Len(r.tasks)
  PROVE  Len(p) = Len(s)
<1>1. ASSUME NEW u \in Plans, NEW w \in Plans, Matches(r, u), Matches(r, w),
             Len(w) <= Len(r.tasks), Len(u) < Len(w)
      PROVE  FALSE
  <2>1. /\ Len(u) \in Nat \ {0} /\ Len(w) \in Nat /\ DOMAIN w = 1..Len(w)
        /\ DOMAIN r.tasks = 1..Len(r.tasks) /\ Len(r.tasks) \in Nat
    BY ArtifactPlaces, PlanPositions
  <2> DEFINE i == Len(u)
             j == Len(u) + 1
  <2>2. i \in DOMAIN w /\ j \in DOMAIN w /\ i \in DOMAIN r.tasks /\ j \in DOMAIN r.tasks
        /\ i # j /\ ~(j <= Len(u)) /\ i <= Len(w) /\ j <= Len(w)
    BY <1>1, <2>1
  <2>3. r.tasks[i].step = u[Len(u)] /\ r.tasks[j].step = u[Len(u)]
    BY <1>1, <2>2 DEF Matches
  <2>4. r.tasks[i].step = w[i] /\ r.tasks[j].step = w[j]
    BY <1>1, <2>2 DEF Matches
  <2>5. \A k, l \in DOMAIN w : w[k] = w[l] => k = l
    BY PlanAssumption
  <2> HIDE DEF i, j
  <2> QED
    BY <2>2, <2>3, <2>4, <2>5
<1>2. Len(p) \in Nat /\ Len(s) \in Nat
  BY PlanPositions
<1> QED
  BY <1>1, <1>2

-----------------------------------------------------------------------------
(* Runs that stay in order: the moves of their status.                     *)

(* A Run in which only Evaluations get their verdict or calls are measured.*)
LEMMA OrderedAlike ==
  ASSUME NEW r, IsOrdered(r), NEW q, q.status = r.status, q.rework_count = r.rework_count,
         q.tasks = r.tasks, q.artifacts = r.artifacts, q.human_reviews = r.human_reviews,
         q.evaluations = <<>> <=> r.evaluations = <<>>,
         \A a : EvaluationsOf(q, a) = EvaluationsOf(r, a)
  PROVE  IsOrdered(q)
<1>1. /\ FinalCandidate(q) = FinalCandidate(r) /\ LiveCandidate(q) = LiveCandidate(r)
      /\ HasCandidate(q) = HasCandidate(r)
      /\ \A a : ArtifactOf(q, a) = ArtifactOf(r, a) /\ IsCandidate(q, a) = IsCandidate(r, a)
  BY LookupsKept
<1>2. \A a : /\ ReviewsOf(q, a) = ReviewsOf(r, a) /\ IsFresh(q, a) = IsFresh(r, a)
             /\ LatestReview(q, a) = LatestReview(r, a)
  BY DEF ReviewsOf, LatestReview, IsFresh
<1>3. HasReworkSource(q) = HasReworkSource(r) /\ IsJudged(q) = IsJudged(r)
  BY <1>1, <1>2 DEF HasReworkSource, IsReviewOf, IsJudged
<1>4. TasksInOrder(q)
  BY <1>3 DEF IsOrdered, TasksInOrder
<1>5. ArtifactsInOrder(q)
  BY <1>1, <1>3 DEF IsOrdered, ArtifactsInOrder
<1>6. CandidateInOrder(q) /\ ReviewsInOrder(q)
  BY <1>1, <1>2 DEF IsOrdered, CandidateInOrder, ReviewsInOrder
<1>7. Planned(q)
  <2>1. PICK p \in Plans : /\ Matches(r, p)
                           /\ IsJudged(r) => Len(r.tasks) = Len(p) + r.rework_count
                           /\ InRework(r) => ReworkInOrder(r, Len(p))
    BY DEF IsOrdered, Planned
  <2>2. Matches(q, p) /\ InRework(q) = InRework(r)
    BY <2>1 DEF Matches, InRework
  <2>3. ReworkInOrder(r, Len(p)) => ReworkInOrder(q, Len(p))
    BY <1>1, <1>2, <1>3 DEF ReworkInOrder
  <2> QED
    BY <1>3, <2>1, <2>2, <2>3 DEF Planned
<1>8. ReworksAnswer(q)
  BY DEF IsOrdered, ReworksAnswer
<1> QED
  BY <1>4, <1>5, <1>6, <1>7, <1>8 DEF IsOrdered

(* What the Runs have in common that differ in their status only.          *)
SameBut(r, q) ==
  /\ q.tasks = r.tasks /\ q.artifacts = r.artifacts
  /\ q.human_reviews = r.human_reviews /\ q.evaluations = r.evaluations

(* What a status does not change.                                          *)
LEMMA SameLookups ==
  ASSUME NEW r, NEW q, SameBut(r, q)
  PROVE  /\ FinalCandidate(q) = FinalCandidate(r) /\ LiveCandidate(q) = LiveCandidate(r)
         /\ HasCandidate(q) = HasCandidate(r) /\ HasReworkSource(q) = HasReworkSource(r)
         /\ \A a : /\ ArtifactOf(q, a) = ArtifactOf(r, a) /\ IsCandidate(q, a) = IsCandidate(r, a)
                   /\ ReviewsOf(q, a) = ReviewsOf(r, a) /\ IsFresh(q, a) = IsFresh(r, a)
                   /\ EvaluationsOf(q, a) = EvaluationsOf(r, a)
                   /\ LatestReview(q, a) = LatestReview(r, a)
         /\ ReworksAnswer(q) = ReworksAnswer(r)
         /\ \A n : q.rework_count = r.rework_count => ReworkInOrder(q, n) = ReworkInOrder(r, n)
<1>1. /\ FinalCandidate(q) = FinalCandidate(r) /\ LiveCandidate(q) = LiveCandidate(r)
      /\ HasCandidate(q) = HasCandidate(r)
      /\ \A a : ArtifactOf(q, a) = ArtifactOf(r, a) /\ IsCandidate(q, a) = IsCandidate(r, a)
  BY LookupsKept DEF SameBut
<1>2. \A a : /\ ReviewsOf(q, a) = ReviewsOf(r, a) /\ IsFresh(q, a) = IsFresh(r, a)
             /\ EvaluationsOf(q, a) = EvaluationsOf(r, a)
             /\ LatestReview(q, a) = LatestReview(r, a)
  BY JudgementsKept DEF SameBut
<1>3. HasReworkSource(q) = HasReworkSource(r)
  BY ReworkSourceKept DEF SameBut
<1>4. ReworksAnswer(q) = ReworksAnswer(r)
  BY DEF ReworksAnswer, SameBut
<1>5. \A n : q.rework_count = r.rework_count => ReworkInOrder(q, n) = ReworkInOrder(r, n)
  BY <1>1, <1>2, <1>3 DEF ReworkInOrder, SameBut
<1> QED
  BY <1>1, <1>2, <1>3, <1>4, <1>5

(* No Review of r waits for its decision.                                  *)
NonePending(r) == \A h \in DOMAIN r.human_reviews : r.human_reviews[h].status # "pending"

(* A Run fails as it is.                                                   *)
LEMMA FailedOrdered ==
  ASSUME NEW r, Sound(r), IsOrdered(r), NonePending(r), r.status # "completed",
         NEW q, SameBut(r, q), q.status = "failed", q.rework_count = r.rework_count
  PROVE  IsOrdered(q)
<1>1. ~IsJudged(q) /\ ~InRework(q)
  BY DEF IsJudged, InRework
<1>2. TasksInOrder(q)
  BY <1>1 DEF IsOrdered, TasksInOrder, SameBut
<1>3. \A a : IsCandidate(q, a) = IsCandidate(r, a)
  BY SameLookups
<1>4. ArtifactsInOrder(q)
  BY <1>1, <1>3 DEF IsOrdered, ArtifactsInOrder, SameBut
<1>5. CandidateInOrder(q) /\ ReviewsInOrder(q)
  BY DEF CandidateInOrder, ReviewsInOrder, NonePending, SameBut
<1>6. PICK p \in Plans : Matches(r, p)
  BY DEF IsOrdered, Planned
<1>7. Matches(q, p)
  BY <1>6 DEF Matches, SameBut
<1>8. Planned(q)
  BY <1>1, <1>7 DEF Planned
<1>9. ReworksAnswer(q)
  BY SameLookups DEF IsOrdered
<1> QED
  BY <1>2, <1>4, <1>5, <1>8, <1>9 DEF IsOrdered

(* A Run before its Tasks: created, queued, started.                       *)
LEMMA BeginningOrdered ==
  ASSUME NEW r, Sound(r), IsOrdered(r), r.status \in {"created", "queued"},
         NEW q, SameBut(r, q), q.status \in {"queued", "running"},
         q.rework_count = r.rework_count
  PROVE  IsOrdered(q)
<1>1. ~IsJudged(q) /\ ~IsJudged(r) /\ ~InRework(q) /\ r.rework_count = 0 /\ r.tasks = <<>>
      /\ r.status \in {"created", "queued", "running"}
  BY DEF IsJudged, InRework, IsOrdered, TasksInOrder
<1>2. TasksInOrder(q)
  BY <1>1 DEF IsOrdered, TasksInOrder, SameBut
<1>3. \A a : IsCandidate(q, a) = IsCandidate(r, a)
  BY SameLookups
<1>4. ArtifactsInOrder(q)
  BY <1>1, <1>3 DEF IsOrdered, ArtifactsInOrder, SameBut
<1>5. r.human_reviews = <<>>
  BY <1>1 DEF IsOrdered, ArtifactsInOrder
<1>6. CandidateInOrder(q) /\ ReviewsInOrder(q)
  BY <1>5 DEF CandidateInOrder, ReviewsInOrder, SameBut
<1>7. PICK p \in Plans : Matches(r, p)
  BY DEF IsOrdered, Planned
<1>8. Matches(q, p)
  BY <1>7 DEF Matches, SameBut
<1>9. Planned(q)
  BY <1>1, <1>8 DEF Planned
<1>10. ReworksAnswer(q)
  BY SameLookups DEF IsOrdered
<1> QED
  BY <1>2, <1>4, <1>6, <1>9, <1>10 DEF IsOrdered

(* A Run at the end of its Tasks is passed on to QA.                       *)
LEMMA PassedToQaOrdered ==
  ASSUME NEW r, Sound(r), IsOrdered(r), r.status = "running",
         NEW p \in Plans, KnowsPlan("ruling", r, p, 0),
         \A t \in DOMAIN r.tasks : IsGood(r.tasks[t]),
         r.rework_count > 0 => r.tasks[Len(p) + r.rework_count].output = "valid",
         NEW q, SameBut(r, q), q.status = "waiting_qa", q.rework_count = r.rework_count
  PROVE  IsOrdered(q)
<1> DEFINE last == Len(p) + r.rework_count
<1>1. /\ Matches(r, p) /\ Len(r.tasks) = last
      /\ r.rework_count > 0 => ReworkInOrder(r, Len(p)) /\ ArtifactOf(r, last) # 0
  BY DEF KnowsPlan
<1>2. /\ last \in Nat /\ IsJudged(q) /\ ~InRework(q) /\ q.status \notin {"created", "queued"}
      /\ r.rework_count \in Nat
  BY <1>1, ArtifactPlaces DEF IsJudged, InRework
<1>3. r.rework_count > 0 => /\ ~HasCandidate(r) /\ IsFresh(r, ArtifactOf(r, last))
  BY <1>1 DEF ReworkInOrder
<1>4. r.rework_count = 0 =>
        /\ \A a \in DOMAIN r.artifacts : r.artifacts[a].status = "draft"
        /\ r.human_reviews = <<>> /\ r.evaluations = <<>>
  BY DEF IsOrdered, ArtifactsInOrder
<1>5. \A a : IsCandidate(q, a) = IsCandidate(r, a)
  BY SameLookups
<1>6. \A a : ~IsCandidate(q, a)
  BY <1>2, <1>3, <1>4, <1>5 DEF HasCandidate, IsCandidate
<1> HIDE DEF last
<1>7. TasksInOrder(q)
  <2>1. \A t \in DOMAIN q.tasks : IsGood(q.tasks[t])
    BY DEF SameBut
  <2>2. /\ \A t \in DOMAIN r.tasks :
             /\ r.tasks[t].task_input.from = "output" =>
                  LET source == r.tasks[t].task_input.ref
                  IN  source < t /\ source \in DOMAIN r.tasks
                        /\ r.tasks[source].output = "valid"
             /\ r.rework_count = 0 => r.tasks[t].task_input.from # "rework"
    BY DEF IsOrdered, TasksInOrder
  <2>3. q.tasks = r.tasks
    BY DEF SameBut
  <2> QED
    BY <1>2, <2>1, <2>2, <2>3 DEF TasksInOrder
<1>8. ArtifactsInOrder(q)
  <2>1. \A a \in DOMAIN r.artifacts :
          /\ r.tasks[r.artifacts[a].output_ref].output = "valid"
          /\ r.artifacts[a].status \in {"draft", "candidate", "superseded"}
    BY DEF IsOrdered, ArtifactsInOrder
  <2> QED
    BY <1>4, <1>6, <2>1 DEF ArtifactsInOrder, SameBut
<1>9. CandidateInOrder(q)
  <2> SUFFICES ASSUME FinalCandidate(r) # 0
               PROVE  IsFresh(r, FinalCandidate(r))
    BY SameLookups DEF CandidateInOrder, IsFresh
  <2>1. FinalCandidate(r) = ArtifactOf(r, last) /\ FinalCandidate(r) \in DOMAIN r.artifacts
    BY <1>1, ArtifactPlaces
  <2>2. CASE r.rework_count > 0
    BY <1>3, <2>1, <2>2
  <2>3. CASE r.rework_count = 0
    BY <1>4, <2>1, <2>3 DEF IsFresh, EvaluationsOf, ReviewsOf
  <2> QED
    BY <1>2, <2>2, <2>3
<1>10. ReviewsInOrder(q)
  BY DEF IsOrdered, ReviewsInOrder, SameBut
<1>11. Matches(q, p)
  BY <1>1 DEF Matches, SameBut
<1>12. Planned(q)
  BY <1>1, <1>2, <1>11 DEF Planned, SameBut, last
<1>13. ReworksAnswer(q)
  BY SameLookups DEF IsOrdered
<1> QED
  BY <1>7, <1>8, <1>9, <1>10, <1>12, <1>13 DEF IsOrdered

(* A Run QA is done with waits for a human.                                *)
LEMMA PassedToHumanOrdered ==
  ASSUME NEW r, Sound(r), IsOrdered(r), r.status = "waiting_qa",
         r.rework_count = 0 \/ FinalCandidate(r) = 0 \/ ~IsFresh(r, FinalCandidate(r)),
         NEW q, SameBut(r, q), q.status = "waiting_human", q.rework_count = r.rework_count
  PROVE  IsOrdered(q)
<1>1. IsJudged(q) /\ IsJudged(r) /\ ~InRework(q)
  BY DEF IsJudged, InRework
<1>2. TasksInOrder(q)
  BY <1>1 DEF IsOrdered, TasksInOrder, SameBut
<1>3. /\ \A a : IsCandidate(q, a) = IsCandidate(r, a) /\ IsFresh(q, a) = IsFresh(r, a)
      /\ FinalCandidate(q) = FinalCandidate(r)
  BY SameLookups
<1>4. ArtifactsInOrder(q)
  BY <1>1, <1>3 DEF IsOrdered, ArtifactsInOrder, SameBut
<1>5. r.rework_count = 0 => r.human_reviews = <<>>
  BY DEF IsOrdered, ArtifactsInOrder
<1>6. CandidateInOrder(q)
  BY <1>3, <1>5 DEF IsOrdered, CandidateInOrder, SameBut
<1>7. ReviewsInOrder(q)
  BY DEF IsOrdered, ReviewsInOrder, SameBut
<1>8. PICK p \in Plans : Matches(r, p) /\ Len(r.tasks) = Len(p) + r.rework_count
  BY <1>1 DEF IsOrdered, Planned
<1>9. Matches(q, p)
  BY <1>8 DEF Matches, SameBut
<1>10. Planned(q)
  BY <1>1, <1>8, <1>9 DEF Planned, SameBut
<1>11. ReworksAnswer(q)
  BY SameLookups DEF IsOrdered
<1> QED
  BY <1>2, <1>4, <1>6, <1>7, <1>10, <1>11 DEF IsOrdered

(* The Review a rework answers is the last of all, and decided.            *)
LEMMA ReviewedCandidate ==
  ASSUME NEW r, Sound(r), IsOrdered(r), r.status = "waiting_human", FinalCandidate(r) # 0,
         LatestReview(r, FinalCandidate(r)) # 0
  PROVE  /\ IsCandidate(r, FinalCandidate(r)) /\ LiveCandidate(r) = FinalCandidate(r)
         /\ r.human_reviews[LatestReview(r, FinalCandidate(r))].status # "pending"
              => NonePending(r)
<1> DEFINE a == FinalCandidate(r)
           h == LatestReview(r, FinalCandidate(r))
<1>1. h \in ReviewsOf(r, a) /\ \A g \in ReviewsOf(r, a) : g <= h
  BY Lookups
<1>2. ~IsFresh(r, a)
  BY <1>1 DEF IsFresh
<1>3. IsCandidate(r, a)
  BY <1>2 DEF IsOrdered, CandidateInOrder
<1>4. LiveCandidate(r) = a
  BY <1>3, TheLiveCandidate DEF IsOrdered
<1>5. ASSUME NEW g \in DOMAIN r.human_reviews, r.human_reviews[g].status = "pending"
      PROVE  g = h
  <2>1. g = Len(r.human_reviews) /\ r.human_reviews[g].artifact_ref = a
    BY <1>5 DEF IsOrdered, ReviewsInOrder
  <2>2. g <= h
    BY <1>1, <2>1 DEF ReviewsOf
  <2>3. h \in DOMAIN r.human_reviews
    BY <1>1 DEF ReviewsOf
  <2> QED
    BY <2>1, <2>2, <2>3, ArtifactPlaces
<1> QED
  BY <1>3, <1>4, <1>5 DEF NonePending

(* A rework begins.                                                        *)
LEMMA ReworkBegunOrdered ==
  ASSUME NEW r, Sound(r), IsOrdered(r), ReworkRequested(r),
         NEW q, SameBut(r, q), q.status = "running", q.rework_count = r.rework_count + 1
  PROVE  IsOrdered(q) /\ NonePending(r)
<1> DEFINE a == FinalCandidate(r)
<1>1. /\ r.status = "waiting_human" /\ a # 0 /\ LatestReview(r, a) # 0
      /\ r.human_reviews[LatestReview(r, a)].status \in ReworkDecisions
  BY DEF ReworkRequested, IsReviewOf
<1>2. IsCandidate(r, a) /\ LiveCandidate(r) = a /\ NonePending(r)
  BY <1>1, ReviewedCandidate DEF ReworkDecisions
<1>3. IsJudged(r) /\ ~IsJudged(q) /\ r.rework_count \in Nat /\ q.rework_count > 0
  BY <1>1, ArtifactPlaces DEF IsJudged
<1>4. TasksInOrder(q)
  BY <1>3 DEF IsOrdered, TasksInOrder, SameBut
<1>5. ArtifactsInOrder(q)
  <2>1. \A b : IsCandidate(q, b) = IsCandidate(r, b)
    BY SameLookups
  <2> QED
    BY <1>1, <1>3, <2>1 DEF IsOrdered, ArtifactsInOrder, SameBut
<1>6. CandidateInOrder(q) /\ ReviewsInOrder(q)
  BY <1>2 DEF CandidateInOrder, ReviewsInOrder, NonePending, SameBut
<1>7. PICK p \in Plans : Matches(r, p) /\ Len(r.tasks) = Len(p) + r.rework_count
  BY <1>3 DEF IsOrdered, Planned
<1>8. Len(p) \in Nat \ {0} /\ Len(r.tasks) \in Nat /\ DOMAIN r.tasks = 1..Len(r.tasks)
  BY PlanPositions, ArtifactPlaces
<1>9. Matches(q, p)
  BY <1>3, <1>7, <1>8 DEF Matches, SameBut
<1>10. ReworkInOrder(q, Len(p))
  <2> DEFINE last == Len(p) + q.rework_count
  <2>1. last = Len(r.tasks) + 1 /\ Len(q.tasks) = Len(r.tasks) /\ last \in Nat
    BY <1>3, <1>7, <1>8 DEF SameBut
  <2>2. ArtifactOf(r, last) = 0
    <3>1. ~(last \in DOMAIN r.tasks) /\ (last # 0)
      BY <1>8, <2>1
    <3> QED
      BY <3>1, ArtifactPlaces
  <2>3. \A t \in DOMAIN q.tasks : IsGood(q.tasks[t])
    BY <1>3 DEF IsOrdered, TasksInOrder, SameBut
  <2>4. HasReworkSource(q) /\ LiveCandidate(q) = a /\ ArtifactOf(q, last) = 0
    BY <1>1, <1>2, <2>2, SameLookups DEF HasReworkSource, IsReviewOf
  <2>5. q.artifacts[a].output_ref = last - 1
    <3>1. r.artifacts[a].output_ref = Len(r.tasks)
      BY <1>1, ArtifactPlaces
    <3> QED
      BY <1>8, <2>1, <3>1 DEF SameBut
  <2>6. Len(q.tasks) = last - 1 /\ Len(q.tasks) # last
    BY <1>8, <2>1, SMTT(20)
  <2> HIDE DEF last, a
  <2> QED
    BY <2>3, <2>4, <2>5, <2>6 DEF ReworkInOrder, last
<1>11. Planned(q)
  BY <1>3, <1>9, <1>10 DEF Planned
<1>12. ReworksAnswer(q)
  BY SameLookups DEF IsOrdered
<1> QED
  BY <1>2, <1>4, <1>5, <1>6, <1>11, <1>12 DEF IsOrdered

(* A Run completes, whether or not its candidate a is approved with it.    *)
LEMMA CompletedOrdered ==
  ASSUME NEW r, Sound(r), IsOrdered(r), r.status = "waiting_human", NonePending(r),
         NEW q, q.status = "completed", q.rework_count = r.rework_count, q.tasks = r.tasks,
         q.human_reviews = r.human_reviews, q.evaluations = r.evaluations,
         NEW a, IsCandidate(r, a) \/ q.artifacts = r.artifacts,
         DOMAIN q.artifacts = DOMAIN r.artifacts,
         \A b \in DOMAIN r.artifacts \ {a} : q.artifacts[b] = r.artifacts[b],
         a \in DOMAIN r.artifacts =>
           /\ q.artifacts[a].output_ref = r.artifacts[a].output_ref
           /\ q.artifacts[a].supersedes_ref = r.artifacts[a].supersedes_ref
           /\ q.artifacts[a].status \in {"approved", r.artifacts[a].status}
  PROVE  IsOrdered(q)
<1>1. IsJudged(q) /\ IsJudged(r) /\ ~InRework(q)
  BY DEF IsJudged, InRework
<1>2. TasksInOrder(q)
  BY <1>1 DEF IsOrdered, TasksInOrder
<1>3. \A b \in DOMAIN r.artifacts :
        /\ q.artifacts[b].output_ref = r.artifacts[b].output_ref
        /\ q.artifacts[b].supersedes_ref = r.artifacts[b].supersedes_ref
        /\ q.artifacts[b].status \in {"approved", r.artifacts[b].status}
        /\ r.artifacts[b].status = "superseded" => q.artifacts[b].status = "superseded"
  BY DEF IsCandidate
<1>4. \A b : IsCandidate(q, b) => IsCandidate(r, b)
  BY <1>3 DEF IsCandidate
<1>5. ArtifactsInOrder(q)
  BY <1>1, <1>3, <1>4 DEF IsOrdered, ArtifactsInOrder
<1>6. CandidateInOrder(q) /\ ReviewsInOrder(q)
  BY DEF CandidateInOrder, ReviewsInOrder, NonePending
<1>7. PICK p \in Plans : Matches(r, p) /\ Len(r.tasks) = Len(p) + r.rework_count
  BY <1>1 DEF IsOrdered, Planned
<1>8. Matches(q, p)
  BY <1>7 DEF Matches
<1>9. Planned(q)
  BY <1>1, <1>7, <1>8 DEF Planned
<1>10. ReworksAnswer(q)
  BY <1>3 DEF IsOrdered, ReworksAnswer
<1> QED
  BY <1>2, <1>5, <1>6, <1>9, <1>10 DEF IsOrdered

-----------------------------------------------------------------------------
(* Runs that stay in order: their Tasks.                                   *)

(* A Run at work on its plan, without a rework.                            *)
IsAtPlan(r) ==
  /\ r.status = "running" /\ r.rework_count = 0
  /\ r.human_reviews = <<>> /\ r.evaluations = <<>>
  /\ \A a \in DOMAIN r.artifacts :
       /\ r.tasks[r.artifacts[a].output_ref].output = "valid"
       /\ r.artifacts[a].status = "draft"

(* Such a Run is in order when its Tasks are.                              *)
LEMMA AtPlanOrdered ==
  ASSUME NEW r, Sound(r), IsAtPlan(r), TasksInOrder(r), NEW p \in Plans, Matches(r, p)
  PROVE  IsOrdered(r)
<1>1. ~IsJudged(r) /\ ~InRework(r)
  BY DEF IsJudged, InRework, IsAtPlan
<1>2. ArtifactsInOrder(r)
  BY <1>1 DEF ArtifactsInOrder, IsAtPlan, IsCandidate
<1>3. CandidateInOrder(r) /\ ReviewsInOrder(r)
  BY DEF CandidateInOrder, ReviewsInOrder, IsAtPlan
<1>4. Planned(r)
  BY <1>1 DEF Planned
<1>5. ReworksAnswer(r)
  BY DEF ReworksAnswer, TasksInOrder, IsAtPlan
<1> QED
  BY <1>2, <1>3, <1>4, <1>5 DEF IsOrdered

(* Every Run in order at this place is such a Run.                         *)
LEMMA OrderedAtPlan ==
  ASSUME NEW r, IsOrdered(r), r.status = "running", r.rework_count = 0
  PROVE  IsAtPlan(r) /\ TasksInOrder(r)
BY DEF IsOrdered, IsAtPlan, ArtifactsInOrder

(* A new Task, with an input from a valid Output, after good ones.         *)
LEMMA StartedTasksOrdered ==
  ASSUME NEW r, Sound(r), TasksInOrder(r), r.status = "running",
         \A t \in DOMAIN r.tasks : IsGood(r.tasks[t]),
         NEW q, Sound(q), q.status = "running", q.rework_count = r.rework_count,
         Len(q.tasks) = Len(r.tasks) + 1,
         \A t \in DOMAIN r.tasks : q.tasks[t] = r.tasks[t],
         LET input == q.tasks[Len(q.tasks)].task_input
         IN  /\ input.from = "output" =>
                  input.ref \in DOMAIN r.tasks /\ r.tasks[input.ref].output = "valid"
             /\ r.rework_count = 0 => input.from # "rework"
  PROVE  TasksInOrder(q)
<1>1. /\ Len(r.tasks) \in Nat /\ DOMAIN r.tasks = 1..Len(r.tasks)
      /\ DOMAIN q.tasks = 1..Len(q.tasks) /\ Len(q.tasks) \in Nat
  BY ArtifactPlaces
<1>2. ~IsJudged(q)
  BY DEF IsJudged
<1>3. \A t \in DOMAIN q.tasks : t \in DOMAIN r.tasks \/ t = Len(q.tasks)
  BY <1>1
<1>4. \A t \in DOMAIN r.tasks : t < Len(q.tasks) /\ t \in DOMAIN q.tasks
  BY <1>1
<1>5. \A t \in DOMAIN q.tasks : t < Len(q.tasks) \/ IsJudged(q) => IsGood(q.tasks[t])
  BY <1>1, <1>2, <1>3
<1>6. ASSUME NEW t \in DOMAIN q.tasks
      PROVE  /\ q.tasks[t].task_input.from = "output" =>
                  LET source == q.tasks[t].task_input.ref
                  IN  source < t /\ source \in DOMAIN q.tasks
                        /\ q.tasks[source].output = "valid"
             /\ q.rework_count = 0 => q.tasks[t].task_input.from # "rework"
  <2>1. CASE t \in DOMAIN r.tasks
    BY <1>4, <2>1 DEF TasksInOrder
  <2>2. CASE t = Len(q.tasks)
    BY <1>4, <2>2
  <2> QED
    BY <1>3, <2>1, <2>2
<1> QED
  BY <1>5, <1>6 DEF TasksInOrder

(* The Task at work is the last; what becomes of it leaves the others.     *)
LEMMA MovedTasksOrdered ==
  ASSUME NEW r, Sound(r), TasksInOrder(r), r.status = "running",
         NEW t \in DOMAIN r.tasks, ~IsTerminalTask(r.tasks[t]),
         NEW q, Sound(q), q.status = "running", q.rework_count = r.rework_count,
         OneTaskMoves(r, q, t)
  PROVE  TasksInOrder(q) /\ t = Len(r.tasks)
<1>1. Len(r.tasks) \in Nat /\ DOMAIN r.tasks = 1..Len(r.tasks)
  BY ArtifactPlaces
<1>2. t = Len(r.tasks)
  BY <1>1 DEF TasksInOrder, IsGood, IsTerminalTask, TerminalTaskStates
<1>3. ~IsJudged(q)
  BY DEF IsJudged
<1>4. r.tasks[t].output = "none"
  <2>1. r.tasks[t].output # "none" => r.tasks[t].status = "succeeded"
    BY DEF Sound, ChildrenRestorable, TaskStatesRestorable
  <2> QED
    BY <2>1 DEF IsTerminalTask, TerminalTaskStates
<1>5. \A u \in DOMAIN q.tasks : u < Len(q.tasks) \/ IsJudged(q) => IsGood(q.tasks[u])
  BY <1>1, <1>2, <1>3 DEF TasksInOrder, OneTaskMoves
<1>6. \A u \in DOMAIN r.tasks : q.tasks[u].task_input = r.tasks[u].task_input
  BY DEF OneTaskMoves
<1>7. \A u \in DOMAIN r.tasks : r.tasks[u].output = "valid" => q.tasks[u].output = "valid"
  BY <1>4 DEF OneTaskMoves
<1>8. \A u \in DOMAIN q.tasks :
        /\ q.tasks[u].task_input.from = "output" =>
             LET source == q.tasks[u].task_input.ref
             IN  source < u /\ source \in DOMAIN q.tasks /\ q.tasks[source].output = "valid"
        /\ q.rework_count = 0 => q.tasks[u].task_input.from # "rework"
  BY <1>6, <1>7 DEF TasksInOrder, OneTaskMoves
<1> QED
  BY <1>2, <1>5, <1>8 DEF TasksInOrder

(* A Run at work on a rework.                                              *)
LEMMA InReworkOrdered ==
  ASSUME NEW r, Sound(r), InRework(r), TasksInOrder(r), ArtifactsInOrder(r), NonePending(r),
         ReworksAnswer(r), NEW p \in Plans, Matches(r, p), ReworkInOrder(r, Len(p))
  PROVE  IsOrdered(r)
<1>1. ~IsJudged(r)
  BY DEF IsJudged, InRework
<1>2. CandidateInOrder(r) /\ ReviewsInOrder(r)
  BY DEF CandidateInOrder, ReviewsInOrder, NonePending, InRework
<1>3. Planned(r)
  BY <1>1 DEF Planned
<1> QED
  BY <1>2, <1>3 DEF IsOrdered

(* No Review is pending while a Run runs.                                  *)
LEMMA OrderedInRework ==
  ASSUME NEW r, IsOrdered(r), r.status = "running"
  PROVE  /\ NonePending(r) /\ TasksInOrder(r) /\ ArtifactsInOrder(r) /\ ReworksAnswer(r)
         /\ InRework(r) => \E p \in Plans : Matches(r, p) /\ ReworkInOrder(r, Len(p))
BY DEF IsOrdered, NonePending, ReviewsInOrder, Planned

(* The Task at work is tried, or its Answer recorded.                      *)
LEMMA MovedOrdered ==
  ASSUME NEW r, Sound(r), IsOrdered(r), r.status = "running",
         NEW t \in DOMAIN r.tasks, ~IsTerminalTask(r.tasks[t]),
         NEW q, Sound(q), q.status = "running", q.rework_count = r.rework_count,
         OneTaskMoves(r, q, t), q.artifacts = r.artifacts,
         q.human_reviews = r.human_reviews, q.evaluations = r.evaluations
  PROVE  /\ IsOrdered(q) /\ t = Len(r.tasks)
         /\ \A p \in Plans : Matches(r, p) => Matches(q, p)
         /\ \A n \in Nat : ReworkInOrder(r, n) => ReworkInOrder(q, n)
<1>1. TasksInOrder(r) /\ ArtifactsInOrder(r) /\ ReworksAnswer(r) /\ NonePending(r)
  BY OrderedInRework
<1>2. TasksInOrder(q) /\ t = Len(r.tasks)
  BY <1>1, MovedTasksOrdered
<1>3. /\ Len(r.tasks) \in Nat /\ DOMAIN r.tasks = 1..Len(r.tasks)
      /\ DOMAIN q.tasks = DOMAIN r.tasks /\ Len(q.tasks) = Len(r.tasks)
      /\ r.rework_count \in Nat /\ ~IsJudged(q)
      /\ \A u \in DOMAIN r.tasks : q.tasks[u].step = r.tasks[u].step
                                     /\ q.tasks[u].task_input = r.tasks[u].task_input
  BY ArtifactPlaces DEF OneTaskMoves, IsJudged
<1>4. \A p \in Plans : Matches(r, p) => Matches(q, p)
  BY <1>3, MatchesKept
<1>5. \A a \in DOMAIN r.artifacts : /\ r.artifacts[a].output_ref # t
                                    /\ r.artifacts[a].output_ref \in DOMAIN r.tasks
  <2>1. r.tasks[t].output # "valid"
    BY DEF Sound, ChildrenRestorable, TaskStatesRestorable, IsTerminalTask, TerminalTaskStates
  <2> QED
    BY <1>1, <2>1, ArtifactPlaces DEF ArtifactsInOrder
<1>6. /\ \A a : IsCandidate(q, a) = IsCandidate(r, a)
      /\ \A a : ArtifactOf(q, a) = ArtifactOf(r, a) /\ IsFresh(q, a) = IsFresh(r, a)
      /\ HasCandidate(q) = HasCandidate(r) /\ HasReworkSource(q) = HasReworkSource(r)
      /\ LiveCandidate(q) = LiveCandidate(r)
  BY ReworkSourceKept, JudgementsKept DEF IsCandidate, ArtifactOf, HasCandidate
<1>7. ArtifactsInOrder(q)
  BY <1>1, <1>3, <1>5, <1>6 DEF ArtifactsInOrder, OneTaskMoves
<1>8. ReworksAnswer(q)
  BY <1>1, <1>3, SMTT(20) DEF ReworksAnswer
<1>9. ASSUME NEW n \in Nat, ReworkInOrder(r, n)
      PROVE  ReworkInOrder(q, n)
  <2> DEFINE last == n + r.rework_count
  <2>1. ~(t < last)
    BY <1>9 DEF ReworkInOrder, IsGood, IsTerminalTask, TerminalTaskStates
  <2>2. \A u \in DOMAIN q.tasks : u < last => IsGood(q.tasks[u])
    BY <1>3, <1>9, <2>1 DEF ReworkInOrder, OneTaskMoves
  <2>3. last \in DOMAIN q.tasks => q.tasks[last].task_input = r.tasks[last].task_input
    BY <1>3
  <2>4. Len(r.tasks) = last => last \in DOMAIN q.tasks
    BY <1>2, <1>3
  <2> QED
    BY <1>3, <1>6, <1>9, <2>2, <2>3, <2>4 DEF ReworkInOrder
<1>10. CASE r.rework_count = 0
  <2>1. IsAtPlan(r)
    BY <1>10, OrderedAtPlan
  <2>2. IsAtPlan(q)
    BY <1>3, <1>5, <2>1 DEF IsAtPlan, OneTaskMoves
  <2>3. \E p \in Plans : Matches(q, p)
    BY <1>4 DEF IsOrdered, Planned
  <2> QED
    BY <1>2, <1>4, <1>9, <2>2, <2>3, AtPlanOrdered
<1>11. CASE r.rework_count > 0
  <2>1. InRework(r) /\ InRework(q)
    BY <1>11 DEF InRework
  <2>2. PICK p \in Plans : Matches(r, p) /\ ReworkInOrder(r, Len(p))
    BY <2>1, OrderedInRework
  <2>3. Matches(q, p) /\ ReworkInOrder(q, Len(p))
    BY <1>4, <1>9, <2>2, PlanPositions
  <2>4. NonePending(q)
    BY <1>1 DEF NonePending
  <2> QED
    BY <1>2, <1>4, <1>7, <1>8, <1>9, <2>1, <2>3, <2>4, InReworkOrdered
<1> QED
  BY <1>3, <1>10, <1>11

(* The next step of the plan starts.                                       *)
LEMMA StepStartedOrdered ==
  ASSUME NEW r, Sound(r), IsOrdered(r), r.status = "running", r.rework_count = 0,
         \A t \in DOMAIN r.tasks : IsGood(r.tasks[t]),
         NEW p \in Plans, Matches(r, p), Len(r.tasks) < Len(p),
         NEW q, Carries(r, q, {"tasks"}), Len(q.tasks) = Len(r.tasks) + 1,
         \A t \in DOMAIN r.tasks : q.tasks[t] = r.tasks[t],
         q.tasks[Len(q.tasks)].step = p[Len(q.tasks)],
         LET input == q.tasks[Len(q.tasks)].task_input
         IN  /\ input.from = "output" =>
                  input.ref \in DOMAIN r.tasks /\ r.tasks[input.ref].output = "valid"
             /\ input.from # "rework"
  PROVE  IsOrdered(q) /\ Matches(q, p)
<1>1. /\ Sound(q) /\ q.status = "running" /\ q.rework_count = 0 /\ q.artifacts = r.artifacts
      /\ q.human_reviews = r.human_reviews /\ q.evaluations = r.evaluations
  BY DEF Carries, Ops!Keeps
<1>2. IsAtPlan(r) /\ TasksInOrder(r)
  BY OrderedAtPlan
<1>3. TasksInOrder(q)
  BY <1>1, <1>2, StartedTasksOrdered
<1>4. \A a \in DOMAIN r.artifacts : r.artifacts[a].output_ref \in DOMAIN r.tasks
  BY ArtifactPlaces
<1>5. IsAtPlan(q)
  BY <1>1, <1>2, <1>4 DEF IsAtPlan
<1>6. Matches(q, p)
  <2>1. /\ Len(r.tasks) \in Nat /\ DOMAIN r.tasks = 1..Len(r.tasks)
        /\ DOMAIN q.tasks = 1..Len(q.tasks) /\ Len(p) \in Nat
    BY <1>1, ArtifactPlaces, PlanPositions
  <2>2. \A t \in DOMAIN q.tasks : t \in DOMAIN r.tasks \/ t = Len(q.tasks)
    BY <2>1
  <2>3. Len(q.tasks) <= Len(p) /\ Len(q.tasks) <= Len(p) + q.rework_count
    BY <1>1, <2>1
  <2> QED
    BY <2>2, <2>3 DEF Matches
<1> QED
  BY <1>1, <1>3, <1>5, <1>6, AtPlanOrdered

(* A step takes its input from an earlier valid Output, or from none.      *)
LEMMA ChainedInputFromValid ==
  ASSUME NEW r, NEW i \in Nat \ {0}, NEW input, input = ChainedInput(r, i)
  PROVE  /\ input.from = "output" => input.ref \in 1..(i - 1) /\ r.tasks[input.ref].output = "valid"
         /\ input.from # "rework"
<1> DEFINE n == i - 1
           S == {t \in 1..n : r.tasks[t].output = "valid"}
<1>1. n \in Nat /\ S \in SUBSET (1..n) /\ (\A t \in S : r.tasks[t].output = "valid")
  OBVIOUS
<1>2. input = IF Latest(S) # 0 THEN [from |-> "output", ref |-> Latest(S), review |-> 0]
              ELSE [from |-> IF i = 1 THEN "brief" ELSE "nothing", ref |-> 0, review |-> 0]
  BY DEF ChainedInput
<1> HIDE DEF S
<1>3. (Latest(S) = 0 <=> S = {}) /\ (S # {} => Latest(S) \in S)
  BY <1>1, LatestIsGreatest
<1>4. CASE Latest(S) # 0
  <2>1. Latest(S) \in S
    BY <1>3, <1>4
  <2>2. Latest(S) \in 1..n /\ r.tasks[Latest(S)].output = "valid"
    BY <1>1, <2>1, Zenon
  <2>3. input.from = "output" /\ input.ref = Latest(S)
    BY <1>2, <1>4
  <2> QED
    BY <2>2, <2>3
<1>5. CASE Latest(S) = 0
  BY <1>2, <1>5
<1> QED
  BY <1>4, <1>5

(* A step's valid Output becomes an Artifact.                              *)
LEMMA ArtifactAddedOrdered ==
  ASSUME NEW r, Sound(r), IsOrdered(r), r.status = "running", r.rework_count = 0,
         NEW t \in DOMAIN r.tasks, NEW q, q = WithArtifact(r, t)
  PROVE  /\ IsOrdered(q) /\ \A p \in Plans : Matches(r, p) => Matches(q, p)
         /\ q.tasks = r.tasks /\ q.rework_count = 0 /\ q.status = "running"
<1>1. /\ Carries(r, q, {"artifacts"})
      /\ \/ q = r
         \/ /\ r.tasks[t].output = "valid"
            /\ q.artifacts = Append(r.artifacts,
                                    [output_ref |-> t, version |-> 1,
                                     supersedes_ref |-> 0, status |-> "draft"])
  BY WithArtifactEffect
<1>2. /\ Sound(q) /\ q.status = "running" /\ q.rework_count = 0 /\ q.tasks = r.tasks
      /\ q.human_reviews = r.human_reviews /\ q.evaluations = r.evaluations
  BY <1>1 DEF Carries, Ops!Keeps
<1>3. \A p \in Plans : Matches(r, p) => Matches(q, p)
  BY <1>2 DEF Matches
<1>4. IsAtPlan(r) /\ TasksInOrder(r)
  BY OrderedAtPlan
<1>5. TasksInOrder(q)
  BY <1>2, <1>4 DEF TasksInOrder, IsJudged
<1>6. IsAtPlan(q)
  <2> DEFINE new == [output_ref |-> t, version |-> 1, supersedes_ref |-> 0, status |-> "draft"]
  <2>1. new.output_ref = t /\ new.status = "draft" /\ r.artifacts \in Seq(Artifact)
    BY DEF Sound, Run
  <2>2. q = r \/ (r.tasks[t].output = "valid" /\ q.artifacts = Append(r.artifacts, new))
    BY <1>1
  <2> HIDE DEF new
  <2>3. CASE q = r
    BY <1>4, <2>3
  <2>4. CASE r.tasks[t].output = "valid" /\ q.artifacts = Append(r.artifacts, new)
    <3>1. \A a \in DOMAIN q.artifacts : \/ a \in DOMAIN r.artifacts /\ q.artifacts[a] = r.artifacts[a]
                                        \/ q.artifacts[a] = new
      BY <2>1, <2>4
    <3> QED
      BY <1>2, <1>4, <2>1, <2>4, <3>1 DEF IsAtPlan
  <2> QED
    BY <2>2, <2>3, <2>4
<1>7. PICK p \in Plans : Matches(r, p)
  BY DEF IsOrdered, Planned
<1> QED
  BY <1>2, <1>3, <1>5, <1>6, <1>7, AtPlanOrdered

(* The Task of a rework starts.                                            *)
LEMMA ReworkStartedOrdered ==
  ASSUME NEW r, Sound(r), IsOrdered(r), InRework(r), HasReworkSource(r),
         NEW p \in Plans, Matches(r, p), ReworkInOrder(r, Len(p)),
         Len(r.tasks) + 1 = Len(p) + r.rework_count,
         NEW q, Carries(r, q, {"tasks"}), Len(q.tasks) = Len(r.tasks) + 1,
         \A t \in DOMAIN r.tasks : q.tasks[t] = r.tasks[t],
         q.tasks[Len(q.tasks)].step = p[Len(p)],
         q.tasks[Len(q.tasks)].task_input = ReworkInput(r)
  PROVE  IsOrdered(q) /\ Matches(q, p) /\ ReworkInOrder(q, Len(p))
<1> DEFINE last == Len(p) + r.rework_count
           live == LiveCandidate(r)
           review == LatestReview(r, live)
           input == ReworkInput(r)
<1>1. /\ Sound(q) /\ q.status = "running" /\ q.rework_count = r.rework_count
      /\ q.artifacts = r.artifacts
      /\ q.human_reviews = r.human_reviews /\ q.evaluations = r.evaluations
      /\ r.status = "running" /\ r.rework_count > 0
  BY DEF Carries, Ops!Keeps, InRework
<1>2. /\ NonePending(r) /\ TasksInOrder(r) /\ ArtifactsInOrder(r) /\ ReworksAnswer(r)
  BY <1>1, OrderedInRework
<1>3. /\ Len(r.tasks) \in Nat /\ DOMAIN r.tasks = 1..Len(r.tasks)
      /\ DOMAIN q.tasks = 1..Len(q.tasks) /\ Len(p) \in Nat \ {0} /\ r.rework_count \in Nat
  BY <1>1, ArtifactPlaces, PlanPositions
<1>4. /\ last = Len(r.tasks) + 1 /\ last \in Nat /\ Len(q.tasks) = last
      /\ ~(last \in DOMAIN r.tasks) /\ last # 0 /\ ~(last <= Len(p))
  BY <1>1, <1>3
<1>5. \A t \in DOMAIN q.tasks : t \in DOMAIN r.tasks \/ t = last
  BY <1>3, <1>4
<1>6. \A t \in DOMAIN r.tasks : t < last /\ t \in DOMAIN q.tasks /\ IsGood(r.tasks[t])
  <2>1. \A t \in DOMAIN r.tasks : t < last /\ t \in DOMAIN q.tasks
    <3> HIDE DEF last
    <3> QED
      BY <1>3, <1>4
  <2>2. \A t \in DOMAIN r.tasks : t < last => IsGood(r.tasks[t])
    BY Zenon DEF ReworkInOrder
  <2> QED
    BY <2>1, <2>2, Zenon
<1>7. input.from = "rework" /\ input.ref = live /\ input.review = review
  BY DEF ReworkInput
<1>8. /\ live # 0 /\ IsCandidate(r, live) /\ live \in DOMAIN r.artifacts
      /\ review \in DOMAIN r.human_reviews
      /\ r.human_reviews[review].artifact_ref = live
      /\ r.human_reviews[review].status \in ReworkDecisions
  <2>1. live # 0 /\ review # 0 /\ r.human_reviews[review].status \in ReworkDecisions
    BY DEF HasReworkSource, IsReviewOf
  <2>2. review \in ReviewsOf(r, live) /\ IsCandidate(r, live)
    BY <2>1, Lookups
  <2> QED
    BY <2>1, <2>2 DEF ReviewsOf, IsCandidate
<1>9. /\ \A a : ArtifactOf(q, a) = ArtifactOf(r, a) /\ IsCandidate(q, a) = IsCandidate(r, a)
      /\ HasReworkSource(q) /\ LiveCandidate(q) = live
  BY <1>1, ReworkSourceKept DEF ArtifactOf, IsCandidate
<1>10. ArtifactOf(r, last) = 0
  BY <1>4, ArtifactPlaces
<1>11. r.artifacts[live].output_ref = last - 1
  BY <1>10 DEF ReworkInOrder
<1> HIDE DEF last, live, review, input
<1>12. TasksInOrder(q)
  BY <1>1, <1>2, <1>4, <1>6, <1>7, StartedTasksOrdered DEF input
<1>13. \A a \in DOMAIN r.artifacts : r.artifacts[a].output_ref \in DOMAIN r.tasks
  BY ArtifactPlaces
<1>14. ArtifactsInOrder(q)
  <2>1. ~IsJudged(q) /\ ~IsJudged(r)
    BY <1>1, Zenon DEF IsJudged
  <2> QED
    BY <1>1, <1>2, <1>9, <1>13, <2>1, SMTT(20) DEF ArtifactsInOrder
<1>15. ReworksAnswer(q)
  <2>1. q.tasks[last].task_input = input
    BY <1>4, Zenon DEF input
  <2> SUFFICES ASSUME NEW t \in DOMAIN q.tasks, q.tasks[t].task_input.from = "rework"
               PROVE  LET i == q.tasks[t].task_input IN
                        /\ i.review \in DOMAIN r.human_reviews /\ i.ref \in DOMAIN r.artifacts
                        /\ r.human_reviews[i.review].artifact_ref = i.ref
                        /\ r.human_reviews[i.review].status \in ReworkDecisions
                        /\ \A a \in DOMAIN r.artifacts :
                             r.artifacts[a].output_ref = t =>
                               /\ r.artifacts[a].supersedes_ref = i.ref
                               /\ r.artifacts[i.ref].status = "superseded"
    BY <1>1, SMTT(20) DEF ReworksAnswer
  <2>2. CASE t \in DOMAIN r.tasks
    BY <1>2, <2>2, SMTT(20) DEF ReworksAnswer
  <2>3. CASE t = last
    BY <1>4, <1>7, <1>8, <1>13, <2>1, <2>3
  <2> QED
    BY <1>5, <2>2, <2>3
<1>16. Matches(q, p)
  <2>1. Len(q.tasks) <= Len(p) + q.rework_count
    BY <1>1, <1>3, <1>4 DEF last
  <2> QED
    BY <1>4, <1>5, <2>1 DEF Matches
<1>17. ReworkInOrder(q, Len(p))
  <2>1. \A t \in DOMAIN q.tasks : t < last => IsGood(q.tasks[t])
    BY <1>4, <1>5, <1>6
  <2>2. q.tasks[last].task_input.ref = live /\ ArtifactOf(q, last) = 0
    BY <1>4, <1>7, <1>9, <1>10 DEF input
  <2>3. Len(p) + q.rework_count = last /\ q.artifacts[live].output_ref = last - 1
    BY <1>1, <1>11 DEF last
  <2> QED
    BY <1>4, <1>9, <2>1, <2>2, <2>3 DEF ReworkInOrder
<1>18. NonePending(q) /\ InRework(q)
  BY <1>1, <1>2 DEF NonePending, InRework
<1> QED
  BY <1>1, <1>12, <1>14, <1>15, <1>16, <1>17, <1>18, InReworkOrdered

(* A version joins the Artifacts and its predecessor is superseded.        *)
LEMMA SuccessorMade ==
  ASSUME NEW r, Sound(r), NEW t \in DOMAIN r.tasks, LiveCandidate(r) # 0,
         r.tasks[t].output = "valid", ArtifactOf(r, t) = 0,
         NEW q, q = WithSuccessor(r, t)
  PROVE  LET live == LiveCandidate(r)
             made == Len(r.artifacts) + 1
         IN  /\ Carries(r, q, {"artifacts"})
             /\ DOMAIN q.artifacts = DOMAIN r.artifacts \cup {made}
             /\ made \notin DOMAIN r.artifacts /\ made # 0
             /\ \A a \in DOMAIN r.artifacts :
                  /\ q.artifacts[a].output_ref = r.artifacts[a].output_ref
                  /\ q.artifacts[a].supersedes_ref = r.artifacts[a].supersedes_ref
                  /\ q.artifacts[a].status = IF a = live THEN "superseded"
                                                         ELSE r.artifacts[a].status
             /\ q.artifacts[made].output_ref = t /\ q.artifacts[made].supersedes_ref = live
             /\ q.artifacts[made].status = "draft"
<1> DEFINE live == LiveCandidate(r)
           made == Len(r.artifacts) + 1
           n == Len(r.artifacts)
           old == Ops!WithStatus(r.artifacts[live], "superseded")
           new == [output_ref |-> t, version |-> r.artifacts[live].version + 1,
                   supersedes_ref |-> live, status |-> "draft"]
           before == Ops!Updated(r.artifacts, live, old)
<1>1. Carries(r, q, {"artifacts"}) /\ q.artifacts = Append(before, new)
  BY WithSuccessorEffect
<1>2. /\ n \in Nat /\ r.artifacts \in [1..n -> Artifact] /\ DOMAIN r.artifacts = 1..n
      /\ live \in 1..n
  BY Lookups DEF Sound, Run, IsCandidate
<1>3. /\ new.output_ref = t /\ new.supersedes_ref = live /\ new.status = "draft"
  OBVIOUS
<1>4. /\ old.output_ref = r.artifacts[live].output_ref /\ old.status = "superseded"
      /\ old.supersedes_ref = r.artifacts[live].supersedes_ref
  BY <1>2 DEF Ops!WithStatus, Artifact
<1>5. /\ before \in Seq(Artifact) /\ DOMAIN before = 1..n /\ Len(before) = n
      /\ \A a \in 1..n : before[a] = IF a = live THEN old ELSE r.artifacts[a]
  <2>1. old \in Artifact /\ r.artifacts \in Seq(Artifact)
    BY <1>2 DEF Ops!WithStatus, Artifact, ArtifactStatus, Sound, Run
  <2>2. before = [r.artifacts EXCEPT ![live] = old]
    BY DEF Ops!Updated
  <2> HIDE DEF old, before
  <2> QED
    BY <1>2, <2>1, <2>2 DEF n
<1> DEFINE S == Artifact \cup {new}
<1>6. before \in Seq(S) /\ new \in S
  <2> HIDE DEF before, new
  <2>1. Artifact \subseteq S /\ new \in S
    OBVIOUS
  <2> HIDE DEF S
  <2> QED
    BY <1>5, <2>1
<1> HIDE DEF before, old, new, n, live, S
<1>7. /\ DOMAIN q.artifacts = 1..(n + 1) /\ q.artifacts[n + 1] = new
      /\ \A a \in 1..n : q.artifacts[a] = before[a]
  BY <1>1, <1>2, <1>5, <1>6
<1>8. 1..(n + 1) = (1..n) \cup {n + 1} /\ (n + 1) \notin 1..n /\ (n + 1) # 0
  BY <1>2
<1>9. \A a \in 1..n :
        /\ q.artifacts[a].output_ref = r.artifacts[a].output_ref
        /\ q.artifacts[a].supersedes_ref = r.artifacts[a].supersedes_ref
        /\ q.artifacts[a].status = IF a = live THEN "superseded" ELSE r.artifacts[a].status
  BY <1>4, <1>5, <1>7
<1> QED
  BY <1>1, <1>2, <1>3, <1>7, <1>8, <1>9 DEF n, live

(* The Output of a rework supersedes the candidate.                        *)
LEMMA SuccessorOrdered ==
  ASSUME NEW r, Sound(r), IsOrdered(r), InRework(r),
         NEW p \in Plans, Matches(r, p), ReworkInOrder(r, Len(p)),
         NEW t \in DOMAIN r.tasks, t = Len(p) + r.rework_count,
         NEW q, q = WithSuccessor(r, t)
  PROVE  /\ IsOrdered(q) /\ Matches(q, p) /\ ReworkInOrder(q, Len(p))
         /\ q.tasks = r.tasks /\ q.status = "running" /\ q.rework_count = r.rework_count
         /\ q.tasks[t].output = "valid" => ArtifactOf(q, t) # 0
<1> DEFINE live == LiveCandidate(r)
           made == Len(r.artifacts) + 1
<1>1. CASE ~(r.tasks[t].output = "valid" /\ ArtifactOf(r, t) = 0)
  <2>1. q = r
    BY <1>1, Zenon DEF WithSuccessor
  <2> QED
    BY <1>1, <2>1 DEF InRework
<1>2. CASE r.tasks[t].output = "valid" /\ ArtifactOf(r, t) = 0
  <2>1. /\ live # 0 /\ IsCandidate(r, live) /\ live \in DOMAIN r.artifacts
        /\ r.status = "running" /\ r.rework_count > 0
        /\ Len(r.tasks) = t /\ r.tasks[t].task_input.from = "rework"
             => r.tasks[t].task_input.ref = live
    BY <1>2, Lookups DEF ReworkInOrder, HasReworkSource, InRework, IsCandidate
  <2>2. /\ NonePending(r) /\ TasksInOrder(r) /\ ArtifactsInOrder(r) /\ ReworksAnswer(r)
    BY <2>1, OrderedInRework
  <2>3. /\ Len(r.tasks) \in Nat /\ DOMAIN r.tasks = 1..Len(r.tasks)
        /\ Len(p) \in Nat /\ r.rework_count \in Nat
    BY ArtifactPlaces, PlanPositions
  <2>4. Len(r.tasks) = t
    BY <2>3 DEF ReworkInOrder
  <2>5. /\ Carries(r, q, {"artifacts"})
        /\ DOMAIN q.artifacts = DOMAIN r.artifacts \cup {made}
        /\ made \notin DOMAIN r.artifacts /\ made # 0
        /\ \A a \in DOMAIN r.artifacts :
             /\ q.artifacts[a].output_ref = r.artifacts[a].output_ref
             /\ q.artifacts[a].supersedes_ref = r.artifacts[a].supersedes_ref
             /\ q.artifacts[a].status = IF a = live THEN "superseded" ELSE r.artifacts[a].status
        /\ q.artifacts[made].output_ref = t /\ q.artifacts[made].supersedes_ref = live
        /\ q.artifacts[made].status = "draft"
    BY <1>2, <2>1, SuccessorMade
  <2>6. /\ Sound(q) /\ q.status = "running" /\ q.rework_count = r.rework_count
        /\ q.tasks = r.tasks
        /\ q.human_reviews = r.human_reviews /\ q.evaluations = r.evaluations
    BY <2>1, <2>5 DEF Carries, Ops!Keeps
  <2> HIDE DEF live, made
  <2>7. \A a : ~IsCandidate(q, a)
    <3>1. \A a \in DOMAIN r.artifacts : IsCandidate(r, a) => a = live
      BY <2>1, <2>2 DEF ArtifactsInOrder
    <3> QED
      BY <2>5, <3>1 DEF IsCandidate
  <2>8. ~IsJudged(q) /\ InRework(q) /\ NonePending(q)
    BY <2>1, <2>2, <2>6, SMTT(20) DEF IsJudged, InRework, NonePending
  <2>9. TasksInOrder(q)
    BY <2>1, <2>2, <2>6, <2>8, SMTT(20) DEF TasksInOrder
  <2>10. ArtifactsInOrder(q)
    <3>1. \A a \in DOMAIN q.artifacts :
            /\ q.tasks[q.artifacts[a].output_ref].output = "valid"
            /\ q.artifacts[a].status \in {"draft", "candidate", "superseded"}
      BY <1>2, <2>1, <2>2, <2>5, <2>6 DEF ArtifactsInOrder
    <3> QED
      BY <2>1, <2>6, <2>7, <2>8, <3>1 DEF ArtifactsInOrder
  <2>11. Matches(q, p)
    BY <2>6 DEF Matches
  <2>12. ArtifactOf(q, t) = made
    BY <2>5, <2>6, ArtifactPlaces
  <2>13. IsFresh(q, made)
    <3>1. /\ \A h \in DOMAIN r.human_reviews : r.human_reviews[h].artifact_ref # made
          /\ \A e \in DOMAIN r.evaluations : r.evaluations[e].artifact_ref # made
      BY <2>5, ArtifactPlaces
    <3> QED
      BY <2>5, <2>6, <3>1 DEF IsFresh, EvaluationsOf, ReviewsOf
  <2>14. ReworkInOrder(q, Len(p))
    <3>1. ~HasCandidate(q)
      BY <2>7 DEF HasCandidate
    <3> QED
      BY <2>5, <2>6, <2>12, <2>13, <3>1 DEF ReworkInOrder
  <2>15. ReworksAnswer(q)
    <3> SUFFICES ASSUME NEW u \in DOMAIN q.tasks, q.tasks[u].task_input.from = "rework"
                 PROVE  LET i == q.tasks[u].task_input IN
                          /\ i.review \in DOMAIN q.human_reviews /\ i.ref \in DOMAIN q.artifacts
                          /\ q.human_reviews[i.review].artifact_ref = i.ref
                          /\ q.human_reviews[i.review].status \in ReworkDecisions
                          /\ \A a \in DOMAIN q.artifacts :
                               q.artifacts[a].output_ref = u =>
                                 /\ q.artifacts[a].supersedes_ref = i.ref
                                 /\ q.artifacts[i.ref].status = "superseded"
      BY Zenon DEF ReworksAnswer
    <3> DEFINE i == q.tasks[u].task_input
    <3>1. u \in DOMAIN r.tasks /\ r.tasks[u].task_input = i /\ i.from = "rework"
      BY <2>6
    <3>2. /\ r.tasks[u].task_input.review \in DOMAIN r.human_reviews
          /\ r.tasks[u].task_input.ref \in DOMAIN r.artifacts
          /\ r.human_reviews[r.tasks[u].task_input.review].artifact_ref = r.tasks[u].task_input.ref
          /\ r.human_reviews[r.tasks[u].task_input.review].status \in ReworkDecisions
          /\ \A a \in DOMAIN r.artifacts :
               r.artifacts[a].output_ref = u =>
                 /\ r.artifacts[a].supersedes_ref = r.tasks[u].task_input.ref
                 /\ r.artifacts[r.tasks[u].task_input.ref].status = "superseded"
      BY <2>2, <3>1, Zenon DEF ReworksAnswer
    <3> HIDE DEF i
    <3>3. u = t => i.ref = live
      BY <2>1, <2>4, <3>1
    <3>4. /\ i.review \in DOMAIN q.human_reviews /\ i.ref \in DOMAIN r.artifacts
          /\ q.human_reviews[i.review].artifact_ref = i.ref
          /\ q.human_reviews[i.review].status \in ReworkDecisions
          /\ \A a \in DOMAIN r.artifacts :
               r.artifacts[a].output_ref = u =>
                 /\ r.artifacts[a].supersedes_ref = i.ref
                 /\ r.artifacts[i.ref].status = "superseded"
      BY <2>6, <3>1, <3>2
    <3>5. ASSUME NEW a \in DOMAIN q.artifacts, q.artifacts[a].output_ref = u
          PROVE  q.artifacts[a].supersedes_ref = i.ref /\ q.artifacts[i.ref].status = "superseded"
      <4>1. CASE a \in DOMAIN r.artifacts
        BY <2>5, <3>4, <3>5, <4>1
      <4>2. CASE a = made
        BY <2>1, <2>5, <3>3, <3>5, <4>2
      <4> QED
        BY <2>5, <4>1, <4>2
    <3>6. i.ref \in DOMAIN q.artifacts
      BY <2>5, <3>4
    <3> QED
      BY <3>4, <3>5, <3>6, Zenon DEF i
  <2> QED
    BY <2>5, <2>6, <2>8, <2>9, <2>10, <2>11, <2>12, <2>14, <2>15, InReworkOrdered
<1> QED
  BY <1>1, <1>2

-----------------------------------------------------------------------------
(* Runs that stay in order: the gates.                                     *)

(* The places of a sequence with one more element.                         *)
LEMMA Appended ==
  ASSUME NEW S, NEW s \in Seq(S), NEW x
  PROVE  LET n == Len(s) + 1 IN
           /\ n \in Nat /\ Len(s) \in Nat /\ DOMAIN s = 1..Len(s)
           /\ DOMAIN Append(s, x) = DOMAIN s \cup {n} /\ n \notin DOMAIN s
           /\ Append(s, x)[n] = x /\ Len(Append(s, x)) = n /\ Append(s, x) # <<>>
           /\ \A i \in DOMAIN s : Append(s, x)[i] = s[i]
OBVIOUS

(* The draft QA is asked about becomes the candidate.                      *)
LEMMA PromotedEffect ==
  ASSUME NEW r, Sound(r), NEW a \in DOMAIN r.artifacts,
         NEW p, p = PromoteDraft(r, a), IsCandidate(p, a)
  PROVE  /\ Carries(r, p, {"artifacts"}) /\ DOMAIN p.artifacts = DOMAIN r.artifacts
         /\ \A b \in DOMAIN r.artifacts :
              /\ p.artifacts[b].output_ref = r.artifacts[b].output_ref
              /\ p.artifacts[b].supersedes_ref = r.artifacts[b].supersedes_ref
              /\ b # a => p.artifacts[b].status = r.artifacts[b].status
         /\ r.artifacts[a].status \in {"draft", "candidate"}
<1>1. CASE r.artifacts[a].status = "draft"
  <2>1. CanTransitionArtifact(r, a, "candidate") /\ "candidate" \in ArtifactStatus
    BY <1>1
    DEF CanTransitionArtifact, AllowedArtifactTransitions, ArtifactStatus
  <2>2. p = TransitionArtifact(r, a, "candidate")
    BY <1>1 DEF PromoteDraft
  <2> DEFINE next == Ops!WithStatus(r.artifacts[a], "candidate")
  <2>3. Carries(r, p, {"artifacts"}) /\ p.artifacts = Ops!Updated(r.artifacts, a, next)
    BY <2>1, <2>2, TransitionArtifactLegal, Zenon DEF Carries
  <2>4. r.artifacts \in Seq(Artifact) /\ r.artifacts[a] \in Artifact
    BY DEF Sound, Run
  <2>5. next.output_ref = r.artifacts[a].output_ref
        /\ next.supersedes_ref = r.artifacts[a].supersedes_ref
    BY <2>4 DEF Ops!WithStatus, Artifact
  <2> HIDE DEF next
  <2> QED
    BY <1>1, <2>3, <2>4, <2>5 DEF Ops!Updated
<1>2. CASE r.artifacts[a].status # "draft"
  <2>1. p = r
    BY <1>2 DEF PromoteDraft
  <2> QED
    BY <2>1, StaysAsItIs DEF IsCandidate
<1> QED
  BY <1>1, <1>2

(* In q the final candidate of r is a candidate, all else is as in r.      *)
Promotes(r, q) ==
  LET a == FinalCandidate(r) IN
    /\ q.status = r.status /\ q.rework_count = r.rework_count
    /\ q.tasks = r.tasks /\ q.human_reviews = r.human_reviews
    /\ DOMAIN q.artifacts = DOMAIN r.artifacts
    /\ \A b \in DOMAIN r.artifacts :
         /\ q.artifacts[b].output_ref = r.artifacts[b].output_ref
         /\ q.artifacts[b].supersedes_ref = r.artifacts[b].supersedes_ref
         /\ b # a => q.artifacts[b].status = r.artifacts[b].status
    /\ q.artifacts[a].status = "candidate" /\ r.artifacts[a].status # "superseded"

(* The final candidate of a Run QA looks at is its one candidate.          *)
LEMMA CandidateOrdered ==
  ASSUME NEW r, Sound(r), IsOrdered(r), r.status = "waiting_qa", FinalCandidate(r) # 0,
         NEW q, Sound(q), Promotes(r, q)
  PROVE  IsOrdered(q)
<1> DEFINE a == FinalCandidate(r)
<1>0. /\ q.status = "waiting_qa" /\ q.rework_count = r.rework_count
      /\ q.tasks = r.tasks /\ q.human_reviews = r.human_reviews
      /\ DOMAIN q.artifacts = DOMAIN r.artifacts
      /\ \A b \in DOMAIN r.artifacts :
           /\ q.artifacts[b].output_ref = r.artifacts[b].output_ref
           /\ q.artifacts[b].supersedes_ref = r.artifacts[b].supersedes_ref
           /\ b # a => q.artifacts[b].status = r.artifacts[b].status
      /\ q.artifacts[a].status = "candidate" /\ r.artifacts[a].status # "superseded"
  BY DEF Promotes
<1>1. a # 0 /\ a \in DOMAIN r.artifacts /\ r.artifacts[a].output_ref = Len(r.tasks)
  BY <1>0, ArtifactPlaces
<1> HIDE DEF a
<1>2. FinalCandidate(q) = a
  BY <1>0, FinalCandidateKept DEF a
<1>3. IsJudged(q) /\ IsJudged(r) /\ ~InRework(q)
  BY <1>0 DEF IsJudged, InRework
<1>4. IsCandidate(q, a) /\ \A b : IsCandidate(q, b) => b = a
  <2>1. ASSUME NEW b, IsCandidate(q, b)
        PROVE  b = a
    <3>1. CASE b # a
      <4>1. IsCandidate(r, b) /\ b \in DOMAIN r.artifacts
        BY <1>0, <2>1, <3>1 DEF IsCandidate
      <4>2. r.artifacts[b].output_ref = Len(r.tasks)
        BY <1>0, <1>3, <4>1 DEF IsOrdered, ArtifactsInOrder
      <4> QED
        BY <1>0, <4>1, <4>2, ArtifactPlaces DEF a
    <3> QED
      BY <1>0, <3>1
  <2> QED
    BY <1>0, <1>1, <2>1 DEF IsCandidate
<1>5. TasksInOrder(q)
  BY <1>0, <1>3 DEF IsOrdered, TasksInOrder
<1>6. ArtifactsInOrder(q)
  <2>1. \A b \in DOMAIN q.artifacts :
          /\ q.tasks[q.artifacts[b].output_ref].output = "valid"
          /\ q.artifacts[b].status \in {"draft", "candidate", "superseded"}
    <3>1. \A b \in DOMAIN r.artifacts :
            /\ r.tasks[r.artifacts[b].output_ref].output = "valid"
            /\ r.artifacts[b].status \in {"draft", "candidate", "superseded"}
      BY <1>0 DEF IsOrdered, ArtifactsInOrder
    <3> QED
      BY <1>0, <3>1
  <2>2. \A b \in DOMAIN q.artifacts :
          IsCandidate(q, b) => q.artifacts[b].output_ref = Len(q.tasks)
    BY <1>0, <1>1, <1>4
  <2>3. q.rework_count = 0 => q.human_reviews = <<>>
    BY <1>0 DEF IsOrdered, ArtifactsInOrder
  <2> QED
    BY <1>0, <1>3, <1>4, <2>1, <2>2, <2>3 DEF ArtifactsInOrder
<1>7. CandidateInOrder(q)
  <2>1. ReviewsOf(r, a) = {}
    BY <1>0, <1>1 DEF IsOrdered, CandidateInOrder, a
  <2>2. ReviewsOf(q, a) = {}
    BY <1>0, <2>1 DEF ReviewsOf
  <2> QED
    BY <1>0, <1>2, <1>4, <2>2 DEF CandidateInOrder
<1>8. ReviewsInOrder(q)
  BY <1>0 DEF IsOrdered, ReviewsInOrder
<1>9. PICK s \in Plans : Matches(r, s) /\ Len(r.tasks) = Len(s) + r.rework_count
  BY <1>0, <1>3 DEF IsOrdered, Planned
<1>10. Matches(q, s)
  BY <1>0, <1>9 DEF Matches
<1>11. Planned(q)
  BY <1>0, <1>3, <1>9, <1>10 DEF Planned
<1>12. ReworksAnswer(q)
  <2>1. \A b \in DOMAIN r.artifacts :
          r.artifacts[b].status = "superseded" => q.artifacts[b].status = "superseded"
    BY <1>0
  <2> QED
    BY <1>0, <2>1 DEF IsOrdered, ReworksAnswer
<1> QED
  BY <1>0, <1>5, <1>6, <1>7, <1>8, <1>11, <1>12 DEF IsOrdered

(* QA is asked about the final candidate.                                  *)
LEMMA QaOpenedOrdered ==
  ASSUME NEW r, Sound(r), IsOrdered(r), r.status = "waiting_qa",
         NEW a, a = FinalCandidate(r), a # 0,
         NEW p, p = PromoteDraft(r, a), IsCandidate(p, a),
         NEW q, q = OpenEvaluation(p, a, TRUE)
  PROVE  IsOrdered(q)
<1>1. a \in DOMAIN r.artifacts /\ r.artifacts[a].output_ref = Len(r.tasks)
  BY ArtifactPlaces
<1>2. /\ Carries(r, p, {"artifacts"}) /\ DOMAIN p.artifacts = DOMAIN r.artifacts
      /\ \A b \in DOMAIN r.artifacts :
           /\ p.artifacts[b].output_ref = r.artifacts[b].output_ref
           /\ p.artifacts[b].supersedes_ref = r.artifacts[b].supersedes_ref
           /\ b # a => p.artifacts[b].status = r.artifacts[b].status
      /\ r.artifacts[a].status \in {"draft", "candidate"}
  BY <1>1, PromotedEffect
<1>3. Sound(p) /\ Carries(p, q, {"evaluations"})
  BY <1>2, OpenEvaluationLegal, Zenon DEF Carries
<1>4. /\ Sound(q) /\ q.status = "waiting_qa" /\ q.rework_count = r.rework_count
      /\ q.tasks = r.tasks /\ q.artifacts = p.artifacts /\ q.human_reviews = r.human_reviews
  <2>1. /\ p.status = "waiting_qa" /\ p.rework_count = r.rework_count
        /\ p.tasks = r.tasks /\ p.human_reviews = r.human_reviews
    BY <1>2 DEF Carries, Ops!Keeps
  <2> QED
    BY <1>3, <2>1 DEF Carries, Ops!Keeps
<1>5. Promotes(r, q)
  BY <1>2, <1>4 DEF IsCandidate, Promotes
<1> QED
  BY <1>4, <1>5, CandidateOrdered

(* A Review of the candidate is asked for.                                 *)
LEMMA ReviewOpenedOrdered ==
  ASSUME NEW r, Sound(r), IsOrdered(r), r.status = "waiting_human", NonePending(r),
         NEW a, a = FinalCandidate(r), NEW q \in OpenReviewOn(r, a)
  PROVE  IsOrdered(q)
<1> DEFINE new == [artifact_ref |-> a, status |-> "pending"]
           n == Len(r.human_reviews) + 1
<1>1. IsCandidate(r, a) /\ q = OpenHumanReview(r, a)
  BY DEF OpenReviewOn
<1>2. Carries(r, q, {"human_reviews"}) /\ q.human_reviews = Append(r.human_reviews, new)
  BY <1>1, OpenHumanReviewLegal, Zenon DEF Carries
<1>3. /\ Sound(q) /\ q.status = "waiting_human" /\ q.rework_count = r.rework_count
      /\ q.tasks = r.tasks /\ q.artifacts = r.artifacts /\ q.evaluations = r.evaluations
  BY <1>2 DEF Carries, Ops!Keeps
<1>4. new.artifact_ref = a /\ new.status = "pending" /\ r.human_reviews \in Seq(HumanReview)
  BY DEF Sound, Run
<1> HIDE DEF new
<1>5. /\ DOMAIN q.human_reviews = DOMAIN r.human_reviews \cup {n} /\ n = Len(q.human_reviews)
      /\ q.human_reviews[n] = new
      /\ \A h \in DOMAIN r.human_reviews : q.human_reviews[h] = r.human_reviews[h]
  <2> DEFINE s == r.human_reviews
  <2>1. s \in Seq(HumanReview) /\ q.human_reviews = Append(s, new)
    BY <1>2, <1>4
  <2> HIDE DEF s
  <2> QED
    BY <2>1, Appended DEF s
<1>6. /\ FinalCandidate(q) = a /\ \A b : IsCandidate(q, b) = IsCandidate(r, b)
  BY <1>3, LookupsKept
<1>7. IsJudged(q) /\ IsJudged(r) /\ ~InRework(q)
  BY <1>3 DEF IsJudged, InRework
<1>8. TasksInOrder(q)
  BY <1>3, <1>7 DEF IsOrdered, TasksInOrder
<1>9. ArtifactsInOrder(q)
  BY <1>3, <1>6, <1>7 DEF IsOrdered, ArtifactsInOrder
<1>10. CandidateInOrder(q)
  BY <1>1, <1>3, <1>6 DEF CandidateInOrder, IsFresh, IsCandidate
<1>11. ReviewsInOrder(q)
  BY <1>1, <1>3, <1>4, <1>5, <1>6 DEF ReviewsInOrder, NonePending
<1>12. PICK s \in Plans : Matches(r, s) /\ Len(r.tasks) = Len(s) + r.rework_count
  BY <1>7 DEF IsOrdered, Planned
<1>13. Matches(q, s)
  BY <1>3, <1>12 DEF Matches
<1>14. Planned(q)
  BY <1>3, <1>7, <1>12, <1>13 DEF Planned
<1>15. ReworksAnswer(q)
  BY <1>3, <1>5 DEF IsOrdered, ReworksAnswer
<1> QED
  BY <1>8, <1>9, <1>10, <1>11, <1>14, <1>15 DEF IsOrdered

(* A pending Review is decided.                                            *)
LEMMA DecidedOrdered ==
  ASSUME NEW r, Sound(r), IsOrdered(r), NEW h \in DOMAIN r.human_reviews,
         r.human_reviews[h].status = "pending",
         NEW decision \in ReviewStatus \ {"pending"}, NEW q, q = SubmitReview(r, h, decision)
  PROVE  IsOrdered(q)
<1>1. CanSubmitReview(r, h, decision)
  BY DEF CanSubmitReview
<1> DEFINE next == Ops!WithStatus(r.human_reviews[h], decision)
<1>2. /\ Carries(r, q, {"human_reviews"})
      /\ q.human_reviews = Ops!Updated(r.human_reviews, h, next)
  BY <1>1, SubmitReviewLegal, Zenon DEF Carries
<1>3. /\ Sound(q) /\ q.status = r.status /\ q.rework_count = r.rework_count
      /\ q.tasks = r.tasks /\ q.artifacts = r.artifacts /\ q.evaluations = r.evaluations
  BY <1>2 DEF Carries, Ops!Keeps
<1>4. /\ r.human_reviews \in Seq(HumanReview) /\ r.human_reviews[h] \in HumanReview
  BY DEF Sound, Run
<1>5. next.artifact_ref = r.human_reviews[h].artifact_ref /\ next.status = decision
  BY <1>4 DEF Ops!WithStatus, HumanReview
<1> HIDE DEF next
<1>6. /\ DOMAIN q.human_reviews = DOMAIN r.human_reviews
      /\ \A g \in DOMAIN r.human_reviews :
           /\ q.human_reviews[g].artifact_ref = r.human_reviews[g].artifact_ref
           /\ g # h => q.human_reviews[g].status = r.human_reviews[g].status
      /\ q.human_reviews[h].status = decision
  BY <1>2, <1>4, <1>5 DEF Ops!Updated
<1>7. /\ FinalCandidate(q) = FinalCandidate(r) /\ \A b : IsCandidate(q, b) = IsCandidate(r, b)
  BY <1>3, LookupsKept
<1>8. \A b : ReviewsOf(q, b) = ReviewsOf(r, b) /\ IsFresh(q, b) = IsFresh(r, b)
  BY <1>3, <1>6 DEF ReviewsOf, IsFresh, EvaluationsOf
<1>9. r.status = "waiting_human" /\ h = Len(r.human_reviews)
  BY DEF IsOrdered, ReviewsInOrder
<1>10. r.human_reviews # <<>>
  BY <1>4
<1>11. IsJudged(q) /\ IsJudged(r) /\ ~InRework(q)
  BY <1>3, <1>9 DEF IsJudged, InRework
<1>12. TasksInOrder(q)
  BY <1>3, <1>11 DEF IsOrdered, TasksInOrder
<1>13. ArtifactsInOrder(q)
  BY <1>3, <1>7, <1>9, <1>11 DEF IsOrdered, ArtifactsInOrder
<1>14. CandidateInOrder(q)
  BY <1>3, <1>7, <1>8, <1>10 DEF IsOrdered, CandidateInOrder
<1>15. ReviewsInOrder(q)
  <2>1. \A g \in DOMAIN r.human_reviews : r.human_reviews[g].status = "pending" => g = h
    BY <1>9 DEF IsOrdered, ReviewsInOrder
  <2> QED
    BY <1>6, <2>1 DEF ReviewsInOrder
<1>16. PICK s \in Plans : Matches(r, s) /\ Len(r.tasks) = Len(s) + r.rework_count
  BY <1>11 DEF IsOrdered, Planned
<1>17. Matches(q, s)
  BY <1>3, <1>16 DEF Matches
<1>18. Planned(q)
  BY <1>3, <1>11, <1>16, <1>17 DEF Planned
<1>19. ReworksAnswer(q)
  BY <1>3, <1>6 DEF IsOrdered, ReworksAnswer, ReworkDecisions
<1> QED
  BY <1>12, <1>13, <1>14, <1>15, <1>18, <1>19 DEF IsOrdered

-----------------------------------------------------------------------------
(* The steps of the Director keep its Runs in order.                       *)

(* IInv, with the order of what is stored and what an invocation knows of  *)
(* its plan.                                                               *)
OrderedInv == IInv /\ StoreInOrder /\ FollowsPlan

(* What a step does that does not complete the Run.                        *)
OrderedStep ==
  /\ StoreInOrder' /\ FollowsPlan'
  /\ stored' = stored \/ stored'.status # "completed"

(* A new Run is in order.                                                  *)
LEMMA NewRunOrdered == IsOrdered(NewRun)
<1>1. /\ NewRun.status = "created" /\ NewRun.rework_count = 0 /\ NewRun.tasks = <<>>
      /\ NewRun.artifacts = <<>> /\ NewRun.human_reviews = <<>> /\ NewRun.evaluations = <<>>
  BY DEF NewRun
<1>2. DOMAIN NewRun.tasks = {} /\ DOMAIN NewRun.artifacts = {}
      /\ DOMAIN NewRun.human_reviews = {} /\ Len(NewRun.tasks) = 0
  BY <1>1
<1>3. ~IsJudged(NewRun) /\ ~InRework(NewRun)
  BY <1>1 DEF IsJudged, InRework
<1> HIDE DEF NewRun
<1>4. TasksInOrder(NewRun) /\ ArtifactsInOrder(NewRun)
  BY <1>1, <1>2 DEF TasksInOrder, ArtifactsInOrder, IsCandidate
<1>5. CandidateInOrder(NewRun) /\ ReviewsInOrder(NewRun) /\ ReworksAnswer(NewRun)
  BY <1>1, <1>2 DEF CandidateInOrder, ReviewsInOrder, ReworksAnswer
<1>6. PICK p : p \in Plans
  BY PlanAssumption
<1>7. Matches(NewRun, p)
  BY <1>1, <1>2, <1>6, PlanPositions DEF Matches
<1>8. Planned(NewRun)
  BY <1>3, <1>6, <1>7 DEF Planned
<1> QED
  BY <1>4, <1>5, <1>8 DEF IsOrdered

(* What an invocation works on is in order.                                *)
LEMMA RunIsOrdered ==
  ASSUME OrderedInv, pc # "idle"
  PROVE  /\ IInv /\ IsKept(run) /\ Sound(run) /\ IsOrdered(run) /\ run # NoRun
         /\ plan \in Plans /\ KnowsPlan(pc, run, plan, index)
<1>1. /\ IsKept(run) /\ run # NoRun /\ plan \in Plans
      /\ stored = run \/ run = NewRun
  BY RunIsKept DEF OrderedInv
<1>2. IsOrdered(run)
  BY <1>1, NewRunOrdered DEF OrderedInv, StoreInOrder, IsStored
<1> QED
  BY <1>1, <1>2 DEF OrderedInv, FollowsPlan, IsKept

(* A commit of a Run in order keeps the store in order.                    *)
LEMMA OrderCommitted ==
  ASSUME NEW q, IsOrdered(q), q.status # "completed", NEW label,
         Commit(q, label), KnowsPlan(label, q, plan, index')
  PROVE  OrderedStep
<1>1. run' = q /\ stored' = q /\ pc' = label /\ plan' = plan
  BY DEF Commit
<1>2. KnowsPlan(pc', run', plan', index')
  BY <1>1
<1> QED
  BY <1>1, <1>2 DEF OrderedStep, StoreInOrder, FollowsPlan

(* An idle process knows nothing of a plan.                                *)
LEMMA OrderIdle ==
  ASSUME Stop
  PROVE  FollowsPlan'
<1>1. run' = NoRun /\ pc' = "idle" /\ plan' = <<>> /\ index' = 0
  BY DEF Stop
<1>2. KnowsPlan(pc', run', plan', index')
  BY <1>1 DEF KnowsPlan
<1> QED
  BY <1>2 DEF FollowsPlan

(* A last commit of a Run in order keeps the store in order.               *)
LEMMA OrderCommittedAndStopped ==
  ASSUME NEW q, IsOrdered(q), CommitAndStop(q)
  PROVE  /\ StoreInOrder' /\ FollowsPlan'
         /\ q.status # "completed" => OrderedStep
<1>1. stored' = q /\ Stop
  BY DEF CommitAndStop
<1> QED
  BY <1>1, OrderIdle DEF OrderedStep, StoreInOrder

(* The end of an invocation without a commit keeps the store in order.     *)
LEMMA OrderReturned ==
  ASSUME OrderedInv, Return
  PROVE  OrderedStep
<1>1. stored' = stored /\ Stop
  BY DEF Return
<1> QED
  BY <1>1, OrderIdle DEF OrderedStep, StoreInOrder, OrderedInv, IsStored

(* A step in memory keeps the store in order.                              *)
LEMMA OrderWentOn ==
  ASSUME OrderedInv, NEW label, Goto(label), KnowsPlan(label, run, plan, index')
  PROVE  OrderedStep
<1>1. /\ pc' = label /\ stored' = stored /\ run' = run /\ plan' = plan
  BY DEF Goto
<1>2. KnowsPlan(pc', run', plan', index')
  BY <1>1
<1> QED
  BY <1>1, <1>2 DEF OrderedStep, StoreInOrder, FollowsPlan, OrderedInv, IsStored

(* A refusal keeps the store in order.                                     *)
LEMMA OrderRefused ==
  ASSUME OrderedInv, Refuse
  PROVE  OrderedStep
<1>1. Goto("refused") /\ KnowsPlan("refused", run, plan, index')
  BY DEF Refuse, KnowsPlan
<1> QED
  BY <1>1, OrderWentOn

(* What a transition of the Run changes.                                   *)
LEMMA MoveEffect ==
  ASSUME NEW r, IsKept(r), NEW to \in RunStatus, NEW reason \in FailureReason \cup {"none"},
         CanTransition(r, to), to = "waiting_qa" => AllTasksSucceeded(r),
         NEW q, q = Transition(r, to, reason)
  PROVE  /\ SameBut(r, q) /\ q.status = to /\ IsKept(q)
         /\ q.rework_count = IF IsRework(r, to) THEN r.rework_count + 1 ELSE r.rework_count
<1>1. /\ Carries(r, q, {"status"}) /\ q.status = to /\ Advances(r, q)
      /\ q.rework_count = IF IsRework(r, to) THEN r.rework_count + 1 ELSE r.rework_count
  BY AdvancesMoving
<1> QED
  BY <1>1 DEF Carries, Ops!Keeps, SameBut, Advances

(* A Run without a pending Review fails and stays in order.                *)
LEMMA FailEffect ==
  ASSUME NEW r, IsKept(r), r.status \notin {"completed", "failed"},
         IsOrdered(r), NonePending(r), NEW reason \in FailureReason
  PROVE  IsOrdered(Fail(r, reason)) /\ Fail(r, reason).status # "completed"
<1> DEFINE q == Fail(r, reason)
<1>1. r.status \in RunStatus
  BY DEF IsKept, Sound, Run
<1>2. CanTransition(r, "failed") /\ ~IsRework(r, "failed") /\ "failed" \in RunStatus
  BY <1>1 DEF CanTransition, AllowedTransitions, RunStatus, IsRework
<1>3. q = Transition(r, "failed", reason)
  BY DEF Fail
<1> HIDE DEF q
<1>4. SameBut(r, q) /\ q.status = "failed" /\ q.rework_count = r.rework_count
  BY <1>2, <1>3, MoveEffect
<1>5. IsOrdered(q)
  BY <1>4, FailedOrdered DEF IsKept
<1> QED
  BY <1>4, <1>5 DEF q

(* An invocation begins, in order.                                         *)
LEMMA InvokeOrdered == ASSUME OrderedInv, Invoke PROVE OrderedStep
<1>1. /\ plan' \in Plans /\ stored' = stored
      /\ \/ stored = NoRun /\ run' = NewRun
         \/ stored # NoRun /\ run' = stored
      /\ pc' = IF run'.status = "running" /\ ~Matches(run', plan') THEN "refused" ELSE "drive"
  BY DEF Invoke
<1>2. KnowsPlan(pc', run', plan', index')
  BY <1>1 DEF KnowsPlan
<1> QED
  BY <1>1, <1>2 DEF OrderedStep, StoreInOrder, FollowsPlan, OrderedInv, IsStored

(* A Run is queued, in order.                                              *)
LEMMA QueueOrdered == ASSUME OrderedInv, Queue PROVE OrderedStep
<1> DEFINE q == MoveTo(run, "queued")
<1>1. run.status = "created" /\ index' = index /\ Commit(q, "drive") /\ pc # "idle"
  BY DEF Queue, At
<1>2. CanTransition(run, "queued") /\ ~IsRework(run, "queued") /\ "queued" \in RunStatus
      /\ q = Transition(run, "queued", "none")
  BY <1>1 DEF CanTransition, AllowedTransitions, IsRework, RunStatus, MoveTo
<1> HIDE DEF q
<1>3. SameBut(run, q) /\ q.status = "queued" /\ q.rework_count = run.rework_count
  BY <1>1, <1>2, RunIsOrdered, MoveEffect
<1>4. IsOrdered(q)
  BY <1>1, <1>3, RunIsOrdered, BeginningOrdered
<1>5. KnowsPlan("drive", q, plan, index')
  BY <1>3 DEF KnowsPlan
<1> QED
  BY <1>1, <1>3, <1>4, <1>5, OrderCommitted

(* A Run is started, in order.                                             *)
LEMMA StartOrdered == ASSUME OrderedInv, Start PROVE OrderedStep
<1> DEFINE q == MoveTo(run, "running")
<1>1. run.status = "queued" /\ index' = index /\ Commit(q, "drive") /\ pc # "idle"
  BY DEF Start, At
<1>2. CanTransition(run, "running") /\ ~IsRework(run, "running") /\ "running" \in RunStatus
      /\ q = Transition(run, "running", "none")
  BY <1>1 DEF CanTransition, AllowedTransitions, IsRework, ReworkSources, RunStatus, MoveTo
<1> HIDE DEF q
<1>3. SameBut(run, q) /\ q.status = "running" /\ q.rework_count = run.rework_count
  BY <1>1, <1>2, RunIsOrdered, MoveEffect
<1>4. IsOrdered(q)
  BY <1>1, <1>3, RunIsOrdered, BeginningOrdered
<1>5. KnowsPlan("drive", q, plan, index')
  <2>1. q.tasks = <<>> /\ q.rework_count = 0 /\ plan \in Plans
    BY <1>1, <1>3, RunIsOrdered DEF IsOrdered, TasksInOrder, SameBut
  <2>2. Matches(q, plan)
    BY <2>1, PlanPositions DEF Matches
  <2> QED
    BY <1>3, <2>2 DEF KnowsPlan
<1> QED
  BY <1>1, <1>3, <1>4, <1>5, OrderCommitted

(* The plan is entered, in order.                                          *)
LEMMA EnterStepsOrdered == ASSUME OrderedInv, EnterSteps PROVE OrderedStep
<1>1. /\ pc = "drive" /\ run.status = "running" /\ run.rework_count = 0
      /\ Goto("steps") /\ index' = 1
  BY DEF EnterSteps, At
<1>2. KnowsPlan("steps", run, plan, index')
  BY <1>1, RunIsOrdered DEF KnowsPlan
<1> QED
  BY <1>1, <1>2, OrderWentOn

(* The plan is at its end, in order.                                       *)
LEMMA EndStepsOrdered == ASSUME OrderedInv, EndSteps PROVE OrderedStep
<1>1. /\ pc = "steps" /\ pc # "idle" /\ index > Len(plan) /\ Goto("ruling") /\ index' = index
      /\ run.status = "running" /\ run.rework_count = 0 /\ index \in 1..(Len(run.tasks) + 1)
  BY DEF EndSteps, OrderedInv, IInv, InControl
<1>2. Matches(run, plan) /\ plan \in Plans /\ Sound(run)
  BY <1>1, RunIsOrdered DEF KnowsPlan
<1>3. Len(run.tasks) = Len(plan)
  BY <1>1, <1>2, PlanPositions, ArtifactPlaces DEF Matches
<1>4. Len(run.tasks) = Len(plan) + run.rework_count
  BY <1>1, <1>2, <1>3, PlanPositions
<1>5. KnowsPlan("ruling", run, plan, index')
  BY <1>1, <1>2, <1>4 DEF KnowsPlan
<1> QED
  BY <1>1, <1>5, OrderWentOn

(* The Task at work in the plan ended, and its Output was taken up: what   *)
(* the invocation knows when it goes on or stops.                          *)
LEMMA KnowsAfterStep ==
  ASSUME NEW q, Sound(q), TasksInOrder(q), q.rework_count = 0, NEW p \in Plans, Matches(q, p),
         NEW i \in DOMAIN q.tasks
  PROVE  /\ StopsPlan(q.tasks[i]) => KnowsPlan("ruling", q, p, i)
         /\ ~StopsPlan(q.tasks[i]) => KnowsPlan("steps", q, p, i + 1)
<1>1. StopsPlan(q.tasks[i]) <=> ~IsGood(q.tasks[i])
  BY DEF StopsPlan, IsGood
<1>2. ASSUME IsGood(q.tasks[i]), NEW t \in 1..((i + 1) - 1)
      PROVE  IsGood(q.tasks[t])
  BY <1>2, ArtifactPlaces DEF TasksInOrder
<1> QED
  BY <1>1, <1>2 DEF KnowsPlan

(* A finished Task is passed by, with the Artifact it lacks, in order.     *)
LEMMA PassTerminalTaskOrdered == ASSUME OrderedInv, PassTerminalTask PROVE OrderedStep
<1> DEFINE q == WithArtifact(run, index)
<1>1. /\ pc = "steps" /\ pc # "idle" /\ run.status = "running" /\ run.rework_count = 0
      /\ index \in 1..(Len(run.tasks) + 1) /\ index <= Len(run.tasks)
      /\ run' = q /\ stored' = (IF q = run THEN stored ELSE q) /\ plan' = plan
      /\ IF StopsPlan(run.tasks[index]) THEN pc' = "ruling" /\ index' = index
                                        ELSE index' = index + 1 /\ pc' = pc
  BY DEF PassTerminalTask, InPlan, IsOpened, OrderedInv, IInv, InControl
<1>2. /\ Sound(run) /\ IsOrdered(run) /\ plan \in Plans /\ Matches(run, plan)
      /\ index \in DOMAIN run.tasks /\ q = WithArtifact(run, index)
  BY <1>1, RunIsOrdered, OpenedPosition DEF KnowsPlan
<1> HIDE DEF q
<1>3. /\ IsOrdered(q) /\ Matches(q, plan) /\ q.tasks = run.tasks /\ q.rework_count = 0
      /\ q.status = "running"
  BY <1>1, <1>2, ArtifactAddedOrdered
<1>4. Sound(q)
  BY <1>2, WithArtifactEffect DEF Carries
<1>5. KnowsPlan(pc', run', plan', index')
  <2>1. /\ StopsPlan(q.tasks[index]) => KnowsPlan("ruling", q, plan, index)
        /\ ~StopsPlan(q.tasks[index]) => KnowsPlan("steps", q, plan, index + 1)
    BY <1>2, <1>3, <1>4, KnowsAfterStep DEF IsOrdered
  <2> QED
    BY <1>1, <1>3, <2>1
<1>6. StoreInOrder'
  BY <1>1, <1>3 DEF StoreInOrder, OrderedInv, IsStored
<1> QED
  BY <1>1, <1>3, <1>5, <1>6 DEF OrderedStep, FollowsPlan

(* A lost Task is tried again, or fails, in order.                         *)
LEMMA ResumeTaskOrdered == ASSUME OrderedInv, ResumeTask PROVE OrderedStep
<1>1. /\ pc = "steps" /\ pc # "idle" /\ run.status = "running" /\ run.rework_count = 0
      /\ index \in 1..(Len(run.tasks) + 1) /\ index <= Len(run.tasks)
      /\ ~IsTerminalTask(run.tasks[index]) /\ index' = index
  BY DEF ResumeTask, InPlan, IsOpened, OrderedInv, IInv, InControl
<1>2. /\ IsKept(run) /\ Sound(run) /\ IsOrdered(run) /\ index \in DOMAIN run.tasks
      /\ plan \in Plans /\ Matches(run, plan)
  BY <1>1, RunIsOrdered, OpenedPosition DEF KnowsPlan
<1> DEFINE to == IF HasAttemptsLeft(run.tasks[index]) THEN "running" ELSE "failed"
           q == TransitionTask(run, index, to)
           label == IF HasAttemptsLeft(run.tasks[index]) THEN "executing" ELSE "ruling"
<1>3. Commit(q, label)
  BY <1>1 DEF ResumeTask
<1>4. /\ q = TransitionTask(run, index, to)
      /\ to = IF HasAttemptsLeft(run.tasks[index]) THEN "running" ELSE "failed"
      /\ label \in {"executing", "ruling"} /\ (label = "ruling" => to = "failed")
  OBVIOUS
<1> HIDE DEF q, to, label
<1>5. Carries(run, q, {"tasks"}) /\ OneTaskMoves(run, q, index) /\ q.tasks[index].status = to
  BY <1>1, <1>2, <1>4, AdvancesTrying
<1>6. /\ Sound(q) /\ q.status = "running" /\ q.rework_count = 0 /\ q.artifacts = run.artifacts
      /\ q.human_reviews = run.human_reviews /\ q.evaluations = run.evaluations
      /\ index \in DOMAIN q.tasks
  BY <1>1, <1>2, <1>5 DEF Carries, Ops!Keeps, OneTaskMoves
<1>7. IsOrdered(q) /\ Matches(q, plan)
  BY <1>1, <1>2, <1>5, <1>6, MovedOrdered
<1>8. KnowsPlan(label, q, plan, index')
  <2>1. label = "ruling" => ~IsGood(q.tasks[index])
    BY <1>4, <1>5 DEF IsGood
  <2> QED
    BY <1>4, <1>6, <1>7, <2>1 DEF KnowsPlan
<1> QED
  BY <1>3, <1>6, <1>7, <1>8, OrderCommitted

(* The next step is opened and started, in order.                          *)
LEMMA OpenStepOrdered == ASSUME OrderedInv, OpenStep PROVE OrderedStep
<1>1. /\ pc = "steps" /\ pc # "idle" /\ run.status = "running" /\ run.rework_count = 0
      /\ index \in 1..(Len(run.tasks) + 1) /\ ~(index <= Len(run.tasks))
      /\ index <= Len(plan) /\ index' = index
  BY DEF OpenStep, InPlan, IsOpened, OrderedInv, IInv, InControl
<1>2. /\ IsKept(run) /\ Sound(run) /\ IsOrdered(run) /\ plan \in Plans /\ Matches(run, plan)
      /\ index \in Nat \ {0} /\ index = Len(run.tasks) + 1
      /\ \A t \in 1..(index - 1) : IsGood(run.tasks[t])
  BY <1>1, RunIsOrdered, OpenedPosition DEF KnowsPlan
<1>3. /\ index \in DOMAIN plan /\ DOMAIN run.tasks = 1..(index - 1) /\ Len(run.tasks) < Len(plan)
  BY <1>1, <1>2, PlanPositions, ArtifactPlaces
<1> DEFINE input == ChainedInput(run, index)
           q == StartTask(run, plan[index], input)
<1>4. Commit(q, "executing") /\ input \in TaskInput
  BY <1>2, ChainedInputTyped DEF OpenStep
<1>5. q = StartTask(run, plan[index], input) /\ input = ChainedInput(run, index)
  OBVIOUS
<1> HIDE DEF q, input
<1>6. /\ Carries(run, q, {"tasks"}) /\ Len(q.tasks) = Len(run.tasks) + 1
      /\ \A t \in DOMAIN run.tasks : q.tasks[t] = run.tasks[t]
      /\ q.tasks[Len(q.tasks)].step = plan[index]
      /\ q.tasks[Len(q.tasks)].task_input = input
  BY <1>2, <1>3, <1>4, <1>5, StartTaskEffect
<1>7. /\ input.from = "output" =>
           input.ref \in DOMAIN run.tasks /\ run.tasks[input.ref].output = "valid"
      /\ input.from # "rework"
  BY <1>2, <1>3, <1>5, ChainedInputFromValid
<1>8. q.tasks[Len(q.tasks)].step = plan[Len(q.tasks)]
  BY <1>2, <1>6
<1>9. IsOrdered(q) /\ Matches(q, plan)
  BY <1>1, <1>2, <1>3, <1>6, <1>7, <1>8, StepStartedOrdered
<1>10. KnowsPlan("executing", q, plan, index') /\ q.status # "completed"
  BY <1>1, <1>6, <1>9 DEF KnowsPlan, Carries, Ops!Keeps
<1> QED
  BY <1>4, <1>9, <1>10, OrderCommitted

(* The Answer of an executor is recorded.                                  *)
LEMMA FinishedOrdered ==
  ASSUME NEW r, Sound(r), IsOrdered(r), r.status = "running",
         NEW t \in DOMAIN r.tasks, r.tasks[t].status = "running",
         NEW answer \in Answers, NEW n, n = FinishTask(r, t, answer)
  PROVE  /\ Sound(n) /\ IsOrdered(n) /\ n.status = "running" /\ n.rework_count = r.rework_count
         /\ n.artifacts = r.artifacts /\ n.human_reviews = r.human_reviews
         /\ DOMAIN n.tasks = DOMAIN r.tasks /\ Len(n.tasks) = Len(r.tasks)
         /\ t = Len(r.tasks)
         /\ \A p \in Plans : Matches(r, p) => Matches(n, p)
         /\ \A k \in Nat : ReworkInOrder(r, k) => ReworkInOrder(n, k)
<1>1. Carries(r, n, {"tasks", "analytics_records"}) /\ OneTaskMoves(r, n, t)
  BY FinishTaskEffect
<1>2. /\ Sound(n) /\ n.status = "running" /\ n.rework_count = r.rework_count
      /\ n.artifacts = r.artifacts /\ n.human_reviews = r.human_reviews
      /\ n.evaluations = r.evaluations
      /\ DOMAIN n.tasks = DOMAIN r.tasks /\ Len(n.tasks) = Len(r.tasks)
  BY <1>1 DEF Carries, Ops!Keeps, OneTaskMoves
<1>3. ~IsTerminalTask(r.tasks[t])
  BY DEF IsTerminalTask, TerminalTaskStates
<1>4. /\ IsOrdered(n) /\ t = Len(r.tasks)
      /\ \A p \in Plans : Matches(r, p) => Matches(n, p)
      /\ \A k \in Nat : ReworkInOrder(r, k) => ReworkInOrder(n, k)
  BY <1>1, <1>2, <1>3, MovedOrdered
<1> QED
  BY <1>2, <1>4

(* The executor answers, in order.                                         *)
LEMMA StepAnsweredOrdered == ASSUME OrderedInv, StepAnswered PROVE OrderedStep
<1>1. /\ pc = "executing" /\ pc # "idle" /\ run.rework_count = 0 /\ index \in DOMAIN run.tasks
      /\ run.status = "running" /\ run.tasks[index].status = "running" /\ index \in Nat
  BY DEF StepAnswered, OrderedInv, IInv, InControl
<1>2. Sound(run) /\ IsOrdered(run) /\ plan \in Plans /\ Matches(run, plan)
  BY <1>1, RunIsOrdered DEF KnowsPlan
<1>3. PICK answer \in Answers :
        LET r == WithArtifact(FinishTask(run, index, answer), index)
        IN  IF StopsPlan(r.tasks[index])
              THEN Commit(r, "ruling") /\ UNCHANGED index
              ELSE Commit(r, "steps") /\ index' = index + 1
  BY DEF StepAnswered
<1> DEFINE n == FinishTask(run, index, answer)
           q == WithArtifact(n, index)
<1>4. n = FinishTask(run, index, answer) /\ q = WithArtifact(n, index)
  OBVIOUS
<1>5. IF StopsPlan(q.tasks[index]) THEN Commit(q, "ruling") /\ index' = index
                                   ELSE Commit(q, "steps") /\ index' = index + 1
  BY <1>3
<1> HIDE DEF n, q
<1>6. /\ Sound(n) /\ IsOrdered(n) /\ n.status = "running" /\ n.rework_count = 0
      /\ DOMAIN n.tasks = DOMAIN run.tasks /\ Matches(n, plan)
  BY <1>1, <1>2, <1>4, FinishedOrdered
<1>7. /\ IsOrdered(q) /\ Matches(q, plan) /\ q.tasks = n.tasks /\ q.rework_count = 0
      /\ q.status = "running"
  BY <1>1, <1>2, <1>4, <1>6, ArtifactAddedOrdered
<1>8. Sound(q) /\ index \in DOMAIN q.tasks
  BY <1>1, <1>4, <1>6, <1>7, WithArtifactEffect DEF Carries
<1>9. /\ StopsPlan(q.tasks[index]) => KnowsPlan("ruling", q, plan, index)
      /\ ~StopsPlan(q.tasks[index]) => KnowsPlan("steps", q, plan, index + 1)
  BY <1>2, <1>7, <1>8, KnowsAfterStep DEF IsOrdered
<1>10. CASE StopsPlan(q.tasks[index])
  <2>1. KnowsPlan("ruling", q, plan, index')
    BY <1>5, <1>9, <1>10
  <2> QED
    BY <1>5, <1>7, <1>10, <2>1, OrderCommitted
<1>11. CASE ~StopsPlan(q.tasks[index])
  <2>1. KnowsPlan("steps", q, plan, index')
    BY <1>5, <1>9, <1>11
  <2> QED
    BY <1>5, <1>7, <1>11, <2>1, OrderCommitted
<1> QED
  BY <1>10, <1>11

(* A rework begins, or fails at its limit, in order.                       *)
LEMMA BeginReworkOrdered == ASSUME OrderedInv, BeginRework PROVE OrderedStep
<1>1. /\ pc # "idle" /\ ReworkRequested(run) /\ run.status = "waiting_human"
  BY DEF BeginRework, ReworkRequested
<1>2. IsKept(run) /\ Sound(run) /\ IsOrdered(run) /\ plan \in Plans
  BY <1>1, RunIsOrdered
<1>3. CASE Refuse
  BY <1>3, OrderRefused
<1>4. CASE /\ Matches(run, plan) /\ CanTransition(run, "running")
           /\ Commit(MoveTo(run, "running"), "drive") /\ UNCHANGED index
  <2> DEFINE q == MoveTo(run, "running")
  <2>1. /\ IsRework(run, "running") /\ "running" \in RunStatus
        /\ q = Transition(run, "running", "none")
    BY <1>1 DEF IsRework, ReworkSources, RunStatus, MoveTo
  <2>2. Commit(q, "drive")
    BY <1>4
  <2> HIDE DEF q
  <2>3. SameBut(run, q) /\ q.status = "running" /\ q.rework_count = run.rework_count + 1
    BY <1>2, <1>4, <2>1, MoveEffect
  <2>4. IsOrdered(q)
    BY <1>1, <1>2, <2>3, ReworkBegunOrdered
  <2>5. Matches(q, plan)
    <3>1. run.rework_count \in Nat
      BY <1>2, ArtifactPlaces
    <3> QED
      BY <1>2, <1>4, <2>3, <3>1, MatchesKept DEF SameBut
  <2>6. KnowsPlan("drive", q, plan, index')
    BY <2>5 DEF KnowsPlan
  <2> QED
    BY <2>2, <2>3, <2>4, <2>6, OrderCommitted
<1>5. CASE CommitAndStop(Fail(run, "rework limit"))
  <2>1. NonePending(run)
    BY <1>1, <1>2, ReviewedCandidate DEF ReworkRequested, IsReviewOf, ReworkDecisions
  <2>2. IsOrdered(Fail(run, "rework limit")) /\ Fail(run, "rework limit").status # "completed"
    BY <1>1, <1>2, <2>1, FailEffect DEF FailureReason
  <2> QED
    BY <1>5, <2>2, OrderCommittedAndStopped
<1> QED
  BY <1>3, <1>4, <1>5 DEF BeginRework

(* The plan an invocation follows a Run with in a rework is as long as the *)
(* one the Run was passed on with: the Run has more Tasks than each.       *)
LEMMA ReworkPlansAgree ==
  ASSUME NEW r, Sound(r), InRework(r), NEW p \in Plans, Matches(r, p), Len(p) <= Len(r.tasks),
         IsOrdered(r)
  PROVE  ReworkInOrder(r, Len(p))
<1>1. PICK s \in Plans : Matches(r, s) /\ ReworkInOrder(r, Len(s))
  BY OrderedInRework DEF InRework
<1>2. Len(r.tasks) \in Nat /\ r.rework_count \in Nat /\ r.rework_count > 0
      /\ Len(s) \in Nat
  BY ArtifactPlaces, PlanPositions DEF InRework
<1>3. Len(s) <= Len(r.tasks)
  BY <1>1, <1>2 DEF ReworkInOrder
<1> QED
  BY <1>1, <1>3, PlansAgree

(* A rework is entered, in order.                                          *)
LEMMA EnterReworkOrdered == ASSUME OrderedInv, EnterRework PROVE OrderedStep
<1>1. /\ pc = "drive" /\ pc # "idle" /\ run.status = "running" /\ run.rework_count > 0
  BY DEF EnterRework, At
<1>2. Sound(run) /\ IsOrdered(run) /\ plan \in Plans /\ InRework(run)
  BY <1>1, RunIsOrdered DEF InRework
<1>3. CASE Refuse
  BY <1>3, OrderRefused
<1>4. CASE /\ Matches(run, plan) /\ Len(plan) <= Len(run.tasks)
           /\ Goto("rework") /\ index' = ReworkIndex
  <2>1. ReworkInOrder(run, Len(plan))
    BY <1>2, <1>4, ReworkPlansAgree
  <2>2. KnowsPlan("rework", run, plan, index')
    BY <1>4, <2>1 DEF KnowsPlan, ReworkIndex
  <2> QED
    BY <1>4, <2>2, OrderWentOn
<1> QED
  BY <1>3, <1>4 DEF EnterRework

(* What an invocation at work on a rework has before it.                   *)
LEMMA AtRework ==
  ASSUME OrderedInv, pc \in {"rework", "executing"}, run.rework_count > 0
  PROVE  /\ pc # "idle" /\ IsKept(run) /\ Sound(run) /\ IsOrdered(run) /\ InRework(run)
         /\ run.status = "running" /\ plan \in Plans /\ Matches(run, plan)
         /\ ReworkInOrder(run, Len(plan)) /\ index = Len(plan) + run.rework_count
         /\ index \in Nat /\ index \in 1..(Len(run.tasks) + 1)
         /\ index <= Len(run.tasks) => index \in DOMAIN run.tasks
<1>1. /\ pc # "idle" /\ run.status = "running" /\ InRework(run)
      /\ index \in Nat
      /\ pc = "rework" => index \in 1..(Len(run.tasks) + 1)
      /\ pc = "executing" => index \in DOMAIN run.tasks
  BY DEF OrderedInv, IInv, InControl, InRework
<1>2. /\ IsKept(run) /\ Sound(run) /\ IsOrdered(run) /\ plan \in Plans
      /\ KnowsPlan(pc, run, plan, index)
  BY <1>1, RunIsOrdered
<1>3. index \in 1..(Len(run.tasks) + 1)
  BY <1>1, <1>2, ArtifactPlaces
<1>4. index <= Len(run.tasks) => index \in DOMAIN run.tasks
  BY <1>2, <1>3, OpenedPosition
<1> QED
  BY <1>1, <1>2, <1>3, <1>4 DEF KnowsPlan

(* The Task of a rework is opened, in order.                               *)
LEMMA OpenReworkOrdered == ASSUME OrderedInv, OpenRework PROVE OrderedStep
<1>1. /\ pc = "rework" /\ run.rework_count > 0 /\ ~(index <= Len(run.tasks))
  BY DEF OpenRework, IsOpened, OrderedInv, IInv, InControl
<1>2. /\ IsKept(run) /\ Sound(run) /\ IsOrdered(run) /\ InRework(run) /\ plan \in Plans
      /\ Matches(run, plan) /\ ReworkInOrder(run, Len(plan))
      /\ index = Len(plan) + run.rework_count /\ index \in 1..(Len(run.tasks) + 1)
  BY <1>1, AtRework
<1>3. /\ Len(run.tasks) + 1 = Len(plan) + run.rework_count /\ Len(plan) \in DOMAIN plan
  <2>1. Len(plan) \in Nat \ {0} /\ Len(plan) \in DOMAIN plan
    BY <1>2, PlanPositions
  <2>2. Len(run.tasks) \in Nat /\ run.rework_count \in Nat
    BY <1>2, ArtifactPlaces
  <2> QED
    BY <1>1, <1>2, <2>1, <2>2
<1>4. CASE Refuse
  BY <1>4, OrderRefused
<1>5. CASE /\ HasReworkSource(run)
           /\ Commit(StartTask(run, plan[Len(plan)], ReworkInput(run)), "executing")
           /\ UNCHANGED index
  <2> DEFINE input == ReworkInput(run)
             q == StartTask(run, plan[Len(plan)], input)
  <2>1. Commit(q, "executing") /\ input \in TaskInput /\ index' = index
    BY <1>2, <1>5, ReworkInputTyped
  <2>2. q = StartTask(run, plan[Len(plan)], input) /\ input = ReworkInput(run)
    OBVIOUS
  <2> HIDE DEF q, input
  <2>3. /\ Carries(run, q, {"tasks"}) /\ Len(q.tasks) = Len(run.tasks) + 1
        /\ \A t \in DOMAIN run.tasks : q.tasks[t] = run.tasks[t]
        /\ q.tasks[Len(q.tasks)].step = plan[Len(plan)]
        /\ q.tasks[Len(q.tasks)].task_input = ReworkInput(run)
    BY <1>2, <1>3, <2>1, <2>2, StartTaskEffect
  <2>4. IsOrdered(q) /\ Matches(q, plan) /\ ReworkInOrder(q, Len(plan))
    BY <1>2, <1>3, <1>5, <2>3, ReworkStartedOrdered
  <2>5. /\ q.status = "running" /\ q.rework_count = run.rework_count
    BY <1>2, <2>3 DEF Carries, Ops!Keeps, InRework
  <2>6. KnowsPlan("executing", q, plan, index')
    BY <1>2, <2>1, <2>4, <2>5 DEF KnowsPlan
  <2> QED
    BY <2>1, <2>4, <2>5, <2>6, OrderCommitted
<1> QED
  BY <1>4, <1>5 DEF OpenRework

(* The lost Task of a rework is tried again, or fails, in order.           *)
LEMMA ResumeReworkOrdered == ASSUME OrderedInv, ResumeRework PROVE OrderedStep
<1>1. /\ pc = "rework" /\ run.rework_count > 0 /\ index <= Len(run.tasks)
      /\ ~IsTerminalTask(run.tasks[index]) /\ index' = index
  BY DEF ResumeRework, IsOpened, OrderedInv, IInv, InControl
<1>2. /\ IsKept(run) /\ Sound(run) /\ IsOrdered(run) /\ run.status = "running"
      /\ plan \in Plans /\ Matches(run, plan) /\ ReworkInOrder(run, Len(plan))
      /\ index = Len(plan) + run.rework_count /\ index \in DOMAIN run.tasks
      /\ Len(plan) \in Nat
  BY <1>1, AtRework, PlanPositions
<1> DEFINE to == IF HasAttemptsLeft(run.tasks[index]) THEN "running" ELSE "failed"
           q == TransitionTask(run, index, to)
           label == IF HasAttemptsLeft(run.tasks[index])
                      THEN IF HasReworkSource(run) THEN "executing" ELSE "refused"
                      ELSE "ruling"
<1>3. Commit(q, label)
  BY <1>1 DEF ResumeRework
<1>4. /\ q = TransitionTask(run, index, to)
      /\ to = IF HasAttemptsLeft(run.tasks[index]) THEN "running" ELSE "failed"
      /\ label \in {"executing", "ruling", "refused"} /\ (label = "ruling" => to = "failed")
  OBVIOUS
<1> HIDE DEF q, to, label
<1>5. Carries(run, q, {"tasks"}) /\ OneTaskMoves(run, q, index) /\ q.tasks[index].status = to
  BY <1>1, <1>2, <1>4, AdvancesTrying
<1>6. /\ Sound(q) /\ q.status = "running" /\ q.rework_count = run.rework_count
      /\ q.artifacts = run.artifacts
      /\ q.human_reviews = run.human_reviews /\ q.evaluations = run.evaluations
      /\ index \in DOMAIN q.tasks
  BY <1>2, <1>5 DEF Carries, Ops!Keeps, OneTaskMoves
<1>7. IsOrdered(q) /\ Matches(q, plan) /\ ReworkInOrder(q, Len(plan))
  BY <1>1, <1>2, <1>5, <1>6, MovedOrdered, Zenon
<1>8. KnowsPlan(label, q, plan, index')
  <2>1. label = "ruling" => ~IsGood(q.tasks[index])
    BY <1>4, <1>5 DEF IsGood
  <2> QED
    BY <1>1, <1>2, <1>4, <1>6, <1>7, <2>1 DEF KnowsPlan
<1> QED
  BY <1>3, <1>6, <1>7, <1>8, OrderCommitted

(* The finished Task of a rework is passed by, in order.                   *)
LEMMA PassTerminalReworkOrdered == ASSUME OrderedInv, PassTerminalRework PROVE OrderedStep
<1> DEFINE q == WithSuccessor(run, index)
<1>1. /\ pc = "rework" /\ run.rework_count > 0 /\ index <= Len(run.tasks)
      /\ \/ q = run /\ Goto("ruling") /\ index' = index
         \/ Commit(q, "ruling") /\ index' = index
         \/ Refuse
  BY DEF PassTerminalRework, IsOpened, OrderedInv, IInv, InControl
<1>2. /\ Sound(run) /\ IsOrdered(run) /\ InRework(run) /\ plan \in Plans
      /\ Matches(run, plan) /\ ReworkInOrder(run, Len(plan))
      /\ index = Len(plan) + run.rework_count /\ index \in DOMAIN run.tasks
      /\ index \in Nat /\ q = WithSuccessor(run, index)
  BY <1>1, AtRework
<1> HIDE DEF q
<1>3. /\ IsOrdered(q) /\ Matches(q, plan) /\ ReworkInOrder(q, Len(plan))
      /\ q.tasks = run.tasks /\ q.status = "running" /\ q.rework_count = run.rework_count
      /\ q.tasks[index].output = "valid" => ArtifactOf(q, index) # 0
  BY <1>2, SuccessorOrdered
<1>4. Len(q.tasks) = index
  BY <1>2, <1>3, ArtifactPlaces, PlanPositions DEF ReworkInOrder
<1>5. KnowsPlan("ruling", q, plan, index)
  BY <1>2, <1>3, <1>4 DEF KnowsPlan
<1>6. CASE q = run /\ Goto("ruling") /\ index' = index
  <2>1. KnowsPlan("ruling", run, plan, index')
    BY <1>5, <1>6
  <2> QED
    BY <1>6, <2>1, OrderWentOn
<1>7. CASE Commit(q, "ruling") /\ index' = index
  <2>1. KnowsPlan("ruling", q, plan, index')
    BY <1>5, <1>7
  <2> QED
    BY <1>3, <1>7, <2>1, OrderCommitted
<1> QED
  BY <1>1, <1>6, <1>7, OrderRefused

(* The executor answers a rework, in order.                                *)
LEMMA ReworkAnsweredOrdered == ASSUME OrderedInv, ReworkAnswered PROVE OrderedStep
<1>1. /\ pc = "executing" /\ run.rework_count > 0 /\ index' = index
      /\ index \in DOMAIN run.tasks /\ run.tasks[index].status = "running"
  BY DEF ReworkAnswered, OrderedInv, IInv, InControl
<1>2. /\ Sound(run) /\ IsOrdered(run) /\ InRework(run) /\ plan \in Plans
      /\ Matches(run, plan) /\ ReworkInOrder(run, Len(plan)) /\ run.status = "running"
      /\ index = Len(plan) + run.rework_count /\ Len(plan) \in Nat
  BY <1>1, AtRework, PlanPositions
<1>3. PICK answer \in Answers :
        Commit(WithSuccessor(FinishTask(run, index, answer), index), "ruling")
  BY DEF ReworkAnswered
<1> DEFINE n == FinishTask(run, index, answer)
           q == WithSuccessor(n, index)
<1>4. n = FinishTask(run, index, answer) /\ q = WithSuccessor(n, index) /\ Commit(q, "ruling")
  BY <1>3
<1> HIDE DEF n, q
<1>5. /\ Sound(n) /\ IsOrdered(n) /\ n.status = "running" /\ n.rework_count = run.rework_count
      /\ DOMAIN n.tasks = DOMAIN run.tasks /\ Len(n.tasks) = Len(run.tasks)
      /\ index = Len(run.tasks) /\ Matches(n, plan) /\ ReworkInOrder(n, Len(plan))
  BY <1>1, <1>2, <1>4, FinishedOrdered
<1>6. InRework(n) /\ index \in DOMAIN n.tasks /\ index = Len(plan) + n.rework_count
  BY <1>1, <1>2, <1>5 DEF InRework
<1>7. /\ IsOrdered(q) /\ Matches(q, plan) /\ ReworkInOrder(q, Len(plan))
      /\ q.tasks = n.tasks /\ q.status = "running" /\ q.rework_count = n.rework_count
      /\ q.tasks[index].output = "valid" => ArtifactOf(q, index) # 0
  BY <1>2, <1>4, <1>5, <1>6, SuccessorOrdered
<1>8. Len(q.tasks) = index
  BY <1>5, <1>7
<1>9. KnowsPlan("ruling", q, plan, index')
  BY <1>6, <1>7, <1>8 DEF KnowsPlan
<1> QED
  BY <1>4, <1>7, <1>9, OrderCommitted

(* A Run that ran is passed on to QA, or fails, in order.                  *)
LEMMA RuleOrdered == ASSUME OrderedInv, Rule PROVE OrderedStep
<1>1. pc = "ruling" /\ pc # "idle" /\ run.status = "running"
  BY DEF Rule, OrderedInv, IInv, InControl
<1>2. /\ IsKept(run) /\ Sound(run) /\ IsOrdered(run) /\ plan \in Plans
      /\ KnowsPlan("ruling", run, plan, index)
  BY <1>1, RunIsOrdered
<1>3. ASSUME NEW reason \in FailureReason, CommitAndStop(Fail(run, reason))
      PROVE  OrderedStep
  <2>1. NonePending(run)
    BY <1>1, <1>2, OrderedInRework
  <2>2. IsOrdered(Fail(run, reason)) /\ Fail(run, reason).status # "completed"
    BY <1>1, <1>2, <2>1, FailEffect
  <2> QED
    BY <1>3, <2>2, OrderCommittedAndStopped
<1>4. CASE /\ run.rework_count > 0 /\ run.tasks[ReworkIndex].status = "succeeded"
                => run.tasks[ReworkIndex].output = "valid"
           /\ AllTasksSucceeded(run) /\ ~HasInvalidOutput(run)
           /\ Commit(MoveTo(run, "waiting_qa"), "drive") /\ UNCHANGED index
  <2> DEFINE q == MoveTo(run, "waiting_qa")
  <2>1. /\ CanTransition(run, "waiting_qa") /\ ~IsRework(run, "waiting_qa")
        /\ "waiting_qa" \in RunStatus /\ q = Transition(run, "waiting_qa", "none")
        /\ Commit(q, "drive")
    BY <1>1, <1>4 DEF CanTransition, AllowedTransitions, IsRework, RunStatus, MoveTo
  <2> HIDE DEF q
  <2>2. SameBut(run, q) /\ q.status = "waiting_qa" /\ q.rework_count = run.rework_count
    BY <1>2, <1>4, <2>1, MoveEffect
  <2>3. \A t \in DOMAIN run.tasks : IsGood(run.tasks[t])
    BY <1>4 DEF AllTasksSucceeded, HasInvalidOutput, IsGood
  <2>4. run.rework_count > 0 => run.tasks[Len(plan) + run.rework_count].output = "valid"
    <3>1. Len(run.tasks) = ReworkIndex
      BY <1>2, <2>3 DEF KnowsPlan, ReworkIndex
    <3>2. /\ Len(plan) \in Nat \ {0} /\ run.rework_count \in Nat
          /\ DOMAIN run.tasks = 1..Len(run.tasks)
      BY <1>2, PlanPositions, ArtifactPlaces
    <3>3. ReworkIndex \in DOMAIN run.tasks
      BY <3>1, <3>2 DEF ReworkIndex
    <3> QED
      BY <1>4, <3>3 DEF AllTasksSucceeded, ReworkIndex
  <2>5. KnowsPlan("ruling", run, plan, 0)
    BY <1>2 DEF KnowsPlan
  <2>6. IsOrdered(q)
    BY <1>1, <1>2, <2>2, <2>3, <2>4, <2>5, PassedToQaOrdered
  <2>7. KnowsPlan("drive", q, plan, index')
    BY <2>2 DEF KnowsPlan
  <2> QED
    BY <2>1, <2>2, <2>6, <2>7, OrderCommitted
<1> QED
  BY <1>3, <1>4 DEF Rule, FailureReason

(* What an invocation knows at the gates, beyond what holds of the Run.    *)
LEMMA NothingKnown ==
  ASSUME NEW label \in {"drive", "judging", "refused"}, NEW r, r.status # "running",
         NEW p, NEW i
  PROVE  KnowsPlan(label, r, p, i)
BY DEF KnowsPlan

(* A Run is passed on without QA, in order.                                *)
LEMMA PassWithoutQaOrdered == ASSUME OrderedInv, PassWithoutQa PROVE OrderedStep
<1> DEFINE q == MoveTo(run, "waiting_human")
<1>1. /\ pc # "idle" /\ run.status = "waiting_qa" /\ run.rework_count = 0
      /\ Commit(q, "drive") /\ q = Transition(run, "waiting_human", "none")
  BY DEF PassWithoutQa, At, MoveTo
<1> HIDE DEF q
<1>2. IsKept(run) /\ Sound(run) /\ IsOrdered(run)
  BY <1>1, RunIsOrdered
<1>3. /\ CanTransition(run, "waiting_human") /\ ~IsRework(run, "waiting_human")
      /\ "waiting_human" \in RunStatus
  BY <1>1 DEF CanTransition, AllowedTransitions, IsRework, RunStatus
<1>4. SameBut(run, q) /\ q.status = "waiting_human" /\ q.rework_count = run.rework_count
  BY <1>1, <1>2, <1>3, MoveEffect
<1>5. IsOrdered(q)
  BY <1>1, <1>2, <1>4, PassedToHumanOrdered
<1>6. KnowsPlan("drive", q, plan, index')
  BY <1>4, NothingKnown
<1> QED
  BY <1>1, <1>4, <1>5, <1>6, OrderCommitted

(* A Run with nothing to judge fails, in order.                            *)
LEMMA FailWithoutCandidateOrdered == ASSUME OrderedInv, FailWithoutCandidate PROVE OrderedStep
<1>1. /\ pc # "idle" /\ run.status = "waiting_qa"
      /\ CommitAndStop(Fail(run, "no candidate"))
  BY DEF FailWithoutCandidate, AtQaGate, At
<1>2. IsKept(run) /\ IsOrdered(run)
  BY <1>1, RunIsOrdered
<1>3. NonePending(run)
  BY <1>1, <1>2 DEF NonePending, IsOrdered, ReviewsInOrder
<1>4. IsOrdered(Fail(run, "no candidate")) /\ Fail(run, "no candidate").status # "completed"
  BY <1>1, <1>2, <1>3, FailEffect DEF FailureReason
<1> QED
  BY <1>1, <1>4, OrderCommittedAndStopped

(* QA is asked, in order.                                                  *)
LEMMA OpenQaOrdered == ASSUME OrderedInv, OpenQa PROVE OrderedStep
<1>1. /\ pc # "idle" /\ run.status = "waiting_qa"
      /\ Candidate # 0 /\ LatestQa(run, Candidate) = 0
  BY DEF OpenQa, AtQaGate, At
<1>2. IsKept(run) /\ Sound(run) /\ IsOrdered(run)
  BY <1>1, RunIsOrdered
<1>3. CASE Refuse
  BY <1>3, OrderRefused
<1> DEFINE a == Candidate
           p == PromoteDraft(run, a)
           q == OpenEvaluation(p, a, TRUE)
<1>4. CASE IsCandidate(p, Candidate) /\ Commit(q, "judging") /\ index' = index
  <2>1. /\ p = PromoteDraft(run, a) /\ q = OpenEvaluation(p, a, TRUE) /\ IsCandidate(p, a)
        /\ a = FinalCandidate(run) /\ a # 0 /\ LatestQa(run, a) = 0
    BY <1>1, <1>4 DEF Candidate
  <2>2. Commit(q, "judging")
    BY <1>4
  <2> HIDE DEF a, p, q
  <2>3. IsOrdered(q)
    BY <1>1, <1>2, <2>1, QaOpenedOrdered
  <2>4. q.status = "waiting_qa"
    BY <1>1, <1>2, <2>1, QaOpenedAdvances
  <2>5. KnowsPlan("judging", q, plan, index')
    BY <2>4, NothingKnown
  <2> QED
    BY <2>2, <2>3, <2>4, <2>5, OrderCommitted
<1> QED
  BY <1>3, <1>4 DEF OpenQa

(* QA is asked once more for a lost verdict, in order.                     *)
LEMMA AskQaAgainOrdered == ASSUME OrderedInv, AskQaAgain PROVE OrderedStep
<1>1. run.status = "waiting_qa" /\ Goto("judging")
  BY DEF AskQaAgain, AtQaGate, At
<1>2. KnowsPlan("judging", run, plan, index')
  BY <1>1, NothingKnown
<1> QED
  BY <1>1, <1>2, OrderWentOn

(* The calls of an evaluator are of no Artifact, and its verdict changes   *)
(* no Evaluation's Artifact.                                               *)
LEMMA MeasuredOrdered ==
  ASSUME NEW r, IsKept(r), IsOrdered(r),
         NEW e \in DOMAIN r.evaluations, r.evaluations[e].status = "pending",
         NEW q, q = RecordEvaluationAnalytics(r, e)
  PROVE  IsOrdered(q) /\ q.status = r.status
<1>1. CanRecordEvaluationAnalytics(r, e) /\ Sound(r)
  BY DEF IsKept, Sound, PendingAttributed, CanRecordEvaluationAnalytics
<1>2. Carries(r, q, {"analytics_records"})
  BY <1>1, RecordEvaluationAnalyticsLegal, Zenon DEF Carries
<1>3. /\ q.status = r.status /\ q.rework_count = r.rework_count
      /\ q.tasks = r.tasks /\ q.artifacts = r.artifacts
      /\ q.human_reviews = r.human_reviews /\ q.evaluations = r.evaluations
  BY <1>2 DEF Carries, Ops!Keeps
<1>4. \A a : EvaluationsOf(q, a) = EvaluationsOf(r, a)
  BY <1>3 DEF EvaluationsOf
<1> QED
  BY <1>3, <1>4, OrderedAlike

(* A verdict changes no Evaluation's Artifact.                             *)
LEMMA JudgedOrdered ==
  ASSUME NEW r, IsKept(r), IsOrdered(r),
         NEW e \in DOMAIN r.evaluations, r.evaluations[e].status = "pending",
         NEW verdict \in EvaluationStatus \ {"pending"},
         NEW q, q = RecordEvaluation(r, e, verdict)
  PROVE  IsOrdered(q) /\ q.status = r.status
<1> DEFINE next == Ops!WithStatus(r.evaluations[e], verdict)
<1>1. CanRecordEvaluation(r, e, verdict) /\ Sound(r)
  BY DEF CanRecordEvaluation, IsKept
<1>2. /\ Carries(r, q, {"evaluations"})
      /\ q.evaluations = Ops!Updated(r.evaluations, e, next)
  BY <1>1, RecordEvaluationLegal, Zenon DEF Carries
<1>3. /\ q.status = r.status /\ q.rework_count = r.rework_count
      /\ q.tasks = r.tasks /\ q.artifacts = r.artifacts
      /\ q.human_reviews = r.human_reviews
  BY <1>2 DEF Carries, Ops!Keeps
<1>4. r.evaluations \in Seq(Evaluation) /\ r.evaluations[e] \in Evaluation
  BY <1>1 DEF Sound, Run
<1>5. next.artifact_ref = r.evaluations[e].artifact_ref
  BY <1>4 DEF Ops!WithStatus, Evaluation
<1> HIDE DEF next
<1>6. /\ DOMAIN q.evaluations = DOMAIN r.evaluations
      /\ \A f \in DOMAIN r.evaluations :
           q.evaluations[f].artifact_ref = r.evaluations[f].artifact_ref
  BY <1>2, <1>4, <1>5 DEF Ops!Updated
<1>7. \A a : EvaluationsOf(q, a) = EvaluationsOf(r, a)
  BY <1>6 DEF EvaluationsOf
<1>8. q.evaluations # <<>> /\ r.evaluations # <<>>
  BY <1>4, <1>6
<1> QED
  BY <1>3, <1>7, <1>8, OrderedAlike

(* A verdict is given, in order.                                           *)
LEMMA VerdictGivenOrdered == ASSUME OrderedInv, VerdictGiven PROVE OrderedStep
<1>1. PICK verdict \in EvaluationStatus \ {"pending"}, measured \in Measured :
        LET e == LatestQa(run, Candidate)
            r == IF measured THEN RecordEvaluationAnalytics(run, e) ELSE run
        IN  Commit(RecordEvaluation(r, e, verdict), "drive")
  BY DEF VerdictGiven
<1> DEFINE e == LatestQa(run, Candidate)
           r == IF measured THEN RecordEvaluationAnalytics(run, e) ELSE run
           q == RecordEvaluation(r, e, verdict)
<1>2. /\ q = RecordEvaluation(r, e, verdict) /\ Commit(q, "drive")
      /\ measured => r = RecordEvaluationAnalytics(run, e)
      /\ ~measured => r = run
  BY <1>1
<1>3. /\ pc = "judging" /\ IsKept(run) /\ run.status = "waiting_qa"
      /\ e \in DOMAIN run.evaluations /\ run.evaluations[e].status = "pending"
  BY Judging DEF VerdictGiven, OrderedInv
<1>4. IsOrdered(run)
  BY <1>3, RunIsOrdered
<1> HIDE DEF e, r, q
<1>5. IsKept(r) /\ IsOrdered(r) /\ r.status = "waiting_qa" /\ r.evaluations = run.evaluations
  <2>1. CASE measured
    <3>1. Advances(run, r) /\ r.status = run.status /\ r.evaluations = run.evaluations
      BY <1>2, <1>3, <2>1, MeasuredAdvances
    <3>2. IsOrdered(r)
      BY <1>2, <1>3, <1>4, <2>1, MeasuredOrdered
    <3> QED
      BY <1>3, <3>1, <3>2 DEF Advances
  <2>2. CASE ~measured
    BY <1>2, <1>3, <1>4, <2>2
  <2> QED
    BY <2>1, <2>2
<1>6. IsOrdered(q) /\ q.status = r.status
  BY <1>2, <1>3, <1>5, JudgedOrdered
<1>7. KnowsPlan("drive", q, plan, index')
  BY <1>5, <1>6, NothingKnown
<1> QED
  BY <1>2, <1>5, <1>6, <1>7, OrderCommitted

(* An evaluator fails, in order.                                           *)
LEMMA EvaluatorFailsOrdered == ASSUME OrderedInv, EvaluatorFails PROVE OrderedStep
<1> DEFINE e == LatestQa(run, Candidate)
           q == RecordEvaluationAnalytics(run, e)
<1>1. /\ pc = "judging"
      /\ CommitAndStop(run) \/ CommitAndStop(q)
      /\ q = RecordEvaluationAnalytics(run, e)
  BY DEF EvaluatorFails
<1>2. /\ IsKept(run) /\ run.status = "waiting_qa"
      /\ e \in DOMAIN run.evaluations /\ run.evaluations[e].status = "pending"
  BY <1>1, Judging DEF OrderedInv
<1>3. IsOrdered(run)
  BY <1>1, RunIsOrdered
<1> HIDE DEF e, q
<1>4. IsOrdered(q) /\ q.status = run.status
  BY <1>1, <1>2, <1>3, MeasuredOrdered
<1> QED
  BY <1>1, <1>2, <1>3, <1>4, OrderCommittedAndStopped

(* QA is done with the final candidate of r.                               *)
LEMMA QaDone ==
  ASSUME NEW r, IsKept(r), IsOrdered(r), r.status = "waiting_qa",
         FinalCandidate(r) # 0, LatestQa(r, FinalCandidate(r)) # 0,
         NEW q, q = MoveTo(r, "waiting_human")
  PROVE  /\ IsKept(q) /\ Sound(q) /\ IsOrdered(q) /\ q.status = "waiting_human"
         /\ NonePending(q) /\ FinalCandidate(q) = FinalCandidate(r)
<1>1. /\ CanTransition(r, "waiting_human") /\ ~IsRework(r, "waiting_human")
      /\ "waiting_human" \in RunStatus /\ Sound(r)
      /\ q = Transition(r, "waiting_human", "none")
  BY DEF CanTransition, AllowedTransitions, IsRework, RunStatus, IsKept, MoveTo
<1>2. SameBut(r, q) /\ q.status = "waiting_human" /\ q.rework_count = r.rework_count /\ IsKept(q)
  BY <1>1, MoveEffect
<1>3. EvaluationsOf(r, FinalCandidate(r)) # {}
  BY <1>1, Lookups
<1>4. IsOrdered(q)
  BY <1>1, <1>2, <1>3, PassedToHumanOrdered DEF IsFresh
<1>5. NonePending(r)
  BY DEF NonePending, IsOrdered, ReviewsInOrder
<1> QED
  BY <1>2, <1>4, <1>5, SameLookups DEF NonePending, SameBut, IsKept

(* The Review of a candidate leaves the Run with the human.                *)
LEMMA ReviewWaits ==
  ASSUME NEW r, Sound(r), NEW a, NEW q \in OpenReviewOn(r, a)
  PROVE  q.status = r.status
<1>1. IsCandidate(r, a) /\ q = OpenHumanReview(r, a)
  BY DEF OpenReviewOn
<1>2. Ops!Keeps(r, q, {"human_reviews"})
  BY <1>1, OpenHumanReviewLegal, Zenon
<1> QED
  BY <1>2 DEF Ops!Keeps

(* A passed candidate goes to its Review, in order.                        *)
LEMMA PassQaOrdered == ASSUME OrderedInv, PassQa PROVE OrderedStep
<1> DEFINE p == MoveTo(run, "waiting_human")
<1>1. /\ pc # "idle" /\ run.status = "waiting_qa"
      /\ FinalCandidate(run) # 0 /\ LatestQa(run, FinalCandidate(run)) # 0
  BY DEF PassQa, AtQaGate, At, IsEvaluated, Candidate
<1>2. \/ \E q \in ApprovalReviewOpened(p) : Commit(q, "drive") /\ UNCHANGED index
      \/ Refuse
  BY DEF PassQa
<1>3. p = MoveTo(run, "waiting_human")
  OBVIOUS
<1> HIDE DEF p
<1>4. /\ IsKept(p) /\ Sound(p) /\ IsOrdered(p) /\ p.status = "waiting_human" /\ NonePending(p)
  BY <1>1, <1>3, RunIsOrdered, QaDone
<1>5. CASE Refuse
  BY <1>5, OrderRefused
<1>6. ASSUME NEW q \in ApprovalReviewOpened(p), Commit(q, "drive")
      PROVE  OrderedStep
  <2>1. q = p \/ q \in OpenReviewOn(p, FinalCandidate(p))
    BY <1>6 DEF ApprovalReviewOpened
  <2>2. IsOrdered(q) /\ q.status = "waiting_human"
    BY <1>4, <2>1, ReviewOpenedOrdered, ReviewWaits
  <2>3. KnowsPlan("drive", q, plan, index')
    BY <2>2, NothingKnown
  <2> QED
    BY <1>6, <2>2, <2>3, OrderCommitted
<1> QED
  BY <1>2, <1>5, <1>6

(* A candidate that did not pass goes to its Review, in order.             *)
LEMMA EscalateOrdered == ASSUME OrderedInv, Escalate PROVE OrderedStep
<1> DEFINE p == MoveTo(run, "waiting_human")
<1>1. /\ pc # "idle" /\ run.status = "waiting_qa" /\ Candidate = FinalCandidate(run)
      /\ FinalCandidate(run) # 0 /\ LatestQa(run, FinalCandidate(run)) # 0
  BY DEF Escalate, AtQaGate, At, IsEvaluated, Candidate
<1>2. \/ \E q \in OpenReviewOn(p, Candidate) : CommitAndStop(q)
      \/ Refuse
  BY DEF Escalate
<1>3. p = MoveTo(run, "waiting_human")
  OBVIOUS
<1> HIDE DEF p
<1>4. /\ IsKept(p) /\ Sound(p) /\ IsOrdered(p) /\ p.status = "waiting_human" /\ NonePending(p)
      /\ FinalCandidate(p) = Candidate
  BY <1>1, <1>3, RunIsOrdered, QaDone
<1>5. CASE Refuse
  BY <1>5, OrderRefused
<1>6. ASSUME NEW q \in OpenReviewOn(p, Candidate), CommitAndStop(q)
      PROVE  OrderedStep
  <2>1. IsOrdered(q) /\ q.status = "waiting_human"
    BY <1>4, <1>6, ReviewOpenedOrdered, ReviewWaits
  <2> QED
    BY <1>6, <2>1, OrderCommittedAndStopped
<1> QED
  BY <1>2, <1>5, <1>6

(* A Review that is missing is opened, in order.                           *)
LEMMA OpenMissingReviewOrdered == ASSUME OrderedInv, OpenMissingReview PROVE OrderedStep
<1>1. /\ pc # "idle" /\ run.status = "waiting_human"
      /\ FinalCandidate(run) # 0 /\ LatestReview(run, FinalCandidate(run)) = 0
      /\ IsGateHeld
  BY DEF OpenMissingReview, AtHumanGate, At, Candidate
<1>2. IsKept(run) /\ Sound(run) /\ IsOrdered(run)
  BY <1>1, RunIsOrdered
<1>3. NonePending(run)
  <2>1. ReviewsOf(run, FinalCandidate(run)) = {}
    BY <1>1, <1>2, Lookups
  <2> QED
    BY <1>2, <2>1 DEF NonePending, IsOrdered, ReviewsInOrder, ReviewsOf
<1>4. CASE Refuse
  BY <1>4, OrderRefused
<1>5. ASSUME NEW q \in ApprovalReviewOpened(run), CommitAndStop(q)
      PROVE  OrderedStep
  <2>1. q = run \/ q \in OpenReviewOn(run, FinalCandidate(run))
    BY <1>5 DEF ApprovalReviewOpened
  <2>2. IsOrdered(q) /\ q.status = "waiting_human"
    BY <1>1, <1>2, <1>3, <2>1, ReviewOpenedOrdered, ReviewWaits
  <2> QED
    BY <1>5, <2>2, OrderCommittedAndStopped
<1> QED
  BY <1>4, <1>5 DEF OpenMissingReview

(* A decision on a pending Review, taken between invocations.              *)
LEMMA TakeReviewDecisionOrdered == ASSUME OrderedInv, TakeReviewDecision PROVE OrderedStep
<1>1. /\ pc = "idle" /\ stored # NoRun /\ IsKept(stored) /\ PendingReview(stored) # 0
      /\ run' = run /\ pc' = pc /\ plan' = plan /\ index' = index
  BY DEF TakeReviewDecision, OrderedInv, IInv
<1>2. PICK decision \in ReviewStatus \ {"pending"} :
        stored' = SubmitReview(stored, PendingReview(stored), decision)
  BY DEF TakeReviewDecision
<1>3. PICK q : q = stored'
  OBVIOUS
<1> DEFINE h == PendingReview(stored)
<1>4. /\ stored.status = "waiting_human" /\ h \in DOMAIN stored.human_reviews
      /\ stored.human_reviews[h].status = "pending"
  BY <1>1, PendingReviewFound
<1>5. q = SubmitReview(stored, h, decision) /\ Sound(stored) /\ IsOrdered(stored)
  BY <1>1, <1>2, <1>3 DEF OrderedInv, StoreInOrder, IsStored, IsKept
<1> HIDE DEF h
<1>6. IsOrdered(q)
  BY <1>4, <1>5, DecidedOrdered
<1>7. q.status = "waiting_human"
  <2>1. CanSubmitReview(stored, h, decision)
    BY <1>4 DEF CanSubmitReview
  <2>2. Ops!Keeps(stored, q, {"human_reviews"})
    BY <1>5, <2>1, SubmitReviewLegal, Zenon
  <2> QED
    BY <1>4, <2>2 DEF Ops!Keeps
<1>8. KnowsPlan(pc', run', plan', index')
  BY <1>1 DEF KnowsPlan
<1> QED
  BY <1>3, <1>6, <1>7, <1>8 DEF OrderedStep, StoreInOrder, FollowsPlan

(* A Run that nobody reviews is completed.                                 *)
LEMMA CompleteWithoutGateOrdered ==
  ASSUME OrderedInv, CompleteWithoutGate
  PROVE  /\ StoreInOrder' /\ FollowsPlan'
         /\ \/ OrderedStep
            \/ /\ ~qa_wired /\ stored'.rework_count = 0
               /\ stored'.human_reviews = <<>>
<1>1. /\ pc # "idle" /\ run.status = "waiting_human"
      /\ ~qa_wired /\ ~(run.rework_count > 0)
  BY DEF CompleteWithoutGate, AtHumanGate, At, IsGateHeld
<1>2. IsKept(run) /\ Sound(run) /\ IsOrdered(run)
  BY <1>1, RunIsOrdered
<1> DEFINE q == MoveTo(run, "completed")
<1>3. CASE run.human_reviews = <<>> /\ CommitAndStop(q)
  <2>1. AllTasksTerminal(run)
    BY <1>1, <1>2
    DEF IsKept, JudgedDone, IsJudged, AllTasksSucceeded, AllTasksTerminal, IsTerminalTask,
        TerminalTaskStates
  <2>2. /\ CanTransition(run, "completed") /\ ~IsRework(run, "completed")
        /\ "completed" \in RunStatus /\ q = Transition(run, "completed", "none")
        /\ stored' = q /\ CommitAndStop(q)
    BY <1>1, <1>3, <2>1
    DEF CanTransition, AllowedTransitions, IsRework, RunStatus, MoveTo, CommitAndStop
  <2> HIDE DEF q
  <2>3. SameBut(run, q) /\ q.status = "completed" /\ q.rework_count = run.rework_count
    BY <1>2, <2>2, MoveEffect
  <2>4. NonePending(run)
    BY <1>3 DEF NonePending
  <2>5. IsOrdered(q)
    BY <1>1, <1>2, <2>3, <2>4, CompletedOrdered DEF SameBut
  <2>6. run.rework_count = 0
    BY <1>1, <1>2, ArtifactPlaces
  <2>7. StoreInOrder' /\ FollowsPlan'
    BY <2>2, <2>5, OrderCommittedAndStopped
  <2> QED
    BY <1>1, <1>3, <2>2, <2>3, <2>6, <2>7 DEF SameBut
<1>4. CASE Return
  BY <1>4, OrderReturned DEF OrderedStep
<1> QED
  BY <1>3, <1>4 DEF CompleteWithoutGate

(* The final candidate is approved.                                        *)
LEMMA ApprovedEffect ==
  ASSUME NEW r, IsKept(r), r.status = "waiting_human",
         NEW a, IsCandidate(r, a), CanTransitionArtifact(r, a, "approved"),
         NEW p, p = TransitionArtifact(r, a, "approved")
  PROVE  /\ IsKept(p) /\ p.status = r.status /\ p.rework_count = r.rework_count
         /\ p.tasks = r.tasks /\ p.human_reviews = r.human_reviews
         /\ p.evaluations = r.evaluations
         /\ DOMAIN p.artifacts = DOMAIN r.artifacts
         /\ \A b \in DOMAIN r.artifacts \ {a} : p.artifacts[b] = r.artifacts[b]
         /\ p.artifacts[a].output_ref = r.artifacts[a].output_ref
         /\ p.artifacts[a].supersedes_ref = r.artifacts[a].supersedes_ref
         /\ p.artifacts[a].status = "approved"
<1> DEFINE next == Ops!WithStatus(r.artifacts[a], "approved")
<1>1. "approved" \in ArtifactStatus /\ Sound(r) /\ a \in DOMAIN r.artifacts
  BY DEF ArtifactStatus, IsKept, IsCandidate
<1>2. Carries(r, p, {"artifacts"}) /\ p.artifacts = Ops!Updated(r.artifacts, a, next)
  BY <1>1, TransitionArtifactLegal, Zenon DEF Carries
<1>3. /\ p.status = r.status /\ p.rework_count = r.rework_count
      /\ p.tasks = r.tasks /\ p.human_reviews = r.human_reviews
      /\ p.evaluations = r.evaluations
  BY <1>2 DEF Carries, Ops!Keeps
<1>4. r.artifacts \in Seq(Artifact) /\ r.artifacts[a] \in Artifact
  BY <1>1 DEF Sound, Run
<1>5. next.output_ref = r.artifacts[a].output_ref /\ next.status = "approved"
      /\ next.supersedes_ref = r.artifacts[a].supersedes_ref
  BY <1>4 DEF Ops!WithStatus, Artifact
<1> HIDE DEF next
<1>6. Advances(r, p)
  <2>1. /\ "tasks" \notin {"artifacts"} /\ "analytics_records" \notin {"artifacts"}
        /\ "evaluations" \notin {"artifacts"}
        /\ r.status \notin {"completed", "failed"}
    OBVIOUS
  <2> QED
    BY <1>2, <1>3, <2>1, AdvancesBeside
<1> QED
  BY <1>1, <1>2, <1>3, <1>4, <1>5, <1>6 DEF Ops!Updated, Advances

(* A Run that both gates let pass is completed with its candidate          *)
(* approved.                                                               *)
LEMMA ReleaseOrdered ==
  ASSUME OrderedInv, Release
  PROVE  StoreInOrder' /\ FollowsPlan' /\ (OrderedStep \/ IsReleased(stored'))
<1> DEFINE a == FinalCandidate(run)
           isOpen == run.artifacts[a].status = "candidate"
           p == IF isOpen THEN TransitionArtifact(run, a, "approved") ELSE run
           q == MoveTo(p, "completed")
<1>1. /\ pc # "idle" /\ run.status = "waiting_human" /\ IsReleasable(run) /\ a # 0
  BY DEF Release, AtHumanGate, At, IsReleasable
<1>2. IsKept(run) /\ Sound(run) /\ IsOrdered(run)
  BY <1>1, RunIsOrdered
<1>3. CASE Refuse
  BY <1>3, OrderRefused DEF OrderedStep
<1>4. CASE /\ isOpen => CanTransitionArtifact(run, a, "approved")
           /\ CanTransition(p, "completed") /\ CommitAndStop(q)
  <2>1. /\ LatestReview(run, a) # 0
        /\ run.human_reviews[LatestReview(run, a)].status = "approved"
    BY <1>1 DEF IsReleasable, IsReviewOf
  <2>2. IsCandidate(run, a) /\ NonePending(run)
    BY <1>1, <1>2, <2>1, ReviewedCandidate
  <2>3. /\ CanTransitionArtifact(run, a, "approved") /\ p = TransitionArtifact(run, a, "approved")
    BY <1>4, <2>2 DEF IsCandidate
  <2>4. /\ CanTransition(p, "completed") /\ CommitAndStop(q) /\ stored' = q
        /\ q = Transition(p, "completed", "none") /\ "completed" \in RunStatus
        /\ ~IsRework(p, "completed")
    BY <1>4 DEF MoveTo, RunStatus, CommitAndStop, IsRework
  <2> HIDE DEF isOpen, p, q
  <2>5. /\ IsKept(p) /\ p.status = run.status /\ p.rework_count = run.rework_count
        /\ p.tasks = run.tasks /\ p.human_reviews = run.human_reviews
        /\ p.evaluations = run.evaluations
        /\ DOMAIN p.artifacts = DOMAIN run.artifacts
        /\ \A b \in DOMAIN run.artifacts \ {a} : p.artifacts[b] = run.artifacts[b]
        /\ p.artifacts[a].output_ref = run.artifacts[a].output_ref
        /\ p.artifacts[a].supersedes_ref = run.artifacts[a].supersedes_ref
        /\ p.artifacts[a].status = "approved"
    BY <1>1, <1>2, <2>2, <2>3, ApprovedEffect
  <2>6. SameBut(p, q) /\ q.status = "completed" /\ q.rework_count = p.rework_count
    BY <2>4, <2>5, MoveEffect
  <2>7. /\ q.rework_count = run.rework_count /\ q.tasks = run.tasks
        /\ q.human_reviews = run.human_reviews /\ q.evaluations = run.evaluations
        /\ DOMAIN q.artifacts = DOMAIN run.artifacts
        /\ \A b \in DOMAIN run.artifacts \ {a} : q.artifacts[b] = run.artifacts[b]
        /\ q.artifacts[a].output_ref = run.artifacts[a].output_ref
        /\ q.artifacts[a].supersedes_ref = run.artifacts[a].supersedes_ref
        /\ q.artifacts[a].status = "approved"
    BY <2>5, <2>6 DEF SameBut
  <2> HIDE DEF a
  <2>8. IsOrdered(q)
    BY <1>1, <1>2, <2>2, <2>6, <2>7, CompletedOrdered
  <2>9. FinalCandidate(q) = a
    <3>1. \A b \in DOMAIN run.artifacts :
            q.artifacts[b].output_ref = run.artifacts[b].output_ref
      BY <2>7
    <3> QED
      BY <2>7, <3>1, FinalCandidateKept DEF a
  <2>10. IsReleasable(q)
    BY <1>1, <2>7, <2>9, JudgementsKept DEF IsReleasable, IsReviewOf, a
  <2>11. \A b \in DOMAIN q.artifacts : b # a => q.artifacts[b].status \in {"draft", "superseded"}
    <3>1. \A b \in DOMAIN run.artifacts :
            /\ run.artifacts[b].status \in {"draft", "candidate", "superseded"}
            /\ run.artifacts[b].status = "candidate" => b = a
      BY <1>1, <1>2, <2>2 DEF IsOrdered, ArtifactsInOrder, IsCandidate
    <3> QED
      BY <2>7, <3>1
  <2>12. IsReleased(q)
    BY <2>7, <2>9, <2>10, <2>11 DEF IsReleased
  <2> QED
    BY <2>4, <2>8, <2>12, OrderCommittedAndStopped
<1> QED
  BY <1>3, <1>4 DEF Release, Candidate

(* An invocation that only ends leaves the store in order.                 *)
LEMMA ReturnsOrdered ==
  ASSUME OrderedInv, Interrupt \/ LeaveUnjudgedRework \/ AwaitHuman \/ LeaveTerminal
  PROVE  OrderedStep
<1>1. Return
  BY DEF Interrupt, LeaveUnjudgedRework, AwaitHuman, LeaveTerminal
<1> QED
  BY <1>1, OrderReturned

(* Every step keeps the store in order; those that complete a Run are the  *)
(* release, and the completion of a Run no gate is held for.               *)
LEMMA NextOrdered ==
  ASSUME OrderedInv, Next
  PROVE  /\ StoreInOrder' /\ FollowsPlan'
         /\ \/ stored' = stored \/ stored'.status # "completed"
            \/ IsReleased(stored')
            \/ ~qa_wired /\ stored'.rework_count = 0 /\ stored'.human_reviews = <<>>
<1>1. CASE StepsNext
  BY <1>1, EnterStepsOrdered, EndStepsOrdered, PassTerminalTaskOrdered, ResumeTaskOrdered,
     OpenStepOrdered, StepAnsweredOrdered DEF StepsNext, OrderedStep
<1>2. CASE ReworkNext
  BY <1>2, BeginReworkOrdered, EnterReworkOrdered, OpenReworkOrdered, ResumeReworkOrdered,
     PassTerminalReworkOrdered, ReworkAnsweredOrdered DEF ReworkNext, OrderedStep
<1>3. CASE GateNext
  BY <1>3, ReturnsOrdered, PassWithoutQaOrdered, FailWithoutCandidateOrdered, OpenQaOrdered,
     AskQaAgainOrdered, VerdictGivenOrdered, PassQaOrdered, EscalateOrdered,
     CompleteWithoutGateOrdered, OpenMissingReviewOrdered, ReleaseOrdered
  DEF GateNext, OrderedStep
<1>4. CASE Invoke \/ Interrupt \/ TakeReviewDecision \/ EvaluatorFails
  BY <1>4, InvokeOrdered, ReturnsOrdered, TakeReviewDecisionOrdered, EvaluatorFailsOrdered
  DEF OrderedStep
<1>5. CASE Queue \/ Start \/ Rule
  BY <1>5, QueueOrdered, StartOrdered, RuleOrdered DEF OrderedStep
<1> QED
  BY <1>1, <1>2, <1>3, <1>4, <1>5 DEF Next, Advance

(* No step at all keeps the store in order.                                *)
LEMMA StutteringOrdered == ASSUME OrderedInv, UNCHANGED vars PROVE StoreInOrder' /\ FollowsPlan'
<1>1. /\ stored' = stored /\ run' = run /\ pc' = pc /\ plan' = plan /\ index' = index
  BY DEF vars
<1>2. KnowsPlan(pc', run', plan', index')
  BY <1>1 DEF OrderedInv, FollowsPlan
<1> QED
  BY <1>1, <1>2 DEF OrderedInv, StoreInOrder, FollowsPlan, IsStored

(* The store is in order at first.                                         *)
LEMMA InitOrdered == ASSUME Init PROVE StoreInOrder /\ FollowsPlan
<1>1. stored \in InitialRuns /\ pc = "idle"
  BY DEF Init
<1>2. KnowsPlan(pc, run, plan, index)
  BY <1>1 DEF KnowsPlan
<1>3. stored # NoRun => IsOrdered(stored)
  BY <1>1, StoreAssumption
<1> QED
  BY <1>2, <1>3 DEF StoreInOrder, FollowsPlan, IsStored

(* What the Director stores is in order, whatever interrupts it and        *)
(* whatever plan and wiring the next invocation has: Tasks along a plan,   *)
(* one candidate at its place, reviews and reworks in turn                 *)
(* (content_director.py resume, _run_rework, _ensure_matches).             *)
THEOREM StoreStaysInOrder == Spec => [](StoreInOrder /\ FollowsPlan)
<1>1. Init => OrderedInv
  BY InitKept, InitOrdered DEF OrderedInv
<1>2. OrderedInv /\ [Next]_vars => OrderedInv'
  BY NextKeeps, StutteringKeeps, NextOrdered, StutteringOrdered DEF OrderedInv
<1>3. OrderedInv => StoreInOrder /\ FollowsPlan
  BY DEF OrderedInv
<1> QED
  BY <1>1, <1>2, <1>3, PTL DEF Spec

(* A bad result goes no further: no Artifact comes from an invalid Output, *)
(* no Task follows a failed one or an invalid Output (content_director.py  *)
(* _run_steps).                                                            *)
THEOREM BadResultsStop == Spec => []BadResultsStopThePlan
<1>1. IInv /\ StoreInOrder => BadResultsStopThePlan
  <2> SUFFICES ASSUME IInv, StoreInOrder, IsStored
               PROVE  /\ \A a \in DOMAIN stored.artifacts :
                           stored.tasks[stored.artifacts[a].output_ref].output = "valid"
                      /\ \A t \in DOMAIN stored.tasks :
                           /\ t < Len(stored.tasks) => /\ stored.tasks[t].status = "succeeded"
                                                       /\ stored.tasks[t].output # "invalid"
                           /\ stored.tasks[t].task_input.from = "output" =>
                                LET source == stored.tasks[t].task_input.ref
                                IN  source < t /\ stored.tasks[source].output = "valid"
    BY DEF BadResultsStopThePlan
  <2>1. TasksInOrder(stored) /\ ArtifactsInOrder(stored)
    BY DEF StoreInOrder, IsOrdered
  <2> QED
    BY <2>1 DEF TasksInOrder, ArtifactsInOrder, IsGood
<1> QED
  BY <1>1, StoreIsSound, StoreStaysInOrder, PTL

(* A Run never mixes two plans (content_director.py _ensure_matches).      *)
THEOREM SomePlanFollowed == Spec => []FollowsSomePlan
<1>1. StoreInOrder => FollowsSomePlan
  BY DEF StoreInOrder, IsOrdered, Planned, FollowsSomePlan
<1> QED
  BY <1>1, StoreStaysInOrder, PTL

(* There is one live candidate at most, and a pending review is unique and *)
(* asks about it (content_director.py _open_approval_review,               *)
(* review_publication.py pending_review_package).                          *)
THEOREM CandidateIsOne == Spec => []OneLiveCandidate
<1>1. IInv /\ StoreInOrder => OneLiveCandidate
  <2> SUFFICES ASSUME IInv, StoreInOrder, IsStored
               PROVE  OneLiveCandidate
    BY DEF OneLiveCandidate
  <2>1. ArtifactsInOrder(stored) /\ ReviewsInOrder(stored)
    BY DEF StoreInOrder, IsOrdered
  <2> QED
    BY <2>1 DEF ArtifactsInOrder, ReviewsInOrder, OneLiveCandidate
<1> QED
  BY <1>1, StoreIsSound, StoreStaysInOrder, PTL

(* A rework answers the review that asked for it, and its version          *)
(* supersedes the Artifact reviewed, also when another invocation takes it *)
(* up again (content_director.py _rework_source, _run_rework).          *)
THEOREM ReworksAnswerTheirReviews == Spec => []ReworkAnswersItsReview
<1>1. StoreInOrder => ReworkAnswersItsReview
  BY DEF StoreInOrder, IsOrdered, ReworksAnswer, ReworkAnswersItsReview
<1> QED
  BY <1>1, StoreStaysInOrder, PTL

(* A Run that a gate is held for completes only when its final candidate   *)
(* is approved, its last verdict is passed and its last review an approval *)
(* (content_director.py _route_human_gate).                                *)
THEOREM GatesHeld == Spec => ReleasedOnlyThroughGates
<1>1. IInv /\ StoreInOrder /\ FollowsPlan /\ [Next]_vars
        => [stored # stored' /\ stored'.status = "completed"
              /\ (qa_wired \/ stored'.rework_count > 0 \/ stored'.human_reviews # <<>>)
            => IsReleased(stored')]_vars
  BY NextOrdered DEF OrderedInv
<1> QED
  BY <1>1, StoreIsSound, StoreStaysInOrder, PTL DEF Spec, ReleasedOnlyThroughGates

-----------------------------------------------------------------------------
(* A Run waits for its reviewer. *)

(* A pending Review is the last one, of the final candidate, and neither   *)
(* asks for a rework nor releases anything.                                *)
LEMMA AwaitedReview ==
  ASSUME NEW r, IsKept(r), IsOrdered(r), PendingReview(r) # 0
  PROVE  /\ r.status = "waiting_human" /\ r.human_reviews # <<>>
         /\ PendingReview(r) = Len(r.human_reviews)
         /\ LatestReview(r, FinalCandidate(r)) # 0
         /\ ~ReworkRequested(r) /\ ~IsReleasable(r)
<1> DEFINE h == PendingReview(r)
           a == FinalCandidate(r)
<1>1. /\ r.status = "waiting_human" /\ h \in DOMAIN r.human_reviews
      /\ r.human_reviews[h].status = "pending"
  BY PendingReviewFound
<1> HIDE DEF h
<1>2. h = Len(r.human_reviews) /\ r.human_reviews[h].artifact_ref = a
  BY <1>1 DEF IsOrdered, ReviewsInOrder
<1>3. Sound(r) /\ r.human_reviews \in Seq(HumanReview)
  BY DEF IsKept, Sound, Run
<1>4. h \in ReviewsOf(r, a)
  BY <1>1, <1>2 DEF ReviewsOf
<1> HIDE DEF a
<1>5. LatestReview(r, a) # 0
  BY <1>3, <1>4, Lookups
<1>6. LatestReview(r, a) \in ReviewsOf(r, a) /\ h <= LatestReview(r, a)
  BY <1>3, <1>4, <1>5, Lookups
<1>7. LatestReview(r, a) = h
  BY <1>2, <1>3, <1>6 DEF ReviewsOf
<1>8. ~IsReviewOf(r, a, ReworkDecisions) /\ ~IsReviewOf(r, a, {"approved"})
  BY <1>1, <1>7 DEF IsReviewOf, ReworkDecisions
<1> QED
  BY <1>1, <1>2, <1>3, <1>5, <1>8 DEF a, h, ReworkRequested, IsReleasable

(* Where nothing is pending, every Review of a Run in order is decided.    *)
LEMMA NoReviewAwaited ==
  ASSUME NEW r, IsKept(r), IsOrdered(r), PendingReview(r) = 0
  PROVE  NonePending(r)
<1> DEFINE S == {h \in DOMAIN r.human_reviews : r.human_reviews[h].status = "pending"}
<1>1. CASE r.status = "waiting_human"
  <2>1. Latest(S) = 0
    BY <1>1 DEF PendingReview
  <2>2. S \in SUBSET (1..Len(r.human_reviews)) /\ Len(r.human_reviews) \in Nat
    BY DEF IsKept, Sound, Run
  <2>3. S = {}
    BY <2>1, <2>2, LatestIsGreatest
  <2> QED
    BY <2>3 DEF NonePending
<1>2. CASE r.status # "waiting_human"
  BY <1>2 DEF NonePending, IsOrdered, ReviewsInOrder
<1> QED
  BY <1>1, <1>2

(* No invocation stores anything while the reviewer has not decided.       *)
LEMMA ReviewerAwaited ==
  ASSUME OrderedInv, Next, stored # NoRun, PendingReview(stored) # 0
  PROVE  stored' = stored \/ TakeReviewDecision
<1>1. IsKept(stored) /\ IsOrdered(stored) /\ stored.status = "waiting_human"
  BY PendingReviewFound DEF OrderedInv, IInv, StoreInOrder, IsStored
<1>2. ASSUME pc # "idle"
      PROVE  run = stored /\ pc \notin {"steps", "rework", "executing", "ruling", "judging"}
  BY <1>1, <1>2 DEF OrderedInv, IInv, MemoryIsStored, InControl
<1>3. CASE Queue \/ Start \/ StepsNext
  BY <1>1, <1>2, <1>3
     DEF Queue, Start, At, StepsNext, EnterSteps, EndSteps, PassTerminalTask, ResumeTask, OpenStep,
         StepAnswered, InPlan
<1>4. CASE ReworkNext \/ Rule \/ EvaluatorFails
  BY <1>1, <1>2, <1>4, AwaitedReview
     DEF ReworkNext, BeginRework, EnterRework, OpenRework, ResumeRework, PassTerminalRework,
         ReworkAnswered, Rule, EvaluatorFails, At
<1>5. CASE GateNext
  <2>1. CASE \/ PassWithoutQa \/ FailWithoutCandidate \/ OpenQa \/ AskQaAgain \/ VerdictGiven
             \/ PassQa \/ Escalate
    BY <1>1, <1>2, <2>1
       DEF PassWithoutQa, FailWithoutCandidate, OpenQa, AskQaAgain, VerdictGiven, PassQa, Escalate,
           AtQaGate, At
  <2>2. CASE CompleteWithoutGate \/ OpenMissingReview \/ Release
    BY <1>1, <1>2, <2>2, AwaitedReview
       DEF CompleteWithoutGate, OpenMissingReview, Release, AtHumanGate, At, Candidate, Return
  <2>3. CASE LeaveUnjudgedRework \/ AwaitHuman \/ LeaveTerminal
    BY <2>3 DEF LeaveUnjudgedRework, AwaitHuman, LeaveTerminal, Return
  <2> QED
    BY <1>5, <2>1, <2>2, <2>3 DEF GateNext
<1>6. CASE Invoke \/ Interrupt
  BY <1>6 DEF Invoke, Interrupt, Return
<1> QED
  BY <1>3, <1>4, <1>5, <1>6 DEF Next, Advance

(* What a reviewer has before him is not touched: from the moment a review *)
(* is pending until its decision is saved, nothing about the Run is        *)
(* (content_director.py resume, review_decision.py apply_review_decision). *)
THEOREM ReviewsAwaited ==
  Spec => [][stored # NoRun /\ PendingReview(stored) # 0
               => stored' = stored \/ TakeReviewDecision]_vars
<1>1. IInv /\ StoreInOrder /\ FollowsPlan /\ [Next]_vars
        => [stored # NoRun /\ PendingReview(stored) # 0
              => stored' = stored \/ TakeReviewDecision]_vars
  BY ReviewerAwaited DEF OrderedInv
<1> QED
  BY <1>1, StoreIsSound, StoreStaysInOrder, PTL DEF Spec

(* From r to q the Reviews of a Run grow, and one that is pending is as it *)
(* was or new.                                                             *)
ReviewsMove(r, q) ==
  /\ r # NoRun => q # NoRun /\ Len(r.human_reviews) <= Len(q.human_reviews)
  /\ r # NoRun /\ q # NoRun /\ q # r /\ PendingReview(q) # 0
       => PendingReview(q) > Len(r.human_reviews)

(* Every step moves the Reviews of the stored Run in this way.             *)
LEMMA StoredReviewsMove ==
  ASSUME OrderedInv, StoreInOrder', Next
  PROVE  ReviewsMove(stored, stored')
<1>1. CASE stored' = stored \/ stored = NoRun
  <2>1. stored = stored' /\ stored # NoRun => Len(stored.human_reviews) \in Nat
    BY DEF OrderedInv, IInv, IsKept, Sound, Run
  <2> QED
    BY <1>1, <2>1 DEF ReviewsMove
<1>2. CASE stored' # stored /\ stored # NoRun
  <2>1. PICK q : q = stored'
    OBVIOUS
  <2>2. IsKept(q) /\ Advances(stored, q) /\ q # NoRun
    BY <1>2, <2>1, NextKeeps, StoreAssumption DEF OrderedInv, StoreStep, IsKept, Sound
  <2>3. IsKept(stored) /\ IsOrdered(stored) /\ IsOrdered(q)
    BY <1>2, <2>1, <2>2 DEF OrderedInv, IInv, StoreInOrder, IsStored
  <2>4. /\ Len(stored.human_reviews) \in Nat /\ Len(q.human_reviews) \in Nat
        /\ DOMAIN stored.human_reviews = 1..Len(stored.human_reviews)
        /\ DOMAIN q.human_reviews = 1..Len(q.human_reviews)
    BY <2>2, <2>3 DEF IsKept, Sound, Run
  <2>5. Ops!ReviewsGrow(stored, q)
    BY <2>2 DEF Advances, Ops!Grows
  <2>6. Len(stored.human_reviews) <= Len(q.human_reviews)
    BY <2>4, <2>5 DEF Ops!ReviewsGrow
  <2>7. ASSUME NonePending(stored), PendingReview(q) # 0
        PROVE  PendingReview(q) > Len(stored.human_reviews)
    <3>1. PendingReview(q) \in DOMAIN q.human_reviews
          /\ q.human_reviews[PendingReview(q)].status = "pending"
      BY <2>2, <2>7, PendingReviewFound
    <3>2. PendingReview(q) \notin DOMAIN stored.human_reviews
      BY <2>5, <2>7, <3>1 DEF NonePending, Ops!ReviewsGrow
    <3> QED
      BY <2>4, <3>1, <3>2
  <2>8. ASSUME PendingReview(stored) # 0
        PROVE  PendingReview(q) = 0
    <3>1. TakeReviewDecision
      BY <1>2, <2>8, ReviewerAwaited
    <3>2. PICK decision \in ReviewStatus \ {"pending"} :
            q = SubmitReview(stored, PendingReview(stored), decision)
      BY <2>1, <3>1 DEF TakeReviewDecision
    <3> DEFINE h == PendingReview(stored)
               next == Ops!WithStatus(stored.human_reviews[h], decision)
    <3>3. /\ h \in DOMAIN stored.human_reviews /\ h = Len(stored.human_reviews)
          /\ stored.human_reviews[h].status = "pending" /\ Sound(stored)
      BY <2>3, <2>8, PendingReviewFound, AwaitedReview DEF IsKept
    <3>4. CanSubmitReview(stored, h, decision)
      BY <3>3 DEF CanSubmitReview
    <3>5. q.human_reviews = Ops!Updated(stored.human_reviews, h, next)
      BY <3>2, <3>4, <3>3, SubmitReviewLegal, Zenon
    <3>6. next.status = decision
      BY <2>4, <3>3 DEF Ops!WithStatus, Sound, Run, HumanReview
    <3> HIDE DEF h, next
    <3>7. /\ Len(q.human_reviews) = h /\ q.human_reviews[h].status = decision
      BY <2>4, <3>3, <3>5, <3>6 DEF Ops!Updated, Sound, Run
    <3> QED
      BY <2>2, <2>3, <3>2, <3>7, AwaitedReview, PendingReviewFound
  <2> QED
    BY <1>2, <2>1, <2>2, <2>3, <2>6, <2>7, <2>8, NoReviewAwaited DEF ReviewsMove
<1> QED
  BY <1>1, <1>2

(* An invocation that comes to an end leaves a Run in the store.           *)
LEMMA EndsStored ==
  ASSUME IInv, Advance \/ EvaluatorFails, pc' = "idle"
  PROVE  stored' # NoRun /\ stored'.status \in RunStatus
<1>1. pc # "idle" /\ StoreStep
  <2>1. pc # "idle"
    BY DEF Advance, EvaluatorFails, Queue, Start, StepsNext, EnterSteps, EndSteps, PassTerminalTask,
           ResumeTask, OpenStep, StepAnswered, ReworkNext, BeginRework, EnterRework, OpenRework,
           ResumeRework, PassTerminalRework, ReworkAnswered, Rule, GateNext, LeaveUnjudgedRework,
           PassWithoutQa, FailWithoutCandidate, OpenQa, AskQaAgain, VerdictGiven, PassQa, Escalate,
           CompleteWithoutGate, OpenMissingReview, Release, AwaitHuman, LeaveTerminal, AtQaGate,
           AtHumanGate, At, InPlan
  <2> QED
    BY <2>1, NextKeeps DEF Next
<1>2. \A r : IsKept(r) => r # NoRun /\ r.status \in RunStatus
  BY StoreAssumption DEF IsKept, Sound, Run
<1>3. CASE stored' # stored \/ stored # NoRun
  BY <1>1, <1>2, <1>3 DEF StoreStep, IInv
<1>4. CASE stored' = stored /\ stored = NoRun
  <2>1. pc = "drive" /\ run.status = "created"
    BY <1>1, <1>4, <1>2, RunIsKept, NewRunKept
  <2>2. CASE Queue
    BY <2>1, <2>2 DEF Queue, Commit
  <2>3. CASE Start \/ StepsNext \/ ReworkNext \/ Rule \/ EvaluatorFails
    BY <2>1, <2>3, <1>1
       DEF Start, StepsNext, EnterSteps, EndSteps, PassTerminalTask, ResumeTask, OpenStep,
           StepAnswered, ReworkNext, BeginRework, EnterRework, OpenRework, ResumeRework,
           PassTerminalRework, ReworkAnswered, Rule, EvaluatorFails, At, InPlan, ReworkRequested
  <2>4. CASE GateNext
    BY <2>1, <2>4
       DEF GateNext, LeaveUnjudgedRework, PassWithoutQa, FailWithoutCandidate, OpenQa, AskQaAgain,
           VerdictGiven, PassQa, Escalate, CompleteWithoutGate, OpenMissingReview, Release,
           AwaitHuman, LeaveTerminal, AtQaGate, AtHumanGate, At
  <2> QED
    BY <2>2, <2>3, <2>4 DEF Advance
<1> QED
  BY <1>3, <1>4

-----------------------------------------------------------------------------
(* What the Director refuses. *)

(* What an invocation knows that has or has not committed anything when it *)
(* refuses, or reads at the human gate what it may refuse there.           *)
MayRefuse ==
  /\ pc = "idle" => ~committed
  /\ pc = "refused" => /\ ~committed
                       /\ ~Matches(run, plan) \/ (qa_wired /\ IsPassedUnjudged(run))
  /\ pc = "drive" /\ committed /\ run.status = "waiting_human" =>
       /\ ~ReworkRequested(run)
       /\ qa_wired /\ FinalCandidate(run) # 0 => LatestReview(run, FinalCandidate(run)) # 0

(* A commit refuses nothing, and a Run it leaves at the human gate is      *)
(* another case.                                                           *)
LEMMA RefuseOnArrival ==
  ASSUME NEW q, NEW label, Commit(q, label), label \notin {"idle", "refused"},
         label = "drive" => q.status # "waiting_human"
  PROVE  MayRefuse'
<1>1. run' = q /\ pc' = label
  BY DEF Commit
<1> QED
  BY <1>1 DEF MayRefuse

(* The end of an invocation forgets what it committed.                     *)
LEMMA RefuseAtRest == ASSUME Stop PROVE MayRefuse'
<1>1. pc' = "idle" /\ committed' = FALSE
  BY DEF Stop
<1> QED
  BY <1>1 DEF MayRefuse

(* A step in memory to where nothing is refused.                           *)
LEMMA RefuseElsewhere ==
  ASSUME NEW label, Goto(label), label \notin {"idle", "refused", "drive"}
  PROVE  MayRefuse'
BY DEF Goto, MayRefuse

(* A refusal for one of the two reasons there are, before anything was     *)
(* committed.                                                              *)
LEMMA RefuseUnchanged ==
  ASSUME MayRefuse, Refuse, ~committed,
         ~Matches(run, plan) \/ (qa_wired /\ IsPassedUnjudged(run))
  PROVE  MayRefuse'
<1>1. /\ pc' = "refused" /\ run' = run /\ plan' = plan /\ qa_wired' = qa_wired
      /\ committed' = committed
  BY DEF Refuse, Goto
<1> QED
  BY <1>1 DEF MayRefuse

(* An invocation that refuses its Run at once has committed nothing.       *)
LEMMA InvokeResumable == ASSUME MayRefuse, Invoke PROVE MayRefuse'
<1>1. /\ ~committed' /\ plan' \in Plans
      /\ pc' = IF run'.status = "running" /\ ~Matches(run', plan') THEN "refused" ELSE "drive"
  BY DEF Invoke, MayRefuse
<1> QED
  BY <1>1 DEF MayRefuse

(* The steps of the original plan refuse nothing.                          *)
LEMMA StepsResumable == ASSUME OrderedInv, StepsNext PROVE MayRefuse'
<1>1. CASE EnterSteps \/ EndSteps
  BY <1>1, RefuseElsewhere DEF EnterSteps, EndSteps
<1>2. CASE PassTerminalTask
  <2>1. pc' \in {"ruling", "steps"}
    BY <1>2 DEF PassTerminalTask, InPlan
  <2> QED
    BY <2>1 DEF MayRefuse
<1>3. CASE ResumeTask
  BY <1>3, RefuseOnArrival DEF ResumeTask
<1>4. CASE OpenStep
  BY <1>4, RefuseOnArrival DEF OpenStep
<1>5. CASE StepAnswered
  <2>1. \E q : Commit(q, "ruling") \/ Commit(q, "steps")
    BY <1>5 DEF StepAnswered
  <2> QED
    BY <2>1, RefuseOnArrival
<1> QED
  BY <1>1, <1>2, <1>3, <1>4, <1>5 DEF StepsNext

(* A rework is refused before it begins or not at all.                     *)
LEMMA BeginReworkResumable == ASSUME OrderedInv, MayRefuse, BeginRework PROVE MayRefuse'
<1>1. pc = "drive" /\ ReworkRequested(run) /\ run.status = "waiting_human"
  BY DEF BeginRework, ReworkRequested
<1>2. ~committed
  BY <1>1 DEF MayRefuse, OrderedInv, IInv
<1>3. CASE ~Matches(run, plan) /\ Refuse
  BY <1>2, <1>3, RefuseUnchanged
<1>4. CASE CanTransition(run, "running") /\ Commit(MoveTo(run, "running"), "drive")
  <2>1. IsKept(run)
    BY <1>1, RunIsOrdered
  <2> DEFINE q == MoveTo(run, "running")
  <2>2. Commit(q, "drive") /\ q = Transition(run, "running", "none") /\ "running" \in RunStatus
    BY <1>4 DEF MoveTo, RunStatus
  <2> HIDE DEF q
  <2>3. q.status = "running"
    BY <1>4, <2>1, <2>2, MoveEffect
  <2> QED
    BY <2>2, <2>3, RefuseOnArrival
<1>5. CASE CommitAndStop(Fail(run, "rework limit"))
  BY <1>5, RefuseAtRest DEF CommitAndStop
<1> QED
  BY <1>3, <1>4, <1>5 DEF BeginRework

(* A rework that began under another plan has the place it has under this  *)
(* one.                                                                    *)
LEMMA EnterReworkResumable ==
  ASSUME SamePlanLengths, OrderedInv, EnterRework
  PROVE  MayRefuse'
<1>1. pc = "drive" /\ run.status = "running" /\ run.rework_count > 0
  BY DEF EnterRework, At
<1>2. /\ Sound(run) /\ IsOrdered(run) /\ plan \in Plans /\ InRework(run)
      /\ KnowsPlan("drive", run, plan, index)
  BY <1>1, RunIsOrdered DEF InRework
<1>3. PICK s \in Plans : ReworkInOrder(run, Len(s))
  BY <1>2 DEF IsOrdered, Planned
<1>4. Len(s) = Len(plan)
  BY <1>2, <1>3 DEF SamePlanLengths
<1>5. Len(run.tasks) \in Nat /\ run.rework_count \in Nat /\ Len(plan) \in Nat
  BY <1>2, ArtifactPlaces, PlanPositions
<1>6. Len(run.tasks) \in {Len(plan) + run.rework_count - 1, Len(plan) + run.rework_count}
  <2>1. ReworkInOrder(run, Len(plan))
    BY <1>3, <1>4
  <2> QED
    BY <1>5, <2>1 DEF ReworkInOrder
<1>7. Len(plan) <= Len(run.tasks) /\ ReworkIndex <= Len(run.tasks) + 1
  <2>1. \A l, n, k \in Nat : k > 0 /\ l \in {n + k - 1, n + k} => n <= l /\ n + k <= l + 1
    OBVIOUS
  <2> QED
    BY <1>1, <1>5, <1>6, <2>1 DEF ReworkIndex
<1>8. Matches(run, plan)
  BY <1>1, <1>2 DEF KnowsPlan
<1> QED
  BY <1>7, <1>8, RefuseElsewhere DEF EnterRework

(* The rework of a Run in order has its source until it is done.           *)
LEMMA ReworkHasSource ==
  ASSUME OrderedInv, pc = "rework",
         IsOpened(index) => run.tasks[index].output # "valid" \/ ArtifactOf(run, index) = 0
  PROVE  HasReworkSource(run)
<1>1. run.rework_count > 0
  BY DEF OrderedInv, IInv, InControl
<1>2. /\ Sound(run) /\ IsOrdered(run) /\ ReworkInOrder(run, Len(plan))
      /\ index = Len(plan) + run.rework_count
      /\ index <= Len(run.tasks) => index \in DOMAIN run.tasks
  BY <1>1, AtRework
<1>3. ArtifactOf(run, index) = 0
  <2>1. ASSUME ArtifactOf(run, index) # 0
        PROVE  IsOpened(index) /\ run.tasks[index].output = "valid"
    <3>1. /\ ArtifactOf(run, index) \in DOMAIN run.artifacts
          /\ run.artifacts[ArtifactOf(run, index)].output_ref = index
      BY <1>2, <2>1, ArtifactPlaces
    <3>2. index \in DOMAIN run.tasks /\ run.tasks[index].output = "valid"
      BY <1>2, <3>1, ArtifactPlaces DEF IsOrdered, ArtifactsInOrder
    <3>3. DOMAIN run.tasks = 1..Len(run.tasks)
      BY <1>2, ArtifactPlaces
    <3> QED
      BY <3>2, <3>3 DEF IsOpened
  <2> QED
    BY <2>1
<1> QED
  BY <1>2, <1>3 DEF ReworkInOrder

(* The Task of a rework is opened only when its source is there, which it  *)
(* always is.                                                              *)
LEMMA OpenReworkResumable == ASSUME OrderedInv, OpenRework PROVE MayRefuse'
<1>1. pc = "rework" /\ ~IsOpened(index)
  BY DEF OpenRework
<1>2. HasReworkSource(run)
  BY <1>1, ReworkHasSource
<1> QED
  BY <1>2, RefuseOnArrival DEF OpenRework

(* A lost Task of a rework still has its source.                           *)
LEMMA ResumeReworkResumable == ASSUME OrderedInv, ResumeRework PROVE MayRefuse'
<1>1. pc = "rework" /\ run.rework_count > 0 /\ ~IsTerminalTask(run.tasks[index])
      /\ index <= Len(run.tasks)
  BY DEF ResumeRework, IsOpened, OrderedInv, IInv, InControl
<1>2. Sound(run) /\ (index <= Len(run.tasks) => index \in DOMAIN run.tasks)
  BY <1>1, AtRework
<1>3. run.tasks[index].output # "valid"
  BY <1>1, <1>2 DEF Sound, ChildrenRestorable, TaskStatesRestorable, IsTerminalTask, TerminalTaskStates
<1>4. HasReworkSource(run)
  BY <1>1, <1>3, ReworkHasSource
<1> QED
  BY <1>4, RefuseOnArrival DEF ResumeRework

(* An Output without its version still has its source.                     *)
LEMMA PassTerminalReworkResumable == ASSUME OrderedInv, PassTerminalRework PROVE MayRefuse'
<1>1. pc = "rework"
  BY DEF PassTerminalRework
<1>2. CASE WithSuccessor(run, index) = run
  BY <1>2, RefuseElsewhere DEF PassTerminalRework
<1>3. CASE WithSuccessor(run, index) # run
  <2>1. ArtifactOf(run, index) = 0
    BY <1>3 DEF WithSuccessor
  <2>2. HasReworkSource(run)
    BY <1>1, <2>1, ReworkHasSource
  <2> QED
    BY <1>3, <2>2, RefuseOnArrival DEF PassTerminalRework
<1> QED
  BY <1>2, <1>3

(* Nothing in a rework is refused but its beginning.                       *)
LEMMA ReworkResumable ==
  ASSUME SamePlanLengths, OrderedInv, MayRefuse, ReworkNext
  PROVE  MayRefuse'
<1>1. CASE ReworkAnswered
  <2>1. \E q : Commit(q, "ruling")
    BY <1>1 DEF ReworkAnswered
  <2> QED
    BY <2>1, RefuseOnArrival
<1> QED
  BY <1>1, BeginReworkResumable, EnterReworkResumable, OpenReworkResumable,
     ResumeReworkResumable, PassTerminalReworkResumable DEF ReworkNext

(* The gates: QA judges a candidate, which can be reviewed and released.   *)
LEMMA OpenQaResumable == ASSUME OrderedInv, OpenQa PROVE MayRefuse'
<1> DEFINE a == Candidate
           p == PromoteDraft(run, a)
<1>1. /\ pc # "idle" /\ run.status = "waiting_qa" /\ a = FinalCandidate(run) /\ a # 0
      /\ p = PromoteDraft(run, a)
  BY DEF OpenQa, AtQaGate, At, Candidate
<1>2. IsKept(run) /\ Sound(run) /\ IsOrdered(run)
  BY <1>1, RunIsOrdered
<1>3. IsCandidate(p, a)
  <2>1. a \in DOMAIN run.artifacts /\ (IsFresh(run, a) \/ IsCandidate(run, a))
    BY <1>1, <1>2, ArtifactPlaces DEF IsOrdered, CandidateInOrder
  <2>2. CASE IsFresh(run, a)
    <3>1. p = TransitionArtifact(run, a, "candidate")
      BY <1>1, <2>2 DEF PromoteDraft, IsFresh
    <3>2. CanTransitionArtifact(run, a, "candidate") /\ "candidate" \in ArtifactStatus
      BY <2>1, <2>2
      DEF CanTransitionArtifact, AllowedArtifactTransitions, ArtifactStatus, IsFresh
    <3> DEFINE next == Ops!WithStatus(run.artifacts[a], "candidate")
    <3>3. p.artifacts = Ops!Updated(run.artifacts, a, next)
      BY <1>2, <3>1, <3>2, TransitionArtifactLegal, Zenon
    <3>4. run.artifacts \in Seq(Artifact) /\ run.artifacts[a] \in Artifact
      BY <1>2, <2>1 DEF Sound, Run
    <3>5. next.status = "candidate"
      BY <3>4 DEF Ops!WithStatus, Artifact
    <3> HIDE DEF next, a, p
    <3> QED
      BY <2>1, <3>3, <3>4, <3>5 DEF Ops!Updated, IsCandidate
  <2>3. CASE IsCandidate(run, a)
    BY <1>1, <2>3 DEF PromoteDraft, IsCandidate
  <2> QED
    BY <2>1, <2>2, <2>3
<1>4. IsCandidate(PromoteDraft(run, Candidate), Candidate)
  BY <1>3
<1> HIDE DEF a, p
<1>5. \E q : Commit(q, "judging")
  BY <1>4 DEF OpenQa
<1> QED
  BY <1>5, RefuseOnArrival

(* After a verdict the Run waits for QA still.                             *)
LEMMA VerdictGivenResumable == ASSUME OrderedInv, VerdictGiven PROVE MayRefuse'
<1>1. PICK verdict \in EvaluationStatus \ {"pending"}, measured \in Measured :
        LET e == LatestQa(run, Candidate)
            r == IF measured THEN RecordEvaluationAnalytics(run, e) ELSE run
        IN  Commit(RecordEvaluation(r, e, verdict), "drive")
  BY DEF VerdictGiven
<1> DEFINE e == LatestQa(run, Candidate)
           r == IF measured THEN RecordEvaluationAnalytics(run, e) ELSE run
           q == RecordEvaluation(r, e, verdict)
<1>2. /\ q = RecordEvaluation(r, e, verdict) /\ Commit(q, "drive")
      /\ measured => r = RecordEvaluationAnalytics(run, e)
      /\ ~measured => r = run
  BY <1>1
<1>3. /\ pc = "judging" /\ IsKept(run) /\ run.status = "waiting_qa"
      /\ e \in DOMAIN run.evaluations /\ run.evaluations[e].status = "pending"
  BY Judging DEF VerdictGiven, OrderedInv
<1>4. IsOrdered(run)
  BY <1>3, RunIsOrdered
<1> HIDE DEF e, r, q
<1>5. IsKept(r) /\ IsOrdered(r) /\ r.status = "waiting_qa" /\ r.evaluations = run.evaluations
  BY <1>2, <1>3, <1>4, MeasuredAdvances, MeasuredOrdered DEF Advances
<1>6. q.status = r.status
  BY <1>2, <1>3, <1>5, JudgedOrdered
<1> QED
  BY <1>2, <1>5, <1>6, RefuseOnArrival

(* A Run passed on without QA has no Review that could ask for a rework.   *)
LEMMA PassWithoutQaResumable == ASSUME OrderedInv, PassWithoutQa PROVE MayRefuse'
<1> DEFINE q == MoveTo(run, "waiting_human")
<1>1. /\ pc # "idle" /\ run.status = "waiting_qa" /\ run.rework_count = 0 /\ ~qa_wired
      /\ Commit(q, "drive") /\ q = Transition(run, "waiting_human", "none")
  BY DEF PassWithoutQa, At, MoveTo
<1> HIDE DEF q
<1>2. IsKept(run) /\ IsOrdered(run)
  BY <1>1, RunIsOrdered
<1>3. /\ CanTransition(run, "waiting_human") /\ ~IsRework(run, "waiting_human")
      /\ "waiting_human" \in RunStatus
  BY <1>1 DEF CanTransition, AllowedTransitions, IsRework, RunStatus
<1>4. SameBut(run, q) /\ IsKept(q) /\ Sound(q)
  BY <1>1, <1>2, <1>3, MoveEffect DEF IsKept
<1>5. q.human_reviews = <<>>
  BY <1>1, <1>2, <1>4 DEF IsOrdered, ArtifactsInOrder, SameBut
<1>6. ~ReworkRequested(q)
  <2>1. ReviewsOf(q, FinalCandidate(q)) = {}
    BY <1>5 DEF ReviewsOf
  <2>2. LatestReview(q, FinalCandidate(q)) = 0
    BY <1>4, <2>1, Lookups
  <2> QED
    BY <2>2 DEF ReworkRequested, IsReviewOf
<1>7. run' = q /\ pc' = "drive" /\ qa_wired' = qa_wired
  BY <1>1 DEF Commit
<1> QED
  BY <1>1, <1>6, <1>7 DEF MayRefuse

(* A new Review is the latest of its candidate, and pending.               *)
LEMMA ReviewIsPending ==
  ASSUME NEW r, Sound(r), NonePending(r), NEW a, a = FinalCandidate(r),
         NEW q \in OpenReviewOn(r, a)
  PROVE  FinalCandidate(q) = a /\ LatestReview(q, a) # 0 /\ ~ReworkRequested(q)
<1> DEFINE new == [artifact_ref |-> a, status |-> "pending"]
           s == r.human_reviews
           n == Len(s) + 1
<1>1. IsCandidate(r, a) /\ q = OpenHumanReview(r, a)
  BY DEF OpenReviewOn
<1>2. Carries(r, q, {"human_reviews"}) /\ q.human_reviews = Append(s, new)
  BY <1>1, OpenHumanReviewLegal, Zenon DEF Carries
<1>3. Sound(q) /\ q.tasks = r.tasks /\ q.artifacts = r.artifacts
  BY <1>2 DEF Carries, Ops!Keeps
<1>4. s \in Seq(HumanReview) /\ new.artifact_ref = a /\ new.status = "pending"
  BY DEF Sound, Run
<1> HIDE DEF new, s
<1>5. /\ n \in DOMAIN q.human_reviews /\ q.human_reviews[n] = new
      /\ n \in Nat \ {0} /\ DOMAIN q.human_reviews = 1..n
  BY <1>2, <1>4
<1>6. FinalCandidate(q) = a
  BY <1>3, LookupsKept
<1>7. n \in ReviewsOf(q, a) /\ \A h \in ReviewsOf(q, a) : h \in 1..n
  BY <1>4, <1>5 DEF ReviewsOf
<1>8. LatestReview(q, a) # 0
  BY <1>3, <1>7, Lookups
<1>9. LatestReview(q, a) \in ReviewsOf(q, a) /\ n <= LatestReview(q, a)
  BY <1>3, <1>7, <1>8, Lookups
<1>10. LatestReview(q, a) = n
  BY <1>5, <1>7, <1>9
<1>11. ~IsReviewOf(q, a, ReworkDecisions)
  BY <1>4, <1>5, <1>10 DEF IsReviewOf, ReworkDecisions
<1> QED
  BY <1>6, <1>8, <1>11 DEF ReworkRequested

(* What QA judged can be put before a human.                               *)
LEMMA JudgedIsCandidate ==
  ASSUME NEW r, IsKept(r), IsOrdered(r), r.status = "waiting_qa",
         FinalCandidate(r) # 0, LatestQa(r, FinalCandidate(r)) # 0,
         NEW q, q = MoveTo(r, "waiting_human")
  PROVE  IsCandidate(q, FinalCandidate(q)) /\ ReviewsOf(q, FinalCandidate(q)) = {}
<1>1. /\ CanTransition(r, "waiting_human") /\ ~IsRework(r, "waiting_human")
      /\ "waiting_human" \in RunStatus /\ Sound(r)
      /\ q = Transition(r, "waiting_human", "none")
  BY DEF CanTransition, AllowedTransitions, IsRework, RunStatus, IsKept, MoveTo
<1>2. SameBut(r, q)
  BY <1>1, MoveEffect
<1>3. EvaluationsOf(r, FinalCandidate(r)) # {}
  BY <1>1, Lookups
<1>4. IsCandidate(r, FinalCandidate(r)) /\ ReviewsOf(r, FinalCandidate(r)) = {}
  BY <1>3 DEF IsOrdered, CandidateInOrder, IsFresh
<1> QED
  BY <1>2, <1>4, SameLookups

(* A Run that passed QA is at its Review.                                  *)
LEMMA PassQaResumable == ASSUME OrderedInv, PassQa PROVE MayRefuse'
<1> DEFINE p == MoveTo(run, "waiting_human")
           a == FinalCandidate(p)
<1>1. /\ pc # "idle" /\ run.status = "waiting_qa" /\ qa_wired
      /\ FinalCandidate(run) # 0 /\ LatestQa(run, FinalCandidate(run)) # 0
  BY DEF PassQa, AtQaGate, At, IsEvaluated, Candidate
<1>2. \/ \E q \in ApprovalReviewOpened(p) : Commit(q, "drive")
      \/ ApprovalReviewOpened(p) = {} /\ Refuse
  BY DEF PassQa
<1>3. p = MoveTo(run, "waiting_human")
  OBVIOUS
<1> HIDE DEF p
<1>4. Sound(p) /\ p.status = "waiting_human" /\ NonePending(p) /\ a # 0
  BY <1>1, <1>3, RunIsOrdered, QaDone
<1>5. IsCandidate(p, a) /\ ReviewsOf(p, a) = {}
  BY <1>1, <1>3, RunIsOrdered, JudgedIsCandidate
<1>6. LatestReview(p, a) = 0
  BY <1>4, <1>5, Lookups
<1>7. ApprovalReviewOpened(p) = OpenReviewOn(p, a) /\ OpenReviewOn(p, a) # {}
  BY <1>1, <1>4, <1>5, <1>6 DEF ApprovalReviewOpened, OpenReviewOn
<1>8. PICK q \in OpenReviewOn(p, a) : Commit(q, "drive")
  BY <1>2, <1>7
<1>9. FinalCandidate(q) = a /\ LatestReview(q, a) # 0 /\ ~ReworkRequested(q)
  BY <1>4, ReviewIsPending
<1>10. run' = q /\ pc' = "drive"
  BY <1>8 DEF Commit
<1> QED
  BY <1>9, <1>10 DEF MayRefuse

(* What QA does not pass is a candidate that can be reviewed.              *)
LEMMA EscalateResumable == ASSUME OrderedInv, Escalate PROVE MayRefuse'
<1> DEFINE p == MoveTo(run, "waiting_human")
<1>1. /\ pc # "idle" /\ run.status = "waiting_qa" /\ Candidate = FinalCandidate(run)
      /\ FinalCandidate(run) # 0 /\ LatestQa(run, FinalCandidate(run)) # 0
  BY DEF Escalate, AtQaGate, At, IsEvaluated, Candidate
<1>2. \/ \E q \in OpenReviewOn(p, Candidate) : CommitAndStop(q)
      \/ OpenReviewOn(p, Candidate) = {}
  BY DEF Escalate
<1>3. p = MoveTo(run, "waiting_human")
  OBVIOUS
<1> HIDE DEF p
<1>4. FinalCandidate(p) = Candidate
  BY <1>1, <1>3, RunIsOrdered, QaDone
<1>5. IsCandidate(p, Candidate)
  BY <1>1, <1>3, <1>4, RunIsOrdered, JudgedIsCandidate
<1> QED
  BY <1>2, <1>5, RefuseAtRest DEF OpenReviewOn, CommitAndStop

(* A missing Review is refused only to a draft nobody judged.              *)
LEMMA OpenMissingReviewResumable ==
  ASSUME OrderedInv, MayRefuse, OpenMissingReview
  PROVE  MayRefuse'
<1> DEFINE a == FinalCandidate(run)
<1>1. /\ pc = "drive" /\ run.status = "waiting_human" /\ IsGateHeld
      /\ a # 0 /\ LatestReview(run, a) = 0
  BY DEF OpenMissingReview, AtHumanGate, At, Candidate
<1>2. \/ \E q : CommitAndStop(q)
      \/ ApprovalReviewOpened(run) = {} /\ Refuse
  BY DEF OpenMissingReview
<1>3. Sound(run) /\ IsOrdered(run)
  BY <1>1, RunIsOrdered
<1>4. CASE \E q : CommitAndStop(q)
  BY <1>4, RefuseAtRest DEF CommitAndStop
<1>5. CASE ApprovalReviewOpened(run) = {} /\ Refuse
  <2>1. ~IsCandidate(run, a)
    BY <1>1, <1>5 DEF ApprovalReviewOpened, OpenReviewOn
  <2>2. IsFresh(run, a)
    BY <1>1, <1>3, <2>1 DEF IsOrdered, CandidateInOrder
  <2>3. run.rework_count = 0 /\ run.human_reviews = <<>>
    BY <1>1, <1>3, <2>2 DEF IsOrdered, CandidateInOrder
  <2>4. qa_wired
    BY <1>1, <2>3 DEF IsGateHeld
  <2>5. IsPassedUnjudged(run)
    BY <1>1, <2>2, <2>3 DEF IsPassedUnjudged, IsFresh
  <2>6. ~committed
    BY <1>1, <2>4 DEF MayRefuse, OrderedInv, IInv
  <2> QED
    BY <1>5, <2>4, <2>5, <2>6, RefuseUnchanged
<1> QED
  BY <1>2, <1>4, <1>5

(* What the gates let pass the aggregate lets pass.                        *)
LEMMA ReleaseResumable == ASSUME OrderedInv, Release PROVE MayRefuse'
<1> DEFINE a == FinalCandidate(run)
           isOpen == run.artifacts[a].status = "candidate"
           p == IF isOpen THEN TransitionArtifact(run, a, "approved") ELSE run
<1>1. /\ pc # "idle" /\ run.status = "waiting_human" /\ IsReleasable(run) /\ a # 0
  BY DEF Release, AtHumanGate, At, IsReleasable
<1>2. IsKept(run) /\ Sound(run) /\ IsOrdered(run)
  BY <1>1, RunIsOrdered
<1>3. /\ LatestReview(run, a) # 0
      /\ run.human_reviews[LatestReview(run, a)].status = "approved"
      /\ LatestQa(run, a) # 0
      /\ run.evaluations[LatestQa(run, a)].status = "passed"
  BY <1>1 DEF IsReleasable, IsReviewOf
<1>4. IsCandidate(run, a)
  BY <1>1, <1>2, <1>3, ReviewedCandidate
<1>5. HasApprovedReview(run, a) /\ QaPassed(run, a)
  BY <1>2, <1>3, Lookups DEF HasApprovedReview, QaPassed
<1>6. CanTransitionArtifact(run, a, "approved")
  BY <1>4, <1>5 DEF CanTransitionArtifact, IsCandidate, AllowedArtifactTransitions
<1>7. p = TransitionArtifact(run, a, "approved")
  BY <1>4 DEF IsCandidate
<1>8. \/ CommitAndStop(MoveTo(p, "completed"))
      \/ ~((isOpen => CanTransitionArtifact(run, a, "approved")) /\ CanTransition(p, "completed"))
  BY DEF Release, Candidate
<1> HIDE DEF p
<1>9. p.status = "waiting_human" /\ p.tasks = run.tasks
  BY <1>1, <1>2, <1>4, <1>6, <1>7, ApprovedEffect
<1>10. AllTasksTerminal(p)
  BY <1>1, <1>2, <1>9
  DEF IsKept, JudgedDone, IsJudged, AllTasksSucceeded, AllTasksTerminal, IsTerminalTask,
      TerminalTaskStates
<1>11. CanTransition(p, "completed")
  BY <1>9, <1>10 DEF CanTransition, AllowedTransitions, IsRework
<1> QED
  BY <1>6, <1>8, <1>11, RefuseAtRest DEF CommitAndStop

(* The gates refuse nothing else.                                          *)
LEMMA GatesResumable == ASSUME OrderedInv, MayRefuse, GateNext PROVE MayRefuse'
<1>1. CASE LeaveUnjudgedRework \/ AwaitHuman \/ LeaveTerminal
  BY <1>1, RefuseAtRest DEF LeaveUnjudgedRework, AwaitHuman, LeaveTerminal, Return
<1>2. CASE FailWithoutCandidate \/ CompleteWithoutGate
  BY <1>2, RefuseAtRest DEF FailWithoutCandidate, CompleteWithoutGate, CommitAndStop, Return
<1>3. CASE AskQaAgain
  BY <1>3, RefuseElsewhere DEF AskQaAgain
<1> QED
  BY <1>1, <1>2, <1>3, OpenQaResumable, VerdictGivenResumable, PassWithoutQaResumable,
     PassQaResumable, EscalateResumable, OpenMissingReviewResumable, ReleaseResumable
  DEF GateNext

(* A Run that is queued or started is not at the human gate.               *)
LEMMA QueueResumable == ASSUME OrderedInv, Queue \/ Start PROVE MayRefuse'
<1>1. PICK to \in {"queued", "running"} :
        /\ pc # "idle" /\ run.status = IF to = "queued" THEN "created" ELSE "queued"
        /\ Commit(MoveTo(run, to), "drive")
  BY DEF Queue, Start, At
<1>2. IsKept(run)
  BY <1>1, RunIsOrdered
<1> DEFINE q == MoveTo(run, to)
<1>3. /\ Commit(q, "drive") /\ q = Transition(run, to, "none") /\ to \in RunStatus
      /\ to \notin {"waiting_qa", "waiting_human"}
      /\ CanTransition(run, to)
  BY <1>1 DEF MoveTo, RunStatus, CanTransition, AllowedTransitions, IsRework, ReworkSources
<1> HIDE DEF q
<1>4. q.status = to
  BY <1>2, <1>3, MoveEffect
<1> QED
  BY <1>3, <1>4, RefuseOnArrival

(* A Run whose plan is done is not at the human gate yet.                  *)
LEMMA RuleResumable == ASSUME OrderedInv, Rule PROVE MayRefuse'
<1>1. /\ pc # "idle" /\ run.status = "running"
      /\ \/ \E q : CommitAndStop(q)
         \/ AllTasksSucceeded(run) /\ Commit(MoveTo(run, "waiting_qa"), "drive")
  BY DEF Rule, OrderedInv, IInv, InControl
<1>2. CASE \E q : CommitAndStop(q)
  BY <1>2, RefuseAtRest DEF CommitAndStop
<1>3. CASE AllTasksSucceeded(run) /\ Commit(MoveTo(run, "waiting_qa"), "drive")
  <2>1. IsKept(run)
    BY <1>1, RunIsOrdered
  <2> DEFINE q == MoveTo(run, "waiting_qa")
  <2>2. /\ Commit(q, "drive") /\ q = Transition(run, "waiting_qa", "none")
        /\ "waiting_qa" \in RunStatus /\ CanTransition(run, "waiting_qa")
    BY <1>1, <1>3 DEF MoveTo, RunStatus, CanTransition, AllowedTransitions, IsRework
  <2> HIDE DEF q
  <2>3. q.status = "waiting_qa"
    BY <1>3, <2>1, <2>2, MoveEffect
  <2> QED
    BY <2>2, <2>3, RefuseOnArrival
<1> QED
  BY <1>1, <1>2, <1>3

(* Every step keeps what may be refused.                                   *)
LEMMA NextResumable ==
  ASSUME SamePlanLengths, OrderedInv, MayRefuse, Next
  PROVE  MayRefuse'
<1>1. CASE Interrupt \/ EvaluatorFails
  BY <1>1, RefuseAtRest DEF Interrupt, EvaluatorFails, Return, CommitAndStop
<1>2. CASE TakeReviewDecision
  BY <1>2 DEF TakeReviewDecision, MayRefuse
<1> QED
  BY <1>1, <1>2, InvokeResumable, QueueResumable, StepsResumable, ReworkResumable,
     RuleResumable, GatesResumable DEF Next, Advance

(* What may be refused is refused before anything was committed.           *)
LEMMA RefusesInTime ==
  ASSUME SamePlanLengths
  PROVE  Spec => []MayRefuse
<1>1. Init => MayRefuse
  BY DEF Init, MayRefuse
<1>2. OrderedInv /\ MayRefuse /\ [Next]_vars => MayRefuse'
  <2>1. ASSUME OrderedInv, MayRefuse, Next
        PROVE  MayRefuse'
    BY <2>1, NextResumable
  <2>2. ASSUME MayRefuse, UNCHANGED vars
        PROVE  MayRefuse'
    BY <2>2 DEF MayRefuse, vars
  <2> QED
    BY <2>1, <2>2
<1>3. Spec => []OrderedInv
  <2>1. IInv /\ StoreInOrder /\ FollowsPlan => OrderedInv
    BY DEF OrderedInv
  <2> QED
    BY <2>1, StoreIsSound, StoreStaysInOrder, PTL
<1> QED
  BY <1>1, <1>2, <1>3, PTL DEF Spec

(* Under plans of one length whatever the store holds can be taken up      *)
(* again: nothing in the Director and nothing in the aggregate refuses it, *)
(* but a plan its Tasks do not follow, or QA wired too late                *)
(* (content_director.py _run_rework, _rework_source,                       *)
(* _open_approval_review).                                                 *)
THEOREM Resumable ==
  ASSUME SamePlanLengths
  PROVE  Spec => []AlwaysResumable
<1>1. MayRefuse /\ (IsStored => IsRestorable(stored)) => AlwaysResumable
  BY DEF MayRefuse, AlwaysResumable
<1> QED
  BY <1>1, RefusesInTime, StoreRestores, PTL

(* Under plans of one length a refused invocation has committed nothing    *)
(* (content_director.py RunResumptionError).                               *)
THEOREM RefusalsChangeNothing ==
  ASSUME SamePlanLengths
  PROVE  Spec => []RefusalChangesNothing
<1>1. MayRefuse => RefusalChangesNothing
  BY DEF MayRefuse, RefusalChangesNothing
<1> QED
  BY <1>1, RefusesInTime, PTL

-----------------------------------------------------------------------------
(* What the reviewer sees.  A Run that is stored after another is, to him, *)
(* that Run with one step of ReviewedRelease taken, or none.               *)

(* The Run an invocation finds in the store, or makes.                     *)
Row == IF IsStored THEN stored ELSE NewRun

(* Nothing is asked, answered or done about an answer.                     *)
Unasked(r, q) == q.human_reviews = r.human_reviews /\ q.rework_count = r.rework_count

(* The producer works on: the steps, QA, its own retries.                  *)
Works(r, q) == IsOpen(r) /\ IsOpen(q) /\ Unasked(r, q)

(* A candidate goes to its reviewer, who is not asked yet.                 *)
PassesOn(r, q) ==
  /\ IsOpen(r) /\ q.status = "waiting_human" /\ Unasked(r, q)
  /\ FinalCandidate(q) = FinalCandidate(r) /\ ReviewsOf(r, FinalCandidate(r)) = {}

(* The reviewer is asked about the candidate, for the first time.          *)
AsksAbout(r, q) ==
  LET a == FinalCandidate(r) IN
    /\ IsOpen(r) \/ r.status = "waiting_human"
    /\ q.status = "waiting_human" /\ q.rework_count = r.rework_count
    /\ a # 0 /\ FinalCandidate(q) = a /\ ReviewsOf(r, a) = {}
    /\ q.human_reviews = Append(r.human_reviews, [artifact_ref |-> a, status |-> "pending"])

(* The reviewer decides the last review that was asked.                    *)
Hears(r, q) ==
  LET h == Len(r.human_reviews) IN
    /\ r.status = "waiting_human" /\ q.status = "waiting_human"
    /\ q.rework_count = r.rework_count /\ FinalCandidate(q) = FinalCandidate(r)
    /\ h \in DOMAIN r.human_reviews /\ r.human_reviews[h].status = "pending"
    /\ \E decision \in ReviewStatus \ {"pending"} :
         q.human_reviews = Ops!Updated(r.human_reviews, h,
                                       Ops!WithStatus(r.human_reviews[h], decision))

(* The rejected candidate is sent back, within the limit of reworks.       *)
SendsBack(r, q) ==
  /\ ReworkRequested(r) /\ r.rework_count < MaxReworkIterations
  /\ q.status = "running" /\ q.rework_count = r.rework_count + 1
  /\ q.human_reviews = r.human_reviews /\ FinalCandidate(q) = FinalCandidate(r)

(* The Run ends: it fails, or is completed, after an approval or without a *)
(* reviewer.                                                               *)
Ends(r, q) ==
  /\ Unasked(r, q) /\ FinalCandidate(q) = FinalCandidate(r)
  /\ \/ q.status = "failed" /\ IsOpen(r)
     \/ q.status = "failed" /\ ReworkRequested(r) /\ r.rework_count >= MaxReworkIterations
     \/ /\ q.status = "completed" /\ r.status = "waiting_human"
        /\ r.human_reviews = <<>> \/ IsReviewOf(r, FinalCandidate(r), {"approved"})

(* What may happen to a Run between two saves.                             *)
Turn(r, q) ==
  \/ Works(r, q) \/ PassesOn(r, q) \/ AsksAbout(r, q) \/ Hears(r, q) \/ SendsBack(r, q)
  \/ Ends(r, q)

(* The candidate of a Run at work is the one it had, or new.               *)
LEMMA VersionsAreNew ==
  ASSUME NEW r, NEW q, Sound(r), Sound(q), Ops!Grows(r, q), FinalCandidate(q) # FinalCandidate(r)
  PROVE  FinalCandidate(q) \notin DOMAIN r.artifacts
<1> DEFINE a == FinalCandidate(q)
<1>1. SUFFICES ASSUME a \in DOMAIN r.artifacts
               PROVE  FALSE
  OBVIOUS
<1>2. /\ a # 0 /\ r.artifacts[a].output_ref \in DOMAIN r.tasks
      /\ r.artifacts[a].output_ref = Len(r.tasks) => FinalCandidate(r) = a
  BY <1>1, ArtifactPlaces
<1>3. q.artifacts[a].output_ref = Len(q.tasks)
  BY <1>2, ArtifactPlaces
<1> HIDE DEF a
<1>4. r.artifacts[a].output_ref = Len(q.tasks)
  BY <1>1, <1>3 DEF Ops!Grows, Ops!ArtifactsGrow
<1>5. /\ Len(r.tasks) \in Nat /\ DOMAIN r.tasks = 1..Len(r.tasks)
      /\ Len(q.tasks) \in Nat /\ DOMAIN q.tasks = 1..Len(q.tasks)
  BY ArtifactPlaces
<1>6. \A t \in DOMAIN r.tasks : t \in DOMAIN q.tasks
  BY DEF Ops!Grows, Ops!TasksGrow
<1>7. Len(r.tasks) <= Len(q.tasks)
  BY <1>5, <1>6
<1>8. Len(q.tasks) = Len(r.tasks)
  BY <1>2, <1>4, <1>5, <1>7
<1> QED
  BY <1>2, <1>4, <1>8 DEF a

(* The review of the candidate a Run waits with is its last, and the one   *)
(* that no rework answered yet.                                            *)
LEMMA LastReview ==
  ASSUME NEW r, Sound(r), InTurn(r), r.status = "waiting_human",
         LatestReview(r, FinalCandidate(r)) # 0
  PROVE  /\ LatestReview(r, FinalCandidate(r)) = Len(r.human_reviews)
         /\ Len(r.human_reviews) = r.rework_count + 1
<1> DEFINE a == FinalCandidate(r)
           h == LatestReview(r, a)
<1>1. h \in DOMAIN r.human_reviews /\ r.human_reviews[h].artifact_ref = a
  BY Lookups DEF ReviewsOf
<1>2. /\ r.rework_count \in Nat /\ Len(r.human_reviews) \in Nat
      /\ DOMAIN r.human_reviews = 1..Len(r.human_reviews)
  BY ArtifactPlaces
<1>3. h = r.rework_count + 1
  BY <1>1 DEF InTurn
<1> QED
  BY <1>1, <1>2, <1>3 DEF InTurn

(* While a Run is open, or its candidate not reviewed, every review so far *)
(* led to a rework.                                                        *)
LEMMA AllAnswered ==
  ASSUME NEW r, Sound(r), InTurn(r), IsOpen(r) \/ r.status = "waiting_human",
         IsOpen(r) \/ ReviewsOf(r, FinalCandidate(r)) = {}
  PROVE  Len(r.human_reviews) = r.rework_count
<1>1. /\ r.rework_count \in Nat /\ Len(r.human_reviews) \in Nat
      /\ DOMAIN r.human_reviews = 1..Len(r.human_reviews)
  BY ArtifactPlaces
<1>2. CASE IsOpen(r)
  BY <1>2 DEF InTurn
<1>3. CASE r.status = "waiting_human" /\ ReviewsOf(r, FinalCandidate(r)) = {}
  <2>1. r.rework_count + 1 \notin DOMAIN r.human_reviews
    BY <1>3 DEF InTurn, ReviewsOf
  <2> QED
    BY <1>1, <2>1 DEF InTurn
<1> QED
  BY <1>2, <1>3

(* A step keeps the reviews of a Run in turn.                              *)
LEMMA TurnKeeps ==
  ASSUME NEW r, NEW q, Sound(r), InTurn(r), Sound(q), Turn(r, q)
  PROVE  InTurn(q)
<1>1. /\ r.rework_count \in Nat /\ Len(r.human_reviews) \in Nat
      /\ DOMAIN r.human_reviews = 1..Len(r.human_reviews)
      /\ r.human_reviews \in Seq(HumanReview)
  BY ArtifactPlaces DEF Sound, Run
<1>2. /\ Len(r.human_reviews) \in {r.rework_count, r.rework_count + 1}
      /\ \A h \in 1..r.rework_count : r.human_reviews[h].status \in ReworkDecisions
      /\ \A g, h \in DOMAIN r.human_reviews :
           r.human_reviews[g].artifact_ref = r.human_reviews[h].artifact_ref => g = h
  BY DEF InTurn
<1>3. CASE Works(r, q)
  BY <1>2, <1>3, AllAnswered DEF Works, Unasked, IsOpen, InTurn
<1>4. CASE PassesOn(r, q)
  <2>1. Len(r.human_reviews) = r.rework_count
    BY <1>4, AllAnswered DEF PassesOn
  <2>2. \A h \in DOMAIN r.human_reviews : /\ r.human_reviews[h].artifact_ref # FinalCandidate(q)
                                          /\ h # r.rework_count + 1
    BY <1>1, <1>4, <2>1 DEF PassesOn, ReviewsOf
  <2> QED
    BY <1>2, <1>4, <2>1, <2>2 DEF PassesOn, Unasked, IsOpen, InTurn
<1>5. CASE AsksAbout(r, q)
  <2> DEFINE a == FinalCandidate(r)
             new == [artifact_ref |-> a, status |-> "pending"]
  <2>1. Len(r.human_reviews) = r.rework_count
    BY <1>5, AllAnswered DEF AsksAbout
  <2>2. /\ q.human_reviews = Append(r.human_reviews, new) /\ q.rework_count = r.rework_count
        /\ q.status = "waiting_human" /\ FinalCandidate(q) = a /\ ReviewsOf(r, a) = {}
        /\ new.artifact_ref = a
    BY <1>5 DEF AsksAbout
  <2> HIDE DEF a, new
  <2>3. /\ Len(q.human_reviews) = r.rework_count + 1
        /\ DOMAIN q.human_reviews = DOMAIN r.human_reviews \cup {r.rework_count + 1}
        /\ q.human_reviews[r.rework_count + 1] = new
        /\ \A h \in DOMAIN r.human_reviews : q.human_reviews[h] = r.human_reviews[h]
    BY <1>1, <2>1, <2>2, Appended
  <2>4. \A h \in DOMAIN q.human_reviews :
          q.human_reviews[h].artifact_ref = a <=> h = r.rework_count + 1
    BY <1>1, <2>1, <2>2, <2>3 DEF ReviewsOf
  <2>5. \A g, h \in DOMAIN q.human_reviews :
          q.human_reviews[g].artifact_ref = q.human_reviews[h].artifact_ref => g = h
    BY <1>2, <2>3, <2>4
  <2>6. \A h \in 1..r.rework_count : q.human_reviews[h].status \in ReworkDecisions
    BY <1>1, <1>2, <2>1, <2>3
  <2> QED
    BY <2>2, <2>3, <2>4, <2>5, <2>6 DEF InTurn, IsOpen
<1>6. CASE Hears(r, q)
  <2> DEFINE h == Len(r.human_reviews)
  <2>1. PICK decision \in ReviewStatus \ {"pending"} :
          q.human_reviews = Ops!Updated(r.human_reviews, h,
                                        Ops!WithStatus(r.human_reviews[h], decision))
    BY <1>6 DEF Hears
  <2> DEFINE next == Ops!WithStatus(r.human_reviews[h], decision)
  <2>2. /\ h \in DOMAIN r.human_reviews /\ r.human_reviews[h].status = "pending"
        /\ q.status = "waiting_human" /\ r.status = "waiting_human"
        /\ q.rework_count = r.rework_count /\ FinalCandidate(q) = FinalCandidate(r)
        /\ q.human_reviews = Ops!Updated(r.human_reviews, h, next)
    BY <1>6, <2>1 DEF Hears
  <2>3. next.artifact_ref = r.human_reviews[h].artifact_ref
    BY <1>1, <2>2 DEF Ops!WithStatus, HumanReview
  <2> HIDE DEF next
  <2>4. /\ DOMAIN q.human_reviews = DOMAIN r.human_reviews
        /\ Len(q.human_reviews) = Len(r.human_reviews)
        /\ \A g \in DOMAIN r.human_reviews :
             /\ q.human_reviews[g].artifact_ref = r.human_reviews[g].artifact_ref
             /\ g # h => q.human_reviews[g] = r.human_reviews[g]
    BY <1>1, <2>2, <2>3 DEF Ops!Updated
  <2>5. h = r.rework_count + 1
    <3>1. "pending" \notin ReworkDecisions
      BY DEF ReworkDecisions
    <3> QED
      BY <1>1, <1>2, <2>2, <3>1
  <2> HIDE DEF h
  <2>6. \A g \in 1..r.rework_count : q.human_reviews[g].status \in ReworkDecisions
    <3>1. \A g \in 1..r.rework_count : g \in DOMAIN r.human_reviews /\ g # h
      BY <1>1, <2>5 DEF h
    <3> QED
      BY <1>2, <2>4, <3>1
  <2>7. \A g \in DOMAIN q.human_reviews :
          q.human_reviews[g].artifact_ref = FinalCandidate(q) <=> g = r.rework_count + 1
    BY <2>2, <2>4 DEF InTurn
  <2> QED
    BY <1>2, <2>2, <2>4, <2>6, <2>7 DEF InTurn, IsOpen
<1>7. CASE SendsBack(r, q)
  <2>1. /\ r.status = "waiting_human" /\ LatestReview(r, FinalCandidate(r)) # 0
        /\ r.human_reviews[LatestReview(r, FinalCandidate(r))].status \in ReworkDecisions
    BY <1>7 DEF SendsBack, ReworkRequested, IsReviewOf
  <2>2. /\ Len(r.human_reviews) = r.rework_count + 1
        /\ r.human_reviews[r.rework_count + 1].status \in ReworkDecisions
    BY <2>1, LastReview
  <2>3. \A h \in 1..(r.rework_count + 1) : r.human_reviews[h].status \in ReworkDecisions
    BY <1>1, <1>2, <2>2
  <2> QED
    BY <1>1, <1>2, <1>7, <2>2, <2>3 DEF SendsBack, InTurn, IsOpen
<1>8. CASE Ends(r, q)
  BY <1>2, <1>8 DEF Ends, Unasked, InTurn, IsOpen
<1> QED
  BY <1>3, <1>4, <1>5, <1>6, <1>7, <1>8 DEF Turn

(* How the Run is for its reviewer.                                        *)
Outcome(r) == IF r.status \in {"completed", "failed"} THEN r.status ELSE "open"

(* A new Run shows him what no Run does.                                   *)
LEMMA RowSeen ==
  /\ (IF IsStored THEN FinalCandidate(stored) ELSE 0) = FinalCandidate(Row)
  /\ (IF IsStored THEN stored.human_reviews ELSE <<>>) = Row.human_reviews
  /\ (IF IsStored THEN stored.rework_count ELSE 0) = Row.rework_count
  /\ (IF IsStored /\ stored.status \in {"completed", "failed"} THEN stored.status ELSE "open")
       = Outcome(Row)
<1>1. CASE IsStored
  BY <1>1 DEF Row, Outcome
<1>2. CASE ~IsStored
  <2>1. /\ NewRun.tasks = <<>> /\ NewRun.human_reviews = <<>> /\ NewRun.rework_count = 0
        /\ NewRun.status = "created"
    BY DEF NewRun
  <2>2. FinalCandidate(NewRun) = 0
    BY <2>1, Zenon DEF FinalCandidate
  <2> QED
    BY <1>2, <2>1, <2>2 DEF Row, Outcome
<1> QED
  BY <1>1, <1>2

(* What he sees of q, once that is stored.                                 *)
LEMMA StoredSeen ==
  ASSUME NEW q, q # NoRun, stored' = q
  PROVE  /\ (IF IsStored THEN FinalCandidate(stored) ELSE 0)' = FinalCandidate(q)
         /\ (IF IsStored THEN stored.human_reviews ELSE <<>>)' = q.human_reviews
         /\ (IF IsStored THEN stored.rework_count ELSE 0)' = q.rework_count
         /\ (IF IsStored /\ stored.status \in {"completed", "failed"} THEN stored.status
             ELSE "open")' = Outcome(q)
BY DEF IsStored, Outcome

(* A step on the Run is one of ReviewedRelease, or none.                   *)
LEMMA TurnMaps ==
  ASSUME NEW r, r = Row, Sound(r), InTurn(r), r.status \notin {"completed", "failed"},
         NEW q, q # NoRun, stored' = q, Sound(q), Ops!Grows(r, q), Turn(r, q)
  PROVE  [Reviewer!Next]_(Reviewer!vars)
<1>1. /\ (IF IsStored THEN FinalCandidate(stored) ELSE 0) = FinalCandidate(r)
      /\ (IF IsStored THEN stored.human_reviews ELSE <<>>) = r.human_reviews
      /\ (IF IsStored THEN stored.rework_count ELSE 0) = r.rework_count
      /\ (IF IsStored /\ stored.status \in {"completed", "failed"} THEN stored.status
          ELSE "open") = "open"
  BY RowSeen DEF Outcome
<1>2. /\ (IF IsStored THEN FinalCandidate(stored) ELSE 0)' = FinalCandidate(q)
      /\ (IF IsStored THEN stored.human_reviews ELSE <<>>)' = q.human_reviews
      /\ (IF IsStored THEN stored.rework_count ELSE 0)' = q.rework_count
      /\ (IF IsStored /\ stored.status \in {"completed", "failed"} THEN stored.status
          ELSE "open")' = Outcome(q)
  BY StoredSeen
<1>3. /\ r.rework_count \in Nat /\ Len(r.human_reviews) \in Nat
      /\ DOMAIN r.human_reviews = 1..Len(r.human_reviews)
      /\ r.human_reviews \in Seq(HumanReview)
      /\ \A h \in DOMAIN r.human_reviews : r.human_reviews[h].artifact_ref \in DOMAIN r.artifacts
  BY ArtifactPlaces DEF Sound, Run
<1>4. CASE Works(r, q)
  <2>1. Len(r.human_reviews) = r.rework_count /\ Outcome(q) = "open"
    BY <1>4, AllAnswered DEF Works, IsOpen, Outcome
  <2>2. q.human_reviews = r.human_reviews /\ q.rework_count = r.rework_count
    BY <1>4 DEF Works, Unasked
  <2>3. CASE FinalCandidate(q) = FinalCandidate(r)
    BY <1>1, <1>2, <2>1, <2>2, <2>3 DEF Reviewer!vars
  <2>4. CASE FinalCandidate(q) # FinalCandidate(r)
    <3>1. FinalCandidate(q) \notin {r.human_reviews[h].artifact_ref : h \in DOMAIN r.human_reviews}
      BY <1>3, <2>4, VersionsAreNew
    <3>2. Reviewer!Produce
      BY <1>1, <1>2, <1>3, <2>1, <2>2, <3>1 DEF Reviewer!Produce, Reviewer!IsAsked, Reviewer!Seen
    <3> QED
      BY <3>2 DEF Reviewer!Next
  <2> QED
    BY <2>3, <2>4
<1>5. CASE PassesOn(r, q)
  BY <1>1, <1>2, <1>5 DEF PassesOn, Unasked, Outcome, Reviewer!vars
<1>6. CASE AsksAbout(r, q)
  <2>1. Len(r.human_reviews) = r.rework_count /\ Outcome(q) = "open"
    BY <1>6, AllAnswered DEF AsksAbout, Outcome
  <2>2. /\ FinalCandidate(r) # 0 /\ FinalCandidate(q) = FinalCandidate(r)
        /\ q.rework_count = r.rework_count
        /\ q.human_reviews = Append(r.human_reviews,
                                    [artifact_ref |-> FinalCandidate(r), status |-> "pending"])
        /\ FinalCandidate(r) \notin {r.human_reviews[h].artifact_ref : h \in DOMAIN r.human_reviews}
    BY <1>6 DEF AsksAbout, ReviewsOf
  <2>3. Reviewer!Ask
    BY <1>1, <1>2, <1>3, <2>1, <2>2 DEF Reviewer!Ask, Reviewer!IsAsked, Reviewer!Seen
  <2> QED
    BY <2>3 DEF Reviewer!Next
<1>7. CASE Hears(r, q)
  <2> DEFINE h == Len(r.human_reviews)
  <2>1. PICK decision \in ReviewStatus \ {"pending"} :
          q.human_reviews = Ops!Updated(r.human_reviews, h,
                                        Ops!WithStatus(r.human_reviews[h], decision))
    BY <1>7 DEF Hears
  <2>2. /\ h \in DOMAIN r.human_reviews /\ r.human_reviews[h].status = "pending"
        /\ q.rework_count = r.rework_count /\ FinalCandidate(q) = FinalCandidate(r)
        /\ Outcome(q) = "open"
    BY <1>7 DEF Hears, Outcome
  <2>3. q.human_reviews = [r.human_reviews EXCEPT ![h].status = decision]
    BY <2>1, Zenon DEF Ops!Updated, Ops!WithStatus
  <2>4. decision \in ReworkDecisions \cup {"approved"}
    BY DEF ReviewStatus, ReworkDecisions
  <2>5. h > r.rework_count
    <3>1. "pending" \notin ReworkDecisions
      BY DEF ReworkDecisions
    <3> QED
      BY <1>3, <2>2, <3>1 DEF InTurn
  <2>6. Reviewer!Decide
    BY <1>1, <1>2, <2>2, <2>3, <2>4, <2>5 DEF Reviewer!Decide, Reviewer!IsAsked, Reviewer!Answer
  <2> QED
    BY <2>6 DEF Reviewer!Next
<1>8. CASE SendsBack(r, q)
  <2>1. /\ r.status = "waiting_human" /\ LatestReview(r, FinalCandidate(r)) # 0
        /\ r.human_reviews[LatestReview(r, FinalCandidate(r))].status \in ReworkDecisions
    BY <1>8 DEF SendsBack, ReworkRequested, IsReviewOf
  <2>2. /\ Len(r.human_reviews) > r.rework_count
        /\ r.human_reviews[Len(r.human_reviews)].status \in ReworkDecisions
    BY <1>3, <2>1, LastReview
  <2>3. /\ r.rework_count < MaxReworkIterations /\ q.rework_count = r.rework_count + 1
        /\ q.human_reviews = r.human_reviews /\ FinalCandidate(q) = FinalCandidate(r)
        /\ Outcome(q) = "open"
    BY <1>8 DEF SendsBack, Outcome
  <2>4. Reviewer!Rework
    BY <1>1, <1>2, <2>2, <2>3
    DEF Reviewer!Rework, Reviewer!IsSentBack, Reviewer!IsAsked, Reviewer!Answer
  <2> QED
    BY <2>4 DEF Reviewer!Next
<1>9. CASE Ends(r, q)
  <2>1. /\ q.human_reviews = r.human_reviews /\ q.rework_count = r.rework_count
        /\ FinalCandidate(q) = FinalCandidate(r)
    BY <1>9 DEF Ends, Unasked
  <2>2. CASE q.status = "failed" /\ IsOpen(r)
    <3>1. Len(r.human_reviews) = r.rework_count /\ Outcome(q) = "failed"
      BY <2>2, AllAnswered DEF Outcome
    <3>2. Reviewer!Fail
      BY <1>1, <1>2, <1>3, <2>1, <3>1 DEF Reviewer!Fail, Reviewer!IsAsked
    <3> QED
      BY <3>2 DEF Reviewer!Next
  <2>3. CASE q.status = "failed" /\ ReworkRequested(r) /\ r.rework_count >= MaxReworkIterations
    <3>1. /\ r.status = "waiting_human" /\ LatestReview(r, FinalCandidate(r)) # 0
          /\ r.human_reviews[LatestReview(r, FinalCandidate(r))].status \in ReworkDecisions
      BY <2>3 DEF ReworkRequested, IsReviewOf
    <3>2. /\ Len(r.human_reviews) > r.rework_count
          /\ r.human_reviews[Len(r.human_reviews)].status \in ReworkDecisions
      BY <1>3, <3>1, LastReview
    <3>3. r.rework_count = MaxReworkIterations
      BY <2>3, LimitAssumption DEF Sound, Run
    <3>4. Reviewer!Fail
      BY <1>1, <1>2, <2>1, <2>3, <3>2, <3>3
      DEF Reviewer!Fail, Reviewer!IsSentBack, Reviewer!IsAsked, Reviewer!Answer, Outcome
    <3> QED
      BY <3>4 DEF Reviewer!Next
  <2>4. CASE /\ q.status = "completed" /\ r.status = "waiting_human"
             /\ r.human_reviews = <<>> \/ IsReviewOf(r, FinalCandidate(r), {"approved"})
    <3>1. IF Len(r.human_reviews) > r.rework_count
            THEN r.human_reviews[Len(r.human_reviews)].status = "approved"
            ELSE r.human_reviews = <<>>
      <4>1. CASE r.human_reviews = <<>>
        BY <1>3, <4>1
      <4>2. CASE IsReviewOf(r, FinalCandidate(r), {"approved"})
        BY <1>3, <2>4, <4>2, LastReview DEF IsReviewOf
      <4> QED
        BY <2>4, <4>1, <4>2
    <3>2. Reviewer!Release
      BY <1>1, <1>2, <2>1, <2>4, <3>1
      DEF Reviewer!Release, Reviewer!IsAsked, Reviewer!Answer, Outcome
    <3> QED
      BY <3>2 DEF Reviewer!Next
  <2> QED
    BY <1>9, <2>2, <2>3, <2>4 DEF Ends
<1> QED
  BY <1>4, <1>5, <1>6, <1>7, <1>8, <1>9 DEF Turn

-----------------------------------------------------------------------------
(* The steps of the Director, as the reviewer sees them.                   *)

(* What a step does to the store, for the reviewer.                        *)
TurnStep == stored' = stored \/ Turn(Row, stored')

(* What an invocation works on is the Row.                                 *)
LEMMA RunIsRow == ASSUME OrderedInv, pc # "idle" PROVE run = Row
BY RunIsKept DEF OrderedInv, Row, IsStored

(* A commit.                                                               *)
LEMMA TurnCommitted ==
  ASSUME OrderedInv, pc # "idle", NEW q, Turn(run, q),
         CommitAndStop(q) \/ \E label : Commit(q, label)
  PROVE  TurnStep
<1>1. stored' = q
  BY DEF CommitAndStop, Commit
<1> QED
  BY <1>1, RunIsRow DEF TurnStep

(* The calls that move neither the Run nor its reviews.                    *)
LEMMA WorkCarried ==
  ASSUME NEW r, IsOpen(r), NEW q, NEW changed, Carries(r, q, changed),
         "status" \notin changed, "human_reviews" \notin changed
  PROVE  Turn(r, q)
BY DEF Carries, Ops!Keeps, Turn, Works, Unasked, IsOpen

(* A transition of the Run leaves the reviews and the candidate as they    *)
(* are.                                                                    *)
LEMMA MoveSeen ==
  ASSUME NEW r, IsKept(r), NEW to \in RunStatus, NEW reason \in FailureReason \cup {"none"},
         CanTransition(r, to), to = "waiting_qa" => AllTasksSucceeded(r),
         NEW q, q = Transition(r, to, reason)
  PROVE  /\ q.human_reviews = r.human_reviews /\ FinalCandidate(q) = FinalCandidate(r)
         /\ q.status = to /\ IsKept(q)
         /\ q.rework_count = IF IsRework(r, to) THEN r.rework_count + 1 ELSE r.rework_count
<1>1. /\ SameBut(r, q) /\ q.status = to /\ IsKept(q)
      /\ q.rework_count = IF IsRework(r, to) THEN r.rework_count + 1 ELSE r.rework_count
  BY MoveEffect
<1> QED
  BY <1>1, SameLookups DEF SameBut

(* An open Run fails.                                                      *)
LEMMA FailSeen ==
  ASSUME NEW r, IsKept(r), NEW reason \in FailureReason, NEW q, q = Fail(r, reason),
         \/ IsOpen(r)
         \/ ReworkRequested(r) /\ r.rework_count >= MaxReworkIterations
  PROVE  Turn(r, q)
<1>1. r.status \in RunStatus /\ r.status \notin {"completed", "failed"}
  BY DEF IsKept, Sound, Run, IsOpen, ReworkRequested
<1>2. CanTransition(r, "failed") /\ ~IsRework(r, "failed") /\ "failed" \in RunStatus
      /\ q = Transition(r, "failed", reason)
  BY <1>1 DEF CanTransition, AllowedTransitions, RunStatus, IsRework, Fail
<1>3. /\ q.human_reviews = r.human_reviews /\ FinalCandidate(q) = FinalCandidate(r)
      /\ q.status = "failed" /\ q.rework_count = r.rework_count
  BY <1>2, MoveSeen
<1> QED
  BY <1>3 DEF Turn, Ends, Unasked

(* An invocation that stores nothing.                                      *)
LEMMA NothingSeen ==
  ASSUME \/ Invoke \/ Interrupt \/ EnterSteps \/ EndSteps \/ EnterRework \/ AskQaAgain
         \/ LeaveUnjudgedRework \/ AwaitHuman \/ LeaveTerminal
  PROVE  TurnStep
BY DEF Invoke, Interrupt, EnterSteps, EndSteps, EnterRework, AskQaAgain, LeaveUnjudgedRework,
       AwaitHuman, LeaveTerminal, Return, Goto, Refuse, TurnStep

(* A Run is queued, or started.                                            *)
LEMMA BeginningSeen == ASSUME OrderedInv, Queue \/ Start PROVE TurnStep
<1>1. PICK to \in {"queued", "running"} :
        /\ pc # "idle" /\ Commit(MoveTo(run, to), "drive")
        /\ run.status = IF to = "queued" THEN "created" ELSE "queued"
  BY DEF Queue, Start, At
<1> DEFINE q == MoveTo(run, to)
<1>2. /\ CanTransition(run, to) /\ ~IsRework(run, to) /\ to \in RunStatus /\ to # "waiting_qa"
      /\ q = Transition(run, to, "none") /\ Commit(q, "drive")
  BY <1>1 DEF CanTransition, AllowedTransitions, IsRework, ReworkSources, RunStatus, MoveTo
<1> HIDE DEF q
<1>3. /\ q.human_reviews = run.human_reviews /\ q.status = to
      /\ q.rework_count = run.rework_count
  BY <1>1, <1>2, RunIsOrdered, MoveSeen
<1>4. Turn(run, q)
  BY <1>1, <1>3 DEF Turn, Works, Unasked, IsOpen
<1> QED
  BY <1>1, <1>2, <1>4, TurnCommitted

(* A Task of the plan is passed by.                                        *)
LEMMA PassTerminalTaskSeen == ASSUME OrderedInv, PassTerminalTask PROVE TurnStep
<1> DEFINE q == WithArtifact(run, index)
<1>1. /\ pc # "idle" /\ run.status = "running"
      /\ index \in 1..(Len(run.tasks) + 1) /\ index <= Len(run.tasks)
      /\ stored' = (IF q = run THEN stored ELSE q) /\ q = WithArtifact(run, index)
  BY DEF PassTerminalTask, InPlan, IsOpened, OrderedInv, IInv, InControl
<1>2. IsKept(run) /\ Sound(run) /\ index \in DOMAIN run.tasks
  BY <1>1, RunIsOrdered, OpenedPosition
<1> HIDE DEF q
<1>3. Carries(run, q, {"artifacts"}) /\ IsOpen(run)
  BY <1>1, <1>2, WithArtifactEffect DEF IsOpen
<1>4. Turn(run, q)
  BY <1>3, WorkCarried
<1> QED
  BY <1>1, <1>4, RunIsRow DEF TurnStep

(* A lost Task, of the plan or of a rework, is tried again, or fails.       *)
LEMMA ResumeTaskSeen == ASSUME OrderedInv, ResumeTask \/ ResumeRework PROVE TurnStep
<1>1. /\ pc # "idle" /\ run.status = "running"
      /\ index \in 1..(Len(run.tasks) + 1) /\ index <= Len(run.tasks)
      /\ ~IsTerminalTask(run.tasks[index])
  BY DEF ResumeTask, ResumeRework, InPlan, IsOpened, OrderedInv, IInv, InControl
<1>2. IsKept(run) /\ index \in DOMAIN run.tasks
  BY <1>1, RunIsOrdered, OpenedPosition
<1> DEFINE to == IF HasAttemptsLeft(run.tasks[index]) THEN "running" ELSE "failed"
           q == TransitionTask(run, index, to)
<1>3. /\ \E label : Commit(q, label)
      /\ q = TransitionTask(run, index, to)
      /\ to = IF HasAttemptsLeft(run.tasks[index]) THEN "running" ELSE "failed"
  BY DEF ResumeTask, ResumeRework
<1> HIDE DEF q, to
<1>4. Carries(run, q, {"tasks"}) /\ IsOpen(run)
  BY <1>1, <1>2, <1>3, AdvancesTrying DEF IsOpen
<1>5. Turn(run, q)
  BY <1>4, WorkCarried
<1> QED
  BY <1>1, <1>3, <1>5, TurnCommitted

(* A step of the plan is opened.                                           *)
LEMMA OpenStepSeen == ASSUME OrderedInv, OpenStep PROVE TurnStep
<1>1. /\ pc = "steps" /\ pc # "idle" /\ run.status = "running"
      /\ index \in 1..(Len(run.tasks) + 1) /\ ~(index <= Len(run.tasks)) /\ index <= Len(plan)
  BY DEF OpenStep, InPlan, IsOpened, OrderedInv, IInv, InControl
<1>2. IsKept(run) /\ Sound(run) /\ plan \in Plans /\ index \in Nat \ {0}
  BY <1>1, RunIsOrdered, OpenedPosition
<1>3. index \in DOMAIN plan
  BY <1>1, <1>2, PlanPositions
<1> DEFINE input == ChainedInput(run, index)
           q == StartTask(run, plan[index], input)
<1>4. Commit(q, "executing") /\ input \in TaskInput
  BY <1>2, ChainedInputTyped DEF OpenStep
<1>5. q = StartTask(run, plan[index], input)
  OBVIOUS
<1> HIDE DEF q, input
<1>6. Carries(run, q, {"tasks"}) /\ IsOpen(run)
  BY <1>1, <1>2, <1>3, <1>4, <1>5, StartTaskEffect DEF IsOpen
<1>7. Turn(run, q)
  BY <1>6, WorkCarried
<1> QED
  BY <1>1, <1>4, <1>7, TurnCommitted

(* The Task of a rework is opened.                                         *)
LEMMA OpenReworkSeen == ASSUME OrderedInv, OpenRework PROVE TurnStep
<1>1. pc = "rework" /\ pc # "idle" /\ run.status = "running"
  BY DEF OpenRework, OrderedInv, IInv, InControl
<1>2. IsKept(run) /\ Sound(run) /\ plan \in Plans
  BY <1>1, RunIsOrdered
<1>3. Len(plan) \in DOMAIN plan
  BY <1>2, PlanPositions
<1>4. CASE Refuse
  BY <1>4 DEF Refuse, Goto, TurnStep
<1>5. CASE Commit(StartTask(run, plan[Len(plan)], ReworkInput(run)), "executing")
  <2> DEFINE input == ReworkInput(run)
             q == StartTask(run, plan[Len(plan)], input)
  <2>1. Commit(q, "executing") /\ input \in TaskInput /\ q = StartTask(run, plan[Len(plan)], input)
    BY <1>2, <1>5, ReworkInputTyped
  <2> HIDE DEF q, input
  <2>2. Carries(run, q, {"tasks"}) /\ IsOpen(run)
    BY <1>1, <1>2, <1>3, <2>1, StartTaskEffect DEF IsOpen
  <2>3. Turn(run, q)
    BY <2>2, WorkCarried
  <2> QED
    BY <1>1, <2>1, <2>3, TurnCommitted
<1> QED
  BY <1>4, <1>5 DEF OpenRework

(* An executor answers.                                                    *)
LEMMA AnswerSeen == ASSUME OrderedInv, StepAnswered \/ ReworkAnswered PROVE TurnStep
<1>1. /\ pc = "executing" /\ pc # "idle" /\ run.status = "running"
      /\ index \in DOMAIN run.tasks /\ run.tasks[index].status = "running"
      /\ run.rework_count > 0 => HasReworkSource(run)
  BY DEF StepAnswered, ReworkAnswered, OrderedInv, IInv, InControl
<1>2. IsKept(run) /\ Sound(run) /\ IsOpen(run)
  BY <1>1, RunIsOrdered DEF IsOpen
<1>3. PICK answer \in Answers :
        LET n == FinishTask(run, index, answer)
        IN  \E label : \/ Commit(WithArtifact(n, index), label)
                       \/ run.rework_count > 0 /\ Commit(WithSuccessor(n, index), label)
  BY DEF StepAnswered, ReworkAnswered
<1> DEFINE n == FinishTask(run, index, answer)
<1>4. n = FinishTask(run, index, answer)
  OBVIOUS
<1>5. PICK q : /\ \E label : Commit(q, label)
               /\ \/ q = WithArtifact(n, index)
                  \/ run.rework_count > 0 /\ q = WithSuccessor(n, index)
  BY <1>3
<1> HIDE DEF n
<1>6. Carries(run, n, {"tasks", "analytics_records"}) /\ OneTaskMoves(run, n, index)
  BY <1>1, <1>2, <1>4, FinishTaskEffect
<1>7. /\ Sound(n) /\ index \in DOMAIN n.tasks
      /\ n.artifacts = run.artifacts
  BY <1>1, <1>6 DEF Carries, OneTaskMoves, Ops!Keeps
<1>8. run.rework_count > 0 => LiveCandidate(n) # 0
  BY <1>1, <1>7 DEF HasReworkSource, LiveCandidate
<1>9. Carries(n, q, {"artifacts"})
  BY <1>5, <1>7, <1>8, WithArtifactEffect, WithSuccessorEffect
<1>10. Carries(run, q, {"tasks", "analytics_records"} \cup {"artifacts"})
  BY <1>2, <1>6, <1>9, CarriesOn
<1>11. Turn(run, q)
  BY <1>2, <1>10, WorkCarried
<1> QED
  BY <1>1, <1>5, <1>11, TurnCommitted

(* The Task of a rework is passed by.                                      *)
LEMMA PassTerminalReworkSeen == ASSUME OrderedInv, PassTerminalRework PROVE TurnStep
<1> DEFINE q == WithSuccessor(run, index)
<1>1. /\ pc = "rework" /\ pc # "idle" /\ run.status = "running" /\ q = WithSuccessor(run, index)
      /\ index \in 1..(Len(run.tasks) + 1) /\ index <= Len(run.tasks)
      /\ \/ Goto("ruling")
         \/ HasReworkSource(run) /\ Commit(q, "ruling")
         \/ Refuse
  BY DEF PassTerminalRework, IsOpened, OrderedInv, IInv, InControl
<1>2. IsKept(run) /\ Sound(run) /\ index \in DOMAIN run.tasks /\ IsOpen(run)
  BY <1>1, RunIsOrdered, OpenedPosition DEF IsOpen
<1> HIDE DEF q
<1>3. CASE Goto("ruling") \/ Refuse
  BY <1>3 DEF Refuse, Goto, TurnStep
<1>4. CASE HasReworkSource(run) /\ Commit(q, "ruling")
  <2>1. LiveCandidate(run) # 0
    BY <1>4 DEF HasReworkSource
  <2>2. Carries(run, q, {"artifacts"})
    BY <1>1, <1>2, <2>1, WithSuccessorEffect
  <2>3. Turn(run, q)
    BY <1>2, <2>2, WorkCarried
  <2> QED
    BY <1>1, <1>4, <2>3, TurnCommitted
<1> QED
  BY <1>1, <1>3, <1>4

(* A Run that ran is passed on to QA, or fails.                            *)
LEMMA RuleSeen == ASSUME OrderedInv, Rule PROVE TurnStep
<1>1. pc # "idle" /\ run.status = "running"
  BY DEF Rule, OrderedInv, IInv, InControl
<1>2. IsKept(run) /\ IsOpen(run)
  BY <1>1, RunIsOrdered DEF IsOpen
<1>3. ASSUME NEW reason \in FailureReason, CommitAndStop(Fail(run, reason))
      PROVE  TurnStep
  <2>1. Turn(run, Fail(run, reason))
    BY <1>2, FailSeen
  <2> QED
    BY <1>1, <1>3, <2>1, TurnCommitted
<1>4. CASE AllTasksSucceeded(run) /\ Commit(MoveTo(run, "waiting_qa"), "drive")
  <2> DEFINE q == MoveTo(run, "waiting_qa")
  <2>1. /\ CanTransition(run, "waiting_qa") /\ ~IsRework(run, "waiting_qa")
        /\ "waiting_qa" \in RunStatus /\ q = Transition(run, "waiting_qa", "none")
        /\ Commit(q, "drive")
    BY <1>1, <1>4 DEF CanTransition, AllowedTransitions, IsRework, RunStatus, MoveTo
  <2> HIDE DEF q
  <2>2. /\ q.human_reviews = run.human_reviews /\ q.status = "waiting_qa"
        /\ q.rework_count = run.rework_count
    BY <1>2, <1>4, <2>1, MoveSeen
  <2>3. Turn(run, q)
    BY <1>2, <2>2 DEF Turn, Works, Unasked, IsOpen
  <2> QED
    BY <1>1, <2>1, <2>3, TurnCommitted
<1> QED
  BY <1>3, <1>4 DEF Rule, FailureReason

(* A rework begins, or the Run is given up.                                *)
LEMMA BeginReworkSeen == ASSUME OrderedInv, BeginRework PROVE TurnStep
<1>1. pc # "idle" /\ ReworkRequested(run) /\ run.status = "waiting_human"
  BY DEF BeginRework, ReworkRequested
<1>2. IsKept(run) /\ run.rework_count \in Nat
  BY <1>1, RunIsOrdered, ArtifactPlaces
<1>3. IsRework(run, "running") /\ "running" \in AllowedTransitions[run.status]
  BY <1>1 DEF IsRework, ReworkSources, AllowedTransitions
<1>4. CASE Refuse
  BY <1>4 DEF Refuse, Goto, TurnStep
<1>5. CASE CanTransition(run, "running") /\ Commit(MoveTo(run, "running"), "drive")
  <2> DEFINE q == MoveTo(run, "running")
  <2>1. /\ "running" \in RunStatus /\ q = Transition(run, "running", "none")
        /\ Commit(q, "drive") /\ run.rework_count < MaxReworkIterations
    BY <1>3, <1>5 DEF RunStatus, MoveTo, CanTransition
  <2> HIDE DEF q
  <2>2. /\ q.human_reviews = run.human_reviews /\ FinalCandidate(q) = FinalCandidate(run)
        /\ q.status = "running" /\ q.rework_count = run.rework_count + 1
    BY <1>2, <1>3, <1>5, <2>1, MoveSeen
  <2>3. Turn(run, q)
    BY <1>1, <2>1, <2>2 DEF Turn, SendsBack
  <2> QED
    BY <1>1, <2>1, <2>3, TurnCommitted
<1>6. CASE ~CanTransition(run, "running") /\ CommitAndStop(Fail(run, "rework limit"))
  <2>1. run.rework_count >= MaxReworkIterations
    <3>1. ~(run.rework_count < MaxReworkIterations)
      BY <1>3, <1>6 DEF CanTransition
    <3> QED
      BY <1>2, <3>1, LimitAssumption
  <2>2. Turn(run, Fail(run, "rework limit"))
    BY <1>1, <1>2, <2>1, FailSeen DEF FailureReason
  <2> QED
    BY <1>1, <1>6, <2>2, TurnCommitted
<1> QED
  BY <1>4, <1>5, <1>6 DEF BeginRework

(* A Run QA is done with waits for its reviewer, who did not see its       *)
(* candidate yet.                                                          *)
LEMMA WaitsSeen ==
  ASSUME NEW r, IsKept(r), IsOrdered(r), r.status = "waiting_qa",
         NEW q, q = MoveTo(r, "waiting_human")
  PROVE  IsKept(q) /\ PassesOn(r, q)
<1>1. /\ CanTransition(r, "waiting_human") /\ ~IsRework(r, "waiting_human")
      /\ "waiting_human" \in RunStatus /\ Sound(r)
      /\ q = Transition(r, "waiting_human", "none")
  BY DEF CanTransition, AllowedTransitions, IsRework, RunStatus, IsKept, MoveTo
<1>2. /\ q.human_reviews = r.human_reviews /\ FinalCandidate(q) = FinalCandidate(r)
      /\ q.status = "waiting_human" /\ IsKept(q) /\ q.rework_count = r.rework_count
  BY <1>1, MoveSeen
<1>3. ReviewsOf(r, FinalCandidate(r)) = {}
  <2>1. CASE FinalCandidate(r) = 0
    BY <1>1, <2>1, ArtifactPlaces DEF ReviewsOf
  <2>2. CASE FinalCandidate(r) # 0
    BY <2>2 DEF IsOrdered, CandidateInOrder
  <2> QED
    BY <2>1, <2>2
<1> QED
  BY <1>2, <1>3 DEF PassesOn, Unasked, IsOpen

(* The reviewer is asked about the candidate of p, which is r with or      *)
(* without the step to its reviewer.                                       *)
LEMMA AskSeen ==
  ASSUME NEW r, NEW p, IsKept(p), p.status = "waiting_human",
         IsOpen(r) \/ r.status = "waiting_human",
         p.human_reviews = r.human_reviews, p.rework_count = r.rework_count,
         FinalCandidate(p) = FinalCandidate(r), ReviewsOf(r, FinalCandidate(r)) = {},
         NEW q \in OpenReviewOn(p, FinalCandidate(r))
  PROVE  AsksAbout(r, q)
<1> DEFINE a == FinalCandidate(r)
<1>1. IsCandidate(p, a) /\ q = OpenHumanReview(p, a) /\ Sound(p)
  BY DEF OpenReviewOn, IsKept
<1>2. a # 0
  BY <1>1, ArtifactPlaces DEF IsCandidate
<1>3. /\ Ops!Keeps(p, q, {"human_reviews"})
      /\ q.human_reviews = Append(p.human_reviews, [artifact_ref |-> a, status |-> "pending"])
  BY <1>1, OpenHumanReviewLegal, Zenon
<1>4. /\ q.status = p.status /\ q.rework_count = p.rework_count
      /\ q.tasks = p.tasks /\ q.artifacts = p.artifacts
  BY <1>3 DEF Ops!Keeps
<1>5. FinalCandidate(q) = FinalCandidate(p)
  BY <1>4, LookupsKept
<1> QED
  BY <1>2, <1>3, <1>4, <1>5 DEF AsksAbout

(* A Run is passed on without QA.                                          *)
LEMMA PassWithoutQaSeen == ASSUME OrderedInv, PassWithoutQa PROVE TurnStep
<1> DEFINE q == MoveTo(run, "waiting_human")
<1>1. /\ pc # "idle" /\ run.status = "waiting_qa"
      /\ Commit(q, "drive") /\ q = MoveTo(run, "waiting_human")
  BY DEF PassWithoutQa, At
<1> HIDE DEF q
<1>2. PassesOn(run, q)
  BY <1>1, RunIsOrdered, WaitsSeen
<1> QED
  BY <1>1, <1>2, TurnCommitted DEF Turn

(* A Run with nothing to judge fails.                                      *)
LEMMA FailWithoutCandidateSeen == ASSUME OrderedInv, FailWithoutCandidate PROVE TurnStep
<1>1. /\ pc # "idle" /\ IsOpen(run) /\ CommitAndStop(Fail(run, "no candidate"))
  BY DEF FailWithoutCandidate, AtQaGate, At, IsOpen
<1>2. Turn(run, Fail(run, "no candidate"))
  BY <1>1, RunIsOrdered, FailSeen DEF FailureReason
<1> QED
  BY <1>1, <1>2, TurnCommitted

(* QA is asked.                                                            *)
LEMMA OpenQaSeen == ASSUME OrderedInv, OpenQa PROVE TurnStep
<1>1. /\ pc # "idle" /\ run.status = "waiting_qa" /\ Candidate # 0
  BY DEF OpenQa, AtQaGate, At
<1>2. IsKept(run) /\ Sound(run) /\ IsOpen(run)
  BY <1>1, RunIsOrdered DEF IsOpen
<1>3. CASE Refuse
  BY <1>3 DEF Refuse, Goto, TurnStep
<1> DEFINE a == Candidate
           p == PromoteDraft(run, a)
           q == OpenEvaluation(p, a, TRUE)
<1>4. CASE IsCandidate(p, Candidate) /\ Commit(q, "judging")
  <2>1. /\ p = PromoteDraft(run, a) /\ q = OpenEvaluation(p, a, TRUE) /\ IsCandidate(p, a)
        /\ a = FinalCandidate(run) /\ a # 0
    BY <1>1, <1>4 DEF Candidate
  <2>2. Commit(q, "judging")
    BY <1>4
  <2> HIDE DEF a, p, q
  <2>3. a \in DOMAIN run.artifacts
    BY <1>2, <2>1, ArtifactPlaces
  <2>4. Carries(run, p, {"artifacts"}) /\ Sound(p)
    BY <1>2, <2>1, <2>3, PromotedEffect DEF Carries
  <2>5. Carries(p, q, {"evaluations"})
    BY <2>1, <2>4, OpenEvaluationLegal, Zenon DEF Carries
  <2>6. Carries(run, q, {"artifacts"} \cup {"evaluations"})
    BY <1>2, <2>4, <2>5, CarriesOn
  <2>7. Turn(run, q)
    BY <1>2, <2>6, WorkCarried
  <2> QED
    BY <1>1, <2>2, <2>7, TurnCommitted
<1> QED
  BY <1>3, <1>4 DEF OpenQa

(* QA answers, or fails.                                                   *)
LEMMA VerdictSeen == ASSUME OrderedInv, VerdictGiven \/ EvaluatorFails PROVE TurnStep
<1> DEFINE e == LatestQa(run, Candidate)
           m == RecordEvaluationAnalytics(run, e)
<1>1. /\ pc = "judging" /\ pc # "idle" /\ IsKept(run) /\ run.status = "waiting_qa"
      /\ e \in DOMAIN run.evaluations /\ run.evaluations[e].status = "pending"
  BY Judging DEF VerdictGiven, EvaluatorFails, OrderedInv
<1>2. \/ CommitAndStop(m) \/ CommitAndStop(run)
      \/ \E verdict \in EvaluationStatus \ {"pending"}, n \in {m, run} :
           Commit(RecordEvaluation(n, e, verdict), "drive")
  BY DEF VerdictGiven, EvaluatorFails
<1>3. m = RecordEvaluationAnalytics(run, e)
  OBVIOUS
<1> HIDE DEF e, m
<1>4. Sound(run) /\ IsOpen(run) /\ CanRecordEvaluationAnalytics(run, e)
  BY <1>1 DEF IsKept, IsOpen, Sound, PendingAttributed, CanRecordEvaluationAnalytics
<1>5. Carries(run, m, {"analytics_records"}) /\ Carries(run, run, {"analytics_records"})
  BY <1>3, <1>4, RecordEvaluationAnalyticsLegal, StaysAsItIs, Zenon DEF Carries
<1>6. CASE CommitAndStop(m) \/ CommitAndStop(run)
  <2>1. Turn(run, m) /\ Turn(run, run)
    BY <1>4, <1>5, WorkCarried
  <2> QED
    BY <1>1, <1>6, <2>1, TurnCommitted
<1>7. ASSUME NEW verdict \in EvaluationStatus \ {"pending"}, NEW n \in {m, run},
             Commit(RecordEvaluation(n, e, verdict), "drive")
      PROVE  TurnStep
  <2>1. Carries(run, n, {"analytics_records"})
    BY <1>5, <1>7
  <2>2. Sound(n) /\ n.evaluations = run.evaluations
    BY <2>1 DEF Carries, Ops!Keeps
  <2>3. CanRecordEvaluation(n, e, verdict)
    BY <1>1, <1>7, <2>2 DEF CanRecordEvaluation
  <2>4. PICK q : q = RecordEvaluation(n, e, verdict)
    OBVIOUS
  <2>5. Carries(n, q, {"evaluations"})
    BY <2>2, <2>3, <2>4, RecordEvaluationLegal, Zenon DEF Carries
  <2>6. Carries(run, q, {"analytics_records"} \cup {"evaluations"})
    BY <1>4, <2>1, <2>5, CarriesOn
  <2>7. Turn(run, q)
    BY <1>4, <2>6, WorkCarried
  <2> QED
    BY <1>1, <1>7, <2>4, <2>7, TurnCommitted
<1> QED
  BY <1>2, <1>6, <1>7

(* A judged candidate goes to its reviewer.                                *)
LEMMA GateSeen == ASSUME OrderedInv, PassQa \/ Escalate PROVE TurnStep
<1> DEFINE p == MoveTo(run, "waiting_human")
<1>1. /\ pc # "idle" /\ run.status = "waiting_qa" /\ Candidate = FinalCandidate(run)
  BY DEF PassQa, Escalate, AtQaGate, At, Candidate
<1>2. \/ \E q \in {p} \cup OpenReviewOn(p, FinalCandidate(p)) \cup OpenReviewOn(p, Candidate) :
           CommitAndStop(q) \/ Commit(q, "drive")
      \/ Refuse
  BY DEF PassQa, Escalate, ApprovalReviewOpened
<1>3. p = MoveTo(run, "waiting_human")
  OBVIOUS
<1> HIDE DEF p
<1>4. /\ IsKept(p) /\ PassesOn(run, p)
  BY <1>1, <1>3, RunIsOrdered, WaitsSeen
<1>5. CASE Refuse
  BY <1>5 DEF Refuse, Goto, TurnStep
<1>6. ASSUME NEW q \in {p} \cup OpenReviewOn(p, FinalCandidate(p)) \cup OpenReviewOn(p, Candidate),
             CommitAndStop(q) \/ Commit(q, "drive")
      PROVE  TurnStep
  <2>1. q = p \/ q \in OpenReviewOn(p, FinalCandidate(run))
    BY <1>1, <1>4, <1>6 DEF PassesOn
  <2>2. CASE q = p
    BY <1>1, <1>4, <1>6, <2>2, TurnCommitted DEF Turn
  <2>3. CASE q \in OpenReviewOn(p, FinalCandidate(run))
    <3>1. AsksAbout(run, q)
      BY <1>1, <1>4, <2>3, AskSeen DEF PassesOn, Unasked
    <3> QED
      BY <1>1, <1>6, <3>1, TurnCommitted DEF Turn
  <2> QED
    BY <2>1, <2>2, <2>3
<1> QED
  BY <1>2, <1>5, <1>6

(* A missing review is opened.                                             *)
LEMMA OpenMissingReviewSeen == ASSUME OrderedInv, OpenMissingReview PROVE TurnStep
<1>1. /\ pc # "idle" /\ run.status = "waiting_human" /\ IsGateHeld
      /\ FinalCandidate(run) # 0 /\ LatestReview(run, FinalCandidate(run)) = 0
  BY DEF OpenMissingReview, AtHumanGate, At, Candidate
<1>2. IsKept(run) /\ Sound(run) /\ run.rework_count \in Nat
  BY <1>1, RunIsOrdered, ArtifactPlaces
<1>3. ReviewsOf(run, FinalCandidate(run)) = {}
  BY <1>1, <1>2, Lookups
<1>4. CASE Refuse
  BY <1>4 DEF Refuse, Goto, TurnStep
<1>5. ASSUME NEW q \in ApprovalReviewOpened(run), CommitAndStop(q)
      PROVE  TurnStep
  <2>1. q \in OpenReviewOn(run, FinalCandidate(run))
    BY <1>1, <1>2, <1>5 DEF ApprovalReviewOpened, IsGateHeld
  <2>2. AsksAbout(run, q)
    BY <1>1, <1>2, <1>3, <2>1, AskSeen
  <2> QED
    BY <1>1, <1>5, <2>2, TurnCommitted DEF Turn
<1> QED
  BY <1>4, <1>5 DEF OpenMissingReview

(* A Run is completed.                                                     *)
LEMMA CompletionSeen ==
  ASSUME NEW r, IsKept(r), r.status = "waiting_human", NEW q, q = MoveTo(r, "completed")
  PROVE  /\ q.human_reviews = r.human_reviews /\ FinalCandidate(q) = FinalCandidate(r)
         /\ q.status = "completed" /\ q.rework_count = r.rework_count
<1>1. AllTasksTerminal(r)
  BY DEF IsKept, JudgedDone, IsJudged, AllTasksSucceeded, AllTasksTerminal, IsTerminalTask,
         TerminalTaskStates
<1>2. /\ CanTransition(r, "completed") /\ ~IsRework(r, "completed")
      /\ "completed" \in RunStatus /\ q = Transition(r, "completed", "none")
  BY <1>1 DEF CanTransition, AllowedTransitions, IsRework, RunStatus, MoveTo
<1> QED
  BY <1>2, MoveSeen

(* A Run that nobody reviews is completed.                                 *)
LEMMA CompleteWithoutGateSeen == ASSUME OrderedInv, CompleteWithoutGate PROVE TurnStep
<1>1. pc # "idle" /\ run.status = "waiting_human"
  BY DEF CompleteWithoutGate, AtHumanGate, At
<1>2. CASE Return
  BY <1>2 DEF Return, TurnStep
<1>3. CASE run.human_reviews = <<>> /\ CommitAndStop(MoveTo(run, "completed"))
  <2>1. PICK q : q = MoveTo(run, "completed")
    OBVIOUS
  <2>2. /\ q.human_reviews = run.human_reviews /\ FinalCandidate(q) = FinalCandidate(run)
        /\ q.status = "completed" /\ q.rework_count = run.rework_count
    BY <1>1, <2>1, RunIsOrdered, CompletionSeen
  <2>3. Turn(run, q)
    BY <1>1, <1>3, <2>2 DEF Turn, Ends, Unasked
  <2> QED
    BY <1>1, <1>3, <2>1, <2>3, TurnCommitted
<1> QED
  BY <1>2, <1>3 DEF CompleteWithoutGate

(* A Run that its reviewer approved is completed.                          *)
LEMMA ReleaseSeen == ASSUME OrderedInv, Release PROVE TurnStep
<1> DEFINE a == FinalCandidate(run)
           isOpen == run.artifacts[a].status = "candidate"
           p == IF isOpen THEN TransitionArtifact(run, a, "approved") ELSE run
           q == MoveTo(p, "completed")
<1>1. /\ pc # "idle" /\ run.status = "waiting_human" /\ a # 0
      /\ IsReviewOf(run, FinalCandidate(run), {"approved"})
  BY DEF Release, AtHumanGate, At, IsReleasable
<1>2. IsKept(run) /\ Sound(run) /\ IsOrdered(run)
  BY <1>1, RunIsOrdered
<1>3. CASE Refuse
  BY <1>3 DEF Refuse, Goto, TurnStep
<1>4. CASE (isOpen => CanTransitionArtifact(run, a, "approved")) /\ CommitAndStop(q)
  <2>1. IsCandidate(run, a)
    BY <1>1, <1>2, ReviewedCandidate DEF IsReviewOf
  <2>2. /\ CanTransitionArtifact(run, a, "approved") /\ p = TransitionArtifact(run, a, "approved")
        /\ CommitAndStop(q) /\ q = MoveTo(p, "completed")
    BY <1>4, <2>1 DEF IsCandidate
  <2> HIDE DEF isOpen, p, q
  <2>3. /\ IsKept(p) /\ p.status = run.status /\ p.rework_count = run.rework_count
        /\ p.tasks = run.tasks /\ p.human_reviews = run.human_reviews
        /\ DOMAIN p.artifacts = DOMAIN run.artifacts
        /\ \A b \in DOMAIN run.artifacts :
             p.artifacts[b].output_ref = run.artifacts[b].output_ref
    BY <1>1, <1>2, <2>1, <2>2, ApprovedEffect
  <2>4. FinalCandidate(p) = FinalCandidate(run)
    BY <2>3, FinalCandidateKept
  <2>5. /\ q.human_reviews = p.human_reviews /\ FinalCandidate(q) = FinalCandidate(p)
        /\ q.status = "completed" /\ q.rework_count = p.rework_count
    BY <1>1, <2>2, <2>3, CompletionSeen
  <2>6. Turn(run, q)
    BY <1>1, <2>3, <2>4, <2>5 DEF Turn, Ends, Unasked
  <2> QED
    BY <1>1, <2>2, <2>6, TurnCommitted
<1> QED
  BY <1>3, <1>4 DEF Release, Candidate

(* The reviewer's decision is saved.                                       *)
LEMMA DecisionSeen == ASSUME OrderedInv, TakeReviewDecision PROVE TurnStep
<1>1. stored # NoRun /\ IsKept(stored) /\ IsOrdered(stored) /\ PendingReview(stored) # 0
  BY DEF TakeReviewDecision, OrderedInv, IInv, StoreInOrder, IsStored
<1>2. PICK decision \in ReviewStatus \ {"pending"} :
        stored' = SubmitReview(stored, PendingReview(stored), decision)
  BY DEF TakeReviewDecision
<1>3. PICK q : q = stored'
  OBVIOUS
<1> DEFINE h == PendingReview(stored)
<1>4. /\ stored.status = "waiting_human" /\ h \in DOMAIN stored.human_reviews
      /\ h = Len(stored.human_reviews)
      /\ stored.human_reviews[h].status = "pending" /\ q = SubmitReview(stored, h, decision)
  BY <1>1, <1>2, <1>3, PendingReviewFound, AwaitedReview
<1> HIDE DEF h
<1>5. CanSubmitReview(stored, h, decision) /\ Sound(stored)
  BY <1>1, <1>4 DEF CanSubmitReview, IsKept
<1>6. /\ Ops!Keeps(stored, q, {"human_reviews"})
      /\ q.human_reviews = Ops!Updated(stored.human_reviews, h,
                                       Ops!WithStatus(stored.human_reviews[h], decision))
  BY <1>4, <1>5, SubmitReviewLegal, Zenon
<1>7. /\ q.status = stored.status /\ q.rework_count = stored.rework_count
      /\ q.tasks = stored.tasks /\ q.artifacts = stored.artifacts
  BY <1>6 DEF Ops!Keeps
<1>8. FinalCandidate(q) = FinalCandidate(stored)
  BY <1>7, LookupsKept
<1>9. Hears(stored, q)
  BY <1>4, <1>6, <1>7, <1>8 DEF Hears
<1> QED
  BY <1>1, <1>3, <1>9 DEF TurnStep, Turn, Row, IsStored

(* Every step is a turn of the Run, or leaves it as it is.                 *)
LEMMA NextSeen == ASSUME OrderedInv, Next PROVE TurnStep
<1>1. CASE StepsNext
  BY <1>1, NothingSeen, PassTerminalTaskSeen, ResumeTaskSeen, OpenStepSeen, AnswerSeen
  DEF StepsNext
<1>2. CASE ReworkNext
  BY <1>2, NothingSeen, BeginReworkSeen, OpenReworkSeen, ResumeTaskSeen, PassTerminalReworkSeen,
     AnswerSeen DEF ReworkNext
<1>3. CASE GateNext
  BY <1>3, NothingSeen, PassWithoutQaSeen, FailWithoutCandidateSeen, OpenQaSeen, VerdictSeen,
     GateSeen, CompleteWithoutGateSeen, OpenMissingReviewSeen, ReleaseSeen DEF GateNext
<1>4. CASE Invoke \/ Interrupt \/ TakeReviewDecision \/ EvaluatorFails
  BY <1>4, NothingSeen, DecisionSeen, VerdictSeen
<1>5. CASE Queue \/ Start \/ Rule
  BY <1>5, BeginningSeen, RuleSeen
<1> QED
  BY <1>1, <1>2, <1>3, <1>4, <1>5 DEF Next, Advance

(* The reviews of what is stored are in turn, and of what would be made.   *)
LEMMA RowInTurn ==
  ASSUME IInv, StoreInTurn
  PROVE  IsKept(Row) /\ InTurn(Row)
<1>1. InTurn(NewRun)
  <2>1. /\ NewRun.human_reviews = <<>> /\ NewRun.rework_count = 0 /\ NewRun.status = "created"
    BY DEF NewRun
  <2> QED
    BY <2>1 DEF InTurn
<1> QED
  BY <1>1, NewRunKept DEF IInv, StoreInTurn, IsStored, Row

(* A step keeps the reviews in turn, and is one of ReviewedRelease or      *)
(* none.                                                                   *)
LEMMA NextInTurn ==
  ASSUME OrderedInv, StoreInTurn, Next
  PROVE  StoreInTurn' /\ [Reviewer!Next]_(Reviewer!vars)
<1>1. PICK r : r = Row
  OBVIOUS
<1>2. IsKept(r) /\ Sound(r) /\ InTurn(r)
  BY <1>1, RowInTurn DEF OrderedInv, IsKept
<1>3. CASE stored' = stored
  <2>1. StoreInTurn'
    BY <1>3 DEF StoreInTurn, IsStored
  <2>2. UNCHANGED Reviewer!vars
    BY <1>3 DEF Reviewer!vars, IsStored
  <2> QED
    BY <2>1, <2>2
<1>4. CASE stored' # stored
  <2>1. PICK q : q = stored'
    OBVIOUS
  <2>2. Turn(r, q)
    BY <1>1, <1>4, <2>1, NextSeen DEF TurnStep
  <2>3. IsKept(q) /\ Sound(q) /\ q # NoRun
    BY <1>4, <2>1, NextKeeps, StoreAssumption DEF OrderedInv, StoreStep, IsKept, Sound
  <2>4. Ops!Grows(r, q) /\ r.status \notin {"completed", "failed"}
    <3>1. CASE stored # NoRun
      BY <1>1, <1>4, <2>1, <3>1, NextKeeps DEF OrderedInv, StoreStep, Advances, Row, IsStored
    <3>2. CASE stored = NoRun
      <4>1. r = NewRun
        BY <1>1, <3>2 DEF Row, IsStored
      <4>2. DOMAIN r.tasks = {} /\ DOMAIN r.artifacts = {} /\ DOMAIN r.human_reviews = {}
            /\ DOMAIN r.evaluations = {} /\ DOMAIN r.analytics_records = {}
            /\ r.status = "created"
        BY <4>1 DEF NewRun
      <4> QED
        BY <4>2 DEF Ops!Grows, Ops!TasksGrow, Ops!ArtifactsGrow, Ops!ReviewsGrow,
                    Ops!EvaluationsGrow, Ops!RecordsGrow
    <3> QED
      BY <3>1, <3>2
  <2>5. InTurn(q)
    BY <1>2, <2>2, <2>3, TurnKeeps
  <2>6. StoreInTurn'
    BY <2>1, <2>5 DEF StoreInTurn
  <2>7. [Reviewer!Next]_(Reviewer!vars)
    BY <1>1, <1>2, <2>1, <2>2, <2>3, <2>4, TurnMaps
  <2> QED
    BY <2>6, <2>7
<1> QED
  BY <1>3, <1>4

(* At first the reviewer has seen what a Run of older code shows him.      *)
LEMMA InitSeen ==
  ASSUME Init
  PROVE  StoreInTurn /\ Reviewer!Init
<1>1. StoreInTurn
  BY StoreAssumption DEF Init, StoreInTurn, IsStored
<1>2. PICK r : r = Row
  OBVIOUS
<1>3. Sound(r) /\ InTurn(r)
  BY <1>1, <1>2, InitKept, RowInTurn DEF IsKept
<1>4. /\ (IF IsStored THEN FinalCandidate(stored) ELSE 0) = FinalCandidate(r)
      /\ (IF IsStored THEN stored.human_reviews ELSE <<>>) = r.human_reviews
      /\ (IF IsStored THEN stored.rework_count ELSE 0) = r.rework_count
      /\ (IF IsStored /\ stored.status \in {"completed", "failed"} THEN stored.status
          ELSE "open") = Outcome(r)
  BY <1>2, RowSeen
<1>5. /\ r.rework_count \in 0..MaxReworkIterations /\ r.rework_count \in Nat
      /\ Len(r.human_reviews) \in Nat
      /\ DOMAIN r.human_reviews = 1..Len(r.human_reviews)
  BY <1>3, ArtifactPlaces DEF Sound, Run
<1>6. ASSUME Outcome(r) = "open", Len(r.human_reviews) > r.rework_count
      PROVE  r.human_reviews[Len(r.human_reviews)].artifact_ref = FinalCandidate(r)
  <2>1. Len(r.human_reviews) = r.rework_count + 1
    BY <1>3, <1>5, <1>6 DEF InTurn
  <2>2. r.status = "waiting_human"
    BY <1>3, <1>5, <1>6, <2>1 DEF InTurn, Outcome, IsOpen
  <2> QED
    BY <1>3, <1>5, <2>1, <2>2 DEF InTurn
<1>7. Outcome(r) \in {"open", "completed", "failed"}
  BY DEF Outcome
<1>8. Reviewer!Init
  BY <1>3, <1>4, <1>5, <1>6, <1>7 DEF Reviewer!Init, Reviewer!IsAsked, InTurn
<1> QED
  BY <1>1, <1>8

(* Whatever the store holds, its reviews were asked version by version,    *)
(* and every rework answers one of its own (content_director.py            *)
(* _begin_rework, _open_approval_review; run.py transition_to).            *)
THEOREM ReviewsInTurn == Spec => []StoreInTurn
<1>1. Init => StoreInTurn
  BY InitSeen
<1>2. OrderedInv /\ StoreInTurn /\ [Next]_vars => StoreInTurn'
  <2>1. CASE Next
    BY <2>1, NextInTurn
  <2>2. CASE UNCHANGED vars
    BY <2>2 DEF vars, StoreInTurn, IsStored
  <2> QED
    BY <2>1, <2>2
<1>3. IInv /\ StoreInOrder /\ FollowsPlan => OrderedInv
  BY DEF OrderedInv
<1> QED
  BY <1>1, <1>2, <1>3, StoreIsSound, StoreStaysInOrder, PTL DEF Spec

(* To its reviewer a Run is the versions of one Artifact he is asked about *)
(* in turn: the Director, under every plan, wiring, crash and decision,    *)
(* implements ReviewedRelease (content_director.py execute, resume;        *)
(* review_decision.py apply_review_decision).                              *)
THEOREM ReleaseImplemented == Spec => ImplementsReviewedRelease
<1>1. Init => Reviewer!Init
  BY InitSeen
<1>2. OrderedInv /\ StoreInTurn /\ [Next]_vars => [Reviewer!Next]_(Reviewer!vars)
  <2>1. CASE Next
    BY <2>1, NextInTurn
  <2>2. CASE UNCHANGED vars
    BY <2>2 DEF vars, Reviewer!vars, IsStored
  <2> QED
    BY <2>1, <2>2
<1>3. IInv /\ StoreInOrder /\ FollowsPlan => OrderedInv
  BY DEF OrderedInv
<1> QED
  BY <1>1, <1>2, <1>3, StoreIsSound, StoreStaysInOrder, ReviewsInTurn, PTL
  DEF Spec, ImplementsReviewedRelease, Reviewer!Spec

=============================================================================
