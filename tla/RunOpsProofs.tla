---------------------------- MODULE RunOpsProofs ----------------------------
(***************************************************************************)
(* What each operation of the Run aggregate makes of a Run: again a Run,   *)
(* which of its children it touches, what it emits, and what a snapshot of *)
(* it restores to.  Facts about RunOps alone, for every caller of it.      *)
(***************************************************************************)
EXTENDS RunOps, TLAPS

(* q has from r every part but those named in changed. *)
Keeps(r, q, changed) ==
  /\ "status" \notin changed
       => q.status = r.status /\ q.rework_count = r.rework_count
  /\ "tasks" \notin changed => q.tasks = r.tasks
  /\ "artifacts" \notin changed => q.artifacts = r.artifacts
  /\ "human_reviews" \notin changed => q.human_reviews = r.human_reviews
  /\ "evaluations" \notin changed => q.evaluations = r.evaluations
  /\ "analytics_records" \notin changed => q.analytics_records = r.analytics_records

(* The sequence s with child i replaced, and what operations make of a     *)
(* child.                                                                  *)
Updated(s, i, child) == [s EXCEPT ![i] = child]
WithStatus(child, to) == [child EXCEPT !.status = to]
WithOutput(task, valid) == [task EXCEPT !.output = valid]
Attempted(task, to) ==
  [task EXCEPT !.status = to,
               !.attempt_count = IF to = "running" THEN @ + 1 ELSE @]

(* The journal of r with one more event of each kind in kinds. *)
Journal(r, kinds) ==
  [k \in EventKind |-> IF k \in kinds THEN r.events[k] + 1 ELSE r.events[k]]

(* An event adds to the journal and touches nothing else. *)
LEMMA EmitEffect ==
  ASSUME NEW r \in Run, NEW kinds
  PROVE  /\ Emit(r, kinds) \in Run
         /\ Keeps(r, Emit(r, kinds), {})
         /\ Emit(r, kinds).events = Journal(r, kinds)
<1> DEFINE journal == Journal(r, kinds)
<1>1. r.events \in [EventKind -> Nat]
  BY DEF Run
<1>2. journal \in [EventKind -> Nat]
  BY <1>1 DEF Journal
<1>3. Emit(r, kinds) = [r EXCEPT !.events = journal]
  BY DEF Emit, Journal
<1> HIDE DEF journal
<1>4. /\ Emit(r, kinds) \in Run
      /\ Keeps(r, Emit(r, kinds), {})
      /\ Emit(r, kinds).events = journal
  BY <1>2, <1>3 DEF Run, Keeps
<1> QED
  BY <1>4 DEF journal

(* What is kept on the way from r to q is kept by an event on top of it. *)
LEMMA EmitOnTop ==
  ASSUME NEW r \in Run, NEW q \in Run, NEW changed, Keeps(r, q, changed),
         q.events = r.events, NEW kinds
  PROVE  /\ Emit(q, kinds) \in Run
         /\ Keeps(r, Emit(q, kinds), changed)
         /\ Keeps(q, Emit(q, kinds), {})
         /\ Emit(q, kinds).events = Journal(r, kinds)
BY EmitEffect DEF Keeps, Journal

-----------------------------------------------------------------------------
(* The operations, one by one. *)

(* Run.transition moves the status and at most the rework counter, and     *)
(* emits the event of its edge.                                            *)
LEMMA TransitionEffect ==
  ASSUME NEW r \in Run, NEW to \in RunStatus, NEW reason \in Reasons \cup {NoReason},
         CanTransition(r, to)
  PROVE  LET q == Transition(r, to, reason)
         IN  /\ q \in Run
             /\ Keeps(r, q, {"status"})
             /\ q.status = to
             /\ q.rework_count = IF IsRework(r, to) THEN r.rework_count + 1
                                                    ELSE r.rework_count
             /\ q.events = Journal(r, RunEventFor(r.status, to))
<1> DEFINE p == [r EXCEPT !.status = to,
                          !.rework_count = IF IsRework(r, to) THEN @ + 1 ELSE @,
                          !.failure_reason = IF to = "failed" THEN reason ELSE @]
           count == IF IsRework(r, to) THEN r.rework_count + 1 ELSE r.rework_count
           why == IF to = "failed" THEN reason ELSE r.failure_reason
<1>1. count \in 0..MaxReworkIterations
  BY PolicyAssumption DEF Run, CanTransition
<1>2. why \in Reasons \cup {NoReason}
  BY DEF Run
<1>3. p = [r EXCEPT !.status = to, !.rework_count = count, !.failure_reason = why]
  OBVIOUS
<1> HIDE DEF count, why
<1>4. /\ p \in Run /\ Keeps(r, p, {"status"}) /\ p.events = r.events
      /\ p.status = to /\ p.rework_count = count
  BY <1>1, <1>2, <1>3 DEF Run, Keeps
<1> DEFINE kinds == RunEventFor(r.status, to)
<1>5. Transition(r, to, reason) = Emit(p, kinds)
  BY DEF Transition
<1> HIDE DEF p, kinds
<1>6. Keeps(p, Emit(p, kinds), {})
  BY <1>4, EmitOnTop
<1>7. Emit(p, kinds).status = to /\ Emit(p, kinds).rework_count = count
  BY <1>4, <1>6 DEF Keeps
<1> QED
  BY <1>4, <1>5, <1>7, EmitOnTop DEF count, kinds

(* open_task appends one pending Task without attempts or Output.          *)
LEMMA OpenTaskEffect ==
  ASSUME NEW r \in Run, NEW step \in Steps, NEW input \in Inputs
  PROVE  LET q == OpenTask(r, step, input)
         IN  /\ q \in Run
             /\ Keeps(r, q, {"tasks"})
             /\ q.tasks = Append(r.tasks, [step |-> step, task_input |-> input,
                                           status |-> "pending", attempt_count |-> 0,
                                           output |-> "none"])
             /\ q.events = Journal(r, {"TaskCreated"})
<1> DEFINE task == [step |-> step, task_input |-> input, status |-> "pending",
                    attempt_count |-> 0, output |-> "none"]
           p == [r EXCEPT !.tasks = Append(@, task)]
<1>1. task \in Task
  BY PolicyAssumption DEF Task, TaskStatus, OutputStatus
<1> HIDE DEF task
<1>2. Append(r.tasks, task) \in Seq(Task)
  BY <1>1 DEF Run
<1>3. p \in Run /\ Keeps(r, p, {"tasks"}) /\ p.events = r.events
        /\ p.tasks = Append(r.tasks, task)
  BY <1>2 DEF Run, Keeps
<1>4. OpenTask(r, step, input) = Emit(p, {"TaskCreated"})
  BY DEF OpenTask, task
<1> HIDE DEF p
<1>5. Keeps(p, Emit(p, {"TaskCreated"}), {})
  BY <1>3, EmitOnTop
<1>6. Emit(p, {"TaskCreated"}).tasks = Append(r.tasks, task)
  BY <1>3, <1>5 DEF Keeps
<1> QED
  BY <1>3, <1>4, <1>6, EmitOnTop DEF task

(* transition_task replaces one Task, counting an attempt when it runs.    *)
LEMMA TransitionTaskEffect ==
  ASSUME NEW r \in Run, NEW t, NEW to \in TaskStatus, CanTransitionTask(r, t, to)
  PROVE  LET q == TransitionTask(r, t, to)
         IN  /\ q \in Run
             /\ Keeps(r, q, {"tasks"})
             /\ q.tasks = Updated(r.tasks, t, Attempted(r.tasks[t], to))
             /\ q.events = Journal(r, TaskEventFor(r.tasks[t].status, to))
<1> DEFINE count == IF to = "running" THEN r.tasks[t].attempt_count + 1
                                      ELSE r.tasks[t].attempt_count
           task == [r.tasks[t] EXCEPT !.status = to, !.attempt_count = count]
           kinds == TaskEventFor(r.tasks[t].status, to)
           p == [r EXCEPT !.tasks[t].status = to, !.tasks[t].attempt_count = count]
<1>1. r.tasks \in Seq(Task) /\ t \in DOMAIN r.tasks /\ r.tasks[t] \in Task
  BY DEF Run, CanTransitionTask
<1>2. count \in 0..MaxAttempts
  BY <1>1, PolicyAssumption DEF Task, CanTransitionTask, HasAttemptsLeft
<1> HIDE DEF count
<1>3. task \in Task
  BY <1>1, <1>2 DEF Task
<1>4. [r.tasks EXCEPT ![t] = task] \in Seq(Task)
  BY <1>1, <1>3
<1>5. p = [r EXCEPT !.tasks = [r.tasks EXCEPT ![t] = task]]
  BY <1>1 DEF Run, Task
<1> HIDE DEF task
<1>6. p \in Run /\ Keeps(r, p, {"tasks"}) /\ p.events = r.events
        /\ p.tasks = [r.tasks EXCEPT ![t] = task]
  BY <1>4, <1>5 DEF Run, Keeps
<1>7. TransitionTask(r, t, to) = Emit(p, kinds)
  BY DEF TransitionTask, count
<1> HIDE DEF p, kinds
<1>8. Keeps(p, Emit(p, kinds), {})
  BY <1>6, EmitOnTop
<1>9. Emit(p, kinds).tasks = [r.tasks EXCEPT ![t] = task]
  BY <1>6, <1>8 DEF Keeps
<1> QED
  BY <1>6, <1>7, <1>9, EmitOnTop DEF task, kinds, count, Updated, Attempted

(* record_output gives one Task its Output.                                *)
LEMMA RecordOutputEffect ==
  ASSUME NEW r \in Run, NEW t, NEW valid \in {"valid", "invalid"}, CanRecordOutput(r, t)
  PROVE  LET q == RecordOutput(r, t, valid)
         IN  /\ q \in Run
             /\ Keeps(r, q, {"tasks"})
             /\ q.tasks = Updated(r.tasks, t, WithOutput(r.tasks[t], valid))
             /\ q.events = Journal(r, IF valid = "valid" THEN {"OutputValidated"} ELSE {})
<1> DEFINE task == [r.tasks[t] EXCEPT !.output = valid]
           kinds == IF valid = "valid" THEN {"OutputValidated"} ELSE {}
           p == [r EXCEPT !.tasks[t].output = valid]
<1>1. r.tasks \in Seq(Task) /\ t \in DOMAIN r.tasks /\ r.tasks[t] \in Task
  BY DEF Run, CanRecordOutput
<1>2. task \in Task
  BY <1>1 DEF Task, OutputStatus
<1>3. p = [r EXCEPT !.tasks = [r.tasks EXCEPT ![t] = task]]
  BY <1>1 DEF Run, Task
<1> HIDE DEF task
<1>4. [r.tasks EXCEPT ![t] = task] \in Seq(Task)
  BY <1>1, <1>2
<1>5. p \in Run /\ Keeps(r, p, {"tasks"}) /\ p.events = r.events
        /\ p.tasks = [r.tasks EXCEPT ![t] = task]
  BY <1>3, <1>4 DEF Run, Keeps
<1>6. RecordOutput(r, t, valid) = Emit(p, kinds)
  BY DEF RecordOutput
<1> HIDE DEF p, kinds
<1>7. Keeps(p, Emit(p, kinds), {})
  BY <1>5, EmitOnTop
<1>8. Emit(p, kinds).tasks = [r.tasks EXCEPT ![t] = task]
  BY <1>5, <1>7 DEF Keeps
<1> QED
  BY <1>5, <1>6, <1>8, EmitOnTop DEF task, kinds, Updated, WithOutput

(* A new Artifact is appended as a draft.                                  *)
LEMMA AddArtifactEffect ==
  ASSUME NEW r \in Run, NEW t \in Nat, NEW version \in Nat \ {0}, NEW supersedes \in Nat
  PROVE  LET q == AddArtifact(r, t, version, supersedes)
         IN  /\ q \in Run
             /\ Keeps(r, q, {"artifacts"})
             /\ q.artifacts = Append(r.artifacts,
                                     [output_ref |-> t, version |-> version,
                                      supersedes_ref |-> supersedes, status |-> "draft"])
             /\ q.events = Journal(r, {"ArtifactCreated"})
<1> DEFINE artifact == [output_ref |-> t, version |-> version,
                        supersedes_ref |-> supersedes, status |-> "draft"]
           p == [r EXCEPT !.artifacts = Append(@, artifact)]
<1>1. artifact \in Artifact
  BY DEF Artifact, ArtifactStatus
<1> HIDE DEF artifact
<1>2. Append(r.artifacts, artifact) \in Seq(Artifact)
  BY <1>1 DEF Run
<1>3. p \in Run /\ Keeps(r, p, {"artifacts"}) /\ p.events = r.events
        /\ p.artifacts = Append(r.artifacts, artifact)
  BY <1>2 DEF Run, Keeps
<1>4. AddArtifact(r, t, version, supersedes) = Emit(p, {"ArtifactCreated"})
  BY DEF AddArtifact, artifact
<1> HIDE DEF p
<1>5. Keeps(p, Emit(p, {"ArtifactCreated"}), {})
  BY <1>3, EmitOnTop
<1>6. Emit(p, {"ArtifactCreated"}).artifacts = Append(r.artifacts, artifact)
  BY <1>3, <1>5 DEF Keeps
<1> QED
  BY <1>3, <1>4, <1>6, EmitOnTop DEF artifact

(* create_artifact appends a first version that supersedes nothing.        *)
LEMMA CreateArtifactEffect ==
  ASSUME NEW r \in Run, NEW t, CanCreateArtifact(r, t)
  PROVE  LET q == CreateArtifact(r, t)
         IN  /\ q \in Run
             /\ Keeps(r, q, {"artifacts"})
             /\ q.artifacts = Append(r.artifacts,
                                     [output_ref |-> t, version |-> 1,
                                      supersedes_ref |-> 0, status |-> "draft"])
             /\ q.events = Journal(r, {"ArtifactCreated"})
<1>1. t \in Nat /\ 1 \in Nat \ {0} /\ 0 \in Nat
  <2>1. r.tasks \in Seq(Task) /\ t \in DOMAIN r.tasks
    BY DEF Run, CanCreateArtifact, HasOutput
  <2> QED
    BY <2>1
<1> QED
  BY <1>1, AddArtifactEffect DEF CreateArtifact

(* transition_artifact replaces one Artifact and emits nothing.            *)
LEMMA TransitionArtifactEffect ==
  ASSUME NEW r \in Run, NEW a \in DOMAIN r.artifacts, NEW to \in ArtifactStatus
  PROVE  LET q == TransitionArtifact(r, a, to)
         IN  /\ q \in Run
             /\ Keeps(r, q, {"artifacts"})
             /\ q.artifacts = Updated(r.artifacts, a, WithStatus(r.artifacts[a], to))
             /\ q.events = r.events
<1> DEFINE artifact == [r.artifacts[a] EXCEPT !.status = to]
<1>1. r.artifacts \in Seq(Artifact) /\ r.artifacts[a] \in Artifact
  BY DEF Run
<1>2. artifact \in Artifact
  BY <1>1 DEF Artifact
<1>3. TransitionArtifact(r, a, to)
        = [r EXCEPT !.artifacts = [r.artifacts EXCEPT ![a] = artifact]]
  BY <1>1 DEF Run, Artifact, TransitionArtifact
<1> HIDE DEF artifact
<1>4. [r.artifacts EXCEPT ![a] = artifact] \in Seq(Artifact)
  BY <1>1, <1>2
<1>5. TransitionArtifact(r, a, to).artifacts = [r.artifacts EXCEPT ![a] = artifact]
  BY <1>3 DEF Run
<1>6. /\ TransitionArtifact(r, a, to) \in Run
      /\ Keeps(r, TransitionArtifact(r, a, to), {"artifacts"})
      /\ TransitionArtifact(r, a, to).events = r.events
  BY <1>3, <1>4 DEF Run, Keeps
<1> QED
  BY <1>5, <1>6 DEF artifact, Updated, WithStatus

(* create_artifact_version supersedes one Artifact and appends the next    *)
(* version of it, in one call.                                             *)
LEMMA CreateArtifactVersionEffect ==
  ASSUME NEW r \in Run, NEW a, NEW t, CanCreateArtifactVersion(r, a, t)
  PROVE  LET q == CreateArtifactVersion(r, a, t)
         IN  /\ q \in Run
             /\ Keeps(r, q, {"artifacts"})
             /\ q.artifacts =
                  Append(Updated(r.artifacts, a, WithStatus(r.artifacts[a], "superseded")),
                         [output_ref |-> t, version |-> r.artifacts[a].version + 1,
                          supersedes_ref |-> a, status |-> "draft"])
             /\ q.events = Journal(r, {"ArtifactCreated"})
<1> DEFINE p == TransitionArtifact(r, a, "superseded")
<1>1. a \in DOMAIN r.artifacts /\ t \in DOMAIN r.tasks
  BY DEF CanCreateArtifactVersion, HasOutput
<1>2. r.artifacts[a].version + 1 \in Nat \ {0} /\ a \in Nat /\ t \in Nat
  <2>1. r.artifacts \in Seq(Artifact) /\ r.tasks \in Seq(Task)
    BY DEF Run
  <2>2. a \in Nat /\ t \in Nat /\ r.artifacts[a] \in Artifact
    BY <1>1, <2>1
  <2> QED
    BY <2>2 DEF Artifact
<1>3. /\ p \in Run /\ Keeps(r, p, {"artifacts"}) /\ p.events = r.events
      /\ p.artifacts = Updated(r.artifacts, a, WithStatus(r.artifacts[a], "superseded"))
  BY <1>1, TransitionArtifactEffect DEF ArtifactStatus
<1> DEFINE version == r.artifacts[a].version + 1
<1>4. CreateArtifactVersion(r, a, t) = AddArtifact(p, t, version, a)
  BY DEF CreateArtifactVersion, TransitionArtifact
<1>5. version \in Nat \ {0}
  BY <1>2
<1> HIDE DEF p, version
<1>6. /\ AddArtifact(p, t, version, a) \in Run
      /\ Keeps(p, AddArtifact(p, t, version, a), {"artifacts"})
      /\ AddArtifact(p, t, version, a).artifacts =
           Append(p.artifacts, [output_ref |-> t, version |-> version,
                                supersedes_ref |-> a, status |-> "draft"])
      /\ AddArtifact(p, t, version, a).events = Journal(p, {"ArtifactCreated"})
  <2>1. p \in Run /\ t \in Nat /\ a \in Nat /\ version \in Nat \ {0}
    BY <1>2, <1>3, <1>5
  <2> QED
    BY <2>1, AddArtifactEffect
<1>7. /\ Keeps(r, AddArtifact(p, t, version, a), {"artifacts"})
      /\ Journal(p, {"ArtifactCreated"}) = Journal(r, {"ArtifactCreated"})
  BY <1>3, <1>6 DEF Keeps, Journal
<1> QED
  BY <1>3, <1>4, <1>6, <1>7 DEF version

(* open_human_review appends one pending Human Review.                     *)
LEMMA OpenHumanReviewEffect ==
  ASSUME NEW r \in Run, NEW a \in Nat
  PROVE  LET q == OpenHumanReview(r, a)
         IN  /\ q \in Run
             /\ Keeps(r, q, {"human_reviews"})
             /\ q.human_reviews = Append(r.human_reviews,
                                         [artifact_ref |-> a, status |-> "pending"])
             /\ q.events = Journal(r, {"HumanReviewRequested"})
<1> DEFINE review == [artifact_ref |-> a, status |-> "pending"]
           p == [r EXCEPT !.human_reviews = Append(@, review)]
<1>1. review \in HumanReview
  BY DEF HumanReview, ReviewStatus
<1> HIDE DEF review
<1>2. Append(r.human_reviews, review) \in Seq(HumanReview)
  BY <1>1 DEF Run
<1>3. p \in Run /\ Keeps(r, p, {"human_reviews"}) /\ p.events = r.events
        /\ p.human_reviews = Append(r.human_reviews, review)
  BY <1>2 DEF Run, Keeps
<1>4. OpenHumanReview(r, a) = Emit(p, {"HumanReviewRequested"})
  BY DEF OpenHumanReview, review
<1> HIDE DEF p
<1>5. Keeps(p, Emit(p, {"HumanReviewRequested"}), {})
  BY <1>3, EmitOnTop
<1>6. Emit(p, {"HumanReviewRequested"}).human_reviews = Append(r.human_reviews, review)
  BY <1>3, <1>5 DEF Keeps
<1> QED
  BY <1>3, <1>4, <1>6, EmitOnTop DEF review

(* The event of a decision; a request for changes has none. *)
ReviewEventFor(decision) ==
  CASE decision = "approved" -> {"HumanReviewApproved"}
    [] decision = "rejected" -> {"HumanReviewRejected"}
    [] OTHER -> {}

(* submit_review decides one Human Review.                                 *)
LEMMA SubmitReviewEffect ==
  ASSUME NEW r \in Run, NEW h, NEW decision, CanSubmitReview(r, h, decision)
  PROVE  LET q == SubmitReview(r, h, decision)
         IN  /\ q \in Run
             /\ Keeps(r, q, {"human_reviews"})
             /\ q.human_reviews
                  = Updated(r.human_reviews, h, WithStatus(r.human_reviews[h], decision))
             /\ q.events = Journal(r, ReviewEventFor(decision))
<1> DEFINE review == [r.human_reviews[h] EXCEPT !.status = decision]
           kinds == ReviewEventFor(decision)
           p == [r EXCEPT !.human_reviews[h].status = decision]
<1>1. /\ r.human_reviews \in Seq(HumanReview)
      /\ h \in DOMAIN r.human_reviews /\ r.human_reviews[h] \in HumanReview
  BY DEF Run, CanSubmitReview
<1>2. review \in HumanReview
  BY <1>1 DEF HumanReview, CanSubmitReview
<1>3. p = [r EXCEPT !.human_reviews = [r.human_reviews EXCEPT ![h] = review]]
  BY <1>1 DEF Run, HumanReview
<1> HIDE DEF review
<1>4. [r.human_reviews EXCEPT ![h] = review] \in Seq(HumanReview)
  BY <1>1, <1>2
<1>5. /\ p \in Run /\ Keeps(r, p, {"human_reviews"}) /\ p.events = r.events
      /\ p.human_reviews = [r.human_reviews EXCEPT ![h] = review]
  BY <1>3, <1>4 DEF Run, Keeps
<1>6. SubmitReview(r, h, decision) = Emit(p, kinds)
  BY DEF SubmitReview, ReviewEventFor
<1> HIDE DEF p, kinds
<1>7. Keeps(p, Emit(p, kinds), {})
  BY <1>5, EmitOnTop
<1>8. Emit(p, kinds).human_reviews = [r.human_reviews EXCEPT ![h] = review]
  BY <1>5, <1>7 DEF Keeps
<1> QED
  BY <1>5, <1>6, <1>8, EmitOnTop DEF review, kinds, Updated, WithStatus

(* open_evaluation appends one pending Evaluation and emits nothing.       *)
LEMMA OpenEvaluationEffect ==
  ASSUME NEW r \in Run, NEW a \in Nat, NEW attributed \in BOOLEAN
  PROVE  LET q == OpenEvaluation(r, a, attributed)
         IN  /\ q \in Run
             /\ Keeps(r, q, {"evaluations"})
             /\ q.evaluations = Append(r.evaluations,
                                       [artifact_ref |-> a, attributed |-> attributed,
                                        status |-> "pending"])
             /\ q.events = r.events
<1> DEFINE evaluation == [artifact_ref |-> a, attributed |-> attributed,
                          status |-> "pending"]
<1>1. evaluation \in Evaluation
  BY DEF Evaluation, EvaluationStatus
<1> HIDE DEF evaluation
<1>2. Append(r.evaluations, evaluation) \in Seq(Evaluation)
  BY <1>1 DEF Run
<1>3. [r EXCEPT !.evaluations = Append(@, evaluation)] \in Run
  BY <1>2 DEF Run
<1> QED
  BY <1>3 DEF Run, Keeps, OpenEvaluation, evaluation

(* record_evaluation gives one Evaluation its verdict.                     *)
LEMMA RecordEvaluationEffect ==
  ASSUME NEW r \in Run, NEW e, NEW verdict, CanRecordEvaluation(r, e, verdict)
  PROVE  LET q == RecordEvaluation(r, e, verdict)
         IN  /\ q \in Run
             /\ Keeps(r, q, {"evaluations"})
             /\ q.evaluations
                  = Updated(r.evaluations, e, WithStatus(r.evaluations[e], verdict))
             /\ q.events = Journal(r, {"EvaluationCompleted"})
<1> DEFINE evaluation == [r.evaluations[e] EXCEPT !.status = verdict]
           p == [r EXCEPT !.evaluations[e].status = verdict]
<1>1. /\ r.evaluations \in Seq(Evaluation)
      /\ e \in DOMAIN r.evaluations /\ r.evaluations[e] \in Evaluation
  BY DEF Run, CanRecordEvaluation
<1>2. evaluation \in Evaluation
  BY <1>1 DEF Evaluation, CanRecordEvaluation
<1>3. p = [r EXCEPT !.evaluations = [r.evaluations EXCEPT ![e] = evaluation]]
  BY <1>1 DEF Run, Evaluation
<1> HIDE DEF evaluation
<1>4. [r.evaluations EXCEPT ![e] = evaluation] \in Seq(Evaluation)
  BY <1>1, <1>2
<1>5. /\ p \in Run /\ Keeps(r, p, {"evaluations"}) /\ p.events = r.events
      /\ p.evaluations = [r.evaluations EXCEPT ![e] = evaluation]
  BY <1>3, <1>4 DEF Run, Keeps
<1>6. RecordEvaluation(r, e, verdict) = Emit(p, {"EvaluationCompleted"})
  BY DEF RecordEvaluation
<1> HIDE DEF p
<1>7. Keeps(p, Emit(p, {"EvaluationCompleted"}), {})
  BY <1>5, EmitOnTop
<1>8. Emit(p, {"EvaluationCompleted"}).evaluations = [r.evaluations EXCEPT ![e] = evaluation]
  BY <1>5, <1>7 DEF Keeps
<1> QED
  BY <1>5, <1>6, <1>8, EmitOnTop DEF evaluation, Updated, WithStatus

(* A captured Analytics Record is appended.                                *)
LEMMA CaptureEffect ==
  ASSUME NEW r \in Run, NEW record \in AnalyticsRecord
  PROVE  LET q == Capture(r, record)
         IN  /\ q \in Run
             /\ Keeps(r, q, {"analytics_records"})
             /\ q.analytics_records = Append(r.analytics_records, record)
             /\ q.events = Journal(r, {"AnalyticsRecordCaptured"})
<1> DEFINE p == [r EXCEPT !.analytics_records = Append(@, record)]
<1>1. Append(r.analytics_records, record) \in Seq(AnalyticsRecord)
  BY DEF Run
<1>2. p \in Run /\ Keeps(r, p, {"analytics_records"}) /\ p.events = r.events
        /\ p.analytics_records = Append(r.analytics_records, record)
  BY <1>1 DEF Run, Keeps
<1>3. Capture(r, record) = Emit(p, {"AnalyticsRecordCaptured"})
  BY DEF Capture
<1> HIDE DEF p
<1>4. Keeps(p, Emit(p, {"AnalyticsRecordCaptured"}), {})
  BY <1>2, EmitOnTop
<1>5. Emit(p, {"AnalyticsRecordCaptured"}).analytics_records
        = Append(r.analytics_records, record)
  BY <1>2, <1>4 DEF Keeps
<1> QED
  BY <1>2, <1>3, <1>5, EmitOnTop

(* A record of a Task names the Task and counts its retries.               *)
LEMMA RecordAnalyticsEffect ==
  ASSUME NEW r \in Run, NEW t, CanRecordAnalytics(r, t)
  PROVE  LET q == RecordAnalytics(r, t)
         IN  /\ q \in Run
             /\ Keeps(r, q, {"analytics_records"})
             /\ q.analytics_records
                  = Append(r.analytics_records, [task_id |-> t, evaluation_id |-> 0,
                                                 retries |-> r.tasks[t].attempt_count - 1])
             /\ q.events = Journal(r, {"AnalyticsRecordCaptured"})
<1> DEFINE record == [task_id |-> t, evaluation_id |-> 0,
                      retries |-> r.tasks[t].attempt_count - 1]
<1>1. r.tasks \in Seq(Task) /\ t \in DOMAIN r.tasks
  BY DEF Run, CanRecordAnalytics
<1>2. t \in Nat /\ r.tasks[t] \in Task
  BY <1>1
<1>3. record \in AnalyticsRecord
  BY <1>2, PolicyAssumption DEF Task, AnalyticsRecord
<1>4. RecordAnalytics(r, t) = Capture(r, record)
  BY DEF RecordAnalytics
<1> HIDE DEF record
<1>5. LET q == Capture(r, record)
      IN  /\ q \in Run
          /\ Keeps(r, q, {"analytics_records"})
          /\ q.analytics_records = Append(r.analytics_records, record)
          /\ q.events = Journal(r, {"AnalyticsRecordCaptured"})
  BY <1>3, CaptureEffect
<1> QED
  BY <1>4, <1>5 DEF record

(* A record of an evaluator call names the Evaluation.                     *)
LEMMA RecordEvaluationAnalyticsEffect ==
  ASSUME NEW r \in Run, NEW e, CanRecordEvaluationAnalytics(r, e)
  PROVE  LET q == RecordEvaluationAnalytics(r, e)
         IN  /\ q \in Run
             /\ Keeps(r, q, {"analytics_records"})
             /\ q.analytics_records
                  = Append(r.analytics_records, [task_id |-> 0, evaluation_id |-> e,
                                                 retries |-> -1])
             /\ q.events = Journal(r, {"AnalyticsRecordCaptured"})
<1> DEFINE record == [task_id |-> 0, evaluation_id |-> e, retries |-> -1]
<1>1. r.evaluations \in Seq(Evaluation) /\ e \in DOMAIN r.evaluations
  BY DEF Run, CanRecordEvaluationAnalytics
<1>2. record \in AnalyticsRecord
  BY <1>1 DEF AnalyticsRecord
<1>3. RecordEvaluationAnalytics(r, e) = Capture(r, record)
  BY DEF RecordEvaluationAnalytics
<1> HIDE DEF record
<1>4. LET q == Capture(r, record)
      IN  /\ q \in Run
          /\ Keeps(r, q, {"analytics_records"})
          /\ q.analytics_records = Append(r.analytics_records, record)
          /\ q.events = Journal(r, {"AnalyticsRecordCaptured"})
  BY <1>2, CaptureEffect
<1> QED
  BY <1>3, <1>4 DEF record

-----------------------------------------------------------------------------
(* What may happen to a Run: one call that does not raise, with the        *)
(* arguments its callers give it.                                          *)

StatusOperation(r, q) ==
  \E to \in RunStatus, reason \in Reasons \cup {NoReason} :
    CanTransition(r, to) /\ q = Transition(r, to, reason)

TaskOperation(r, q) ==
  \/ \E step \in Steps, input \in Inputs : q = OpenTask(r, step, input)
  \/ \E t \in DOMAIN r.tasks, to \in TaskStatus :
       CanTransitionTask(r, t, to) /\ q = TransitionTask(r, t, to)
  \/ \E t \in DOMAIN r.tasks, valid \in {"valid", "invalid"} :
       CanRecordOutput(r, t) /\ q = RecordOutput(r, t, valid)

ArtifactOperation(r, q) ==
  \/ \E t \in DOMAIN r.tasks : CanCreateArtifact(r, t) /\ q = CreateArtifact(r, t)
  \/ \E a \in DOMAIN r.artifacts, t \in DOMAIN r.tasks :
       CanCreateArtifactVersion(r, a, t) /\ q = CreateArtifactVersion(r, a, t)
  \/ \E a \in DOMAIN r.artifacts, to \in ArtifactStatus :
       CanTransitionArtifact(r, a, to) /\ q = TransitionArtifact(r, a, to)

ReviewOperation(r, q) ==
  \/ \E a \in DOMAIN r.artifacts : IsCandidate(r, a) /\ q = OpenHumanReview(r, a)
  \/ \E h \in DOMAIN r.human_reviews, decision \in ReviewStatus :
       CanSubmitReview(r, h, decision) /\ q = SubmitReview(r, h, decision)

EvaluationOperation(r, q) ==
  \/ \E a \in DOMAIN r.artifacts, attributed \in BOOLEAN :
       IsCandidate(r, a) /\ q = OpenEvaluation(r, a, attributed)
  \/ \E e \in DOMAIN r.evaluations, verdict \in EvaluationStatus :
       CanRecordEvaluation(r, e, verdict) /\ q = RecordEvaluation(r, e, verdict)

RecordOperation(r, q) ==
  \/ \E t \in DOMAIN r.tasks : CanRecordAnalytics(r, t) /\ q = RecordAnalytics(r, t)
  \/ \E e \in DOMAIN r.evaluations :
       CanRecordEvaluationAnalytics(r, e) /\ q = RecordEvaluationAnalytics(r, e)

Operation(r, q) ==
  \/ StatusOperation(r, q) \/ TaskOperation(r, q) \/ ArtifactOperation(r, q)
  \/ ReviewOperation(r, q) \/ EvaluationOperation(r, q) \/ RecordOperation(r, q)

(* The children of a Run are numbered by natural numbers. *)
LEMMA ChildNumbers ==
  ASSUME NEW r \in Run
  PROVE  /\ DOMAIN r.tasks = 1..Len(r.tasks) /\ Len(r.tasks) \in Nat
         /\ DOMAIN r.artifacts = 1..Len(r.artifacts) /\ Len(r.artifacts) \in Nat
         /\ DOMAIN r.human_reviews = 1..Len(r.human_reviews) /\ Len(r.human_reviews) \in Nat
         /\ DOMAIN r.evaluations = 1..Len(r.evaluations) /\ Len(r.evaluations) \in Nat
         /\ DOMAIN r.analytics_records = 1..Len(r.analytics_records)
         /\ Len(r.analytics_records) \in Nat
<1>1. /\ r.tasks \in Seq(Task) /\ r.artifacts \in Seq(Artifact)
      /\ r.human_reviews \in Seq(HumanReview) /\ r.evaluations \in Seq(Evaluation)
      /\ r.analytics_records \in Seq(AnalyticsRecord)
  BY DEF Run
<1> QED
  BY <1>1

(* Every child is of its type. *)
LEMMA ChildTypes ==
  ASSUME NEW r \in Run
  PROVE  /\ \A t \in DOMAIN r.tasks : r.tasks[t] \in Task
         /\ \A a \in DOMAIN r.artifacts : r.artifacts[a] \in Artifact
         /\ \A h \in DOMAIN r.human_reviews : r.human_reviews[h] \in HumanReview
         /\ \A e \in DOMAIN r.evaluations : r.evaluations[e] \in Evaluation
         /\ \A k \in DOMAIN r.analytics_records : r.analytics_records[k] \in AnalyticsRecord
BY DEF Run

(* Which part of the Run each group of operations touches, and that it     *)
(* makes a Run of it. A transition of the Run: its status.                 *)
LEMMA StatusFrame ==
  ASSUME NEW r \in Run, NEW q, StatusOperation(r, q)
  PROVE  q \in Run /\ Keeps(r, q, {"status"})
BY TransitionEffect DEF StatusOperation

(* A Task operation touches the Tasks.                                     *)
LEMMA TaskFrame ==
  ASSUME NEW r \in Run, NEW q, TaskOperation(r, q)
  PROVE  q \in Run /\ Keeps(r, q, {"tasks"})
<1>1. ASSUME NEW step \in Steps, NEW input \in Inputs, q = OpenTask(r, step, input)
      PROVE  q \in Run /\ Keeps(r, q, {"tasks"})
  BY <1>1, OpenTaskEffect, Zenon
<1>2. ASSUME NEW t \in DOMAIN r.tasks, NEW to \in TaskStatus,
             CanTransitionTask(r, t, to), q = TransitionTask(r, t, to)
      PROVE  q \in Run /\ Keeps(r, q, {"tasks"})
  BY <1>2, TransitionTaskEffect, Zenon
<1>3. ASSUME NEW t \in DOMAIN r.tasks, NEW valid \in {"valid", "invalid"},
             CanRecordOutput(r, t), q = RecordOutput(r, t, valid)
      PROVE  q \in Run /\ Keeps(r, q, {"tasks"})
  BY <1>3, RecordOutputEffect, Zenon
<1> QED
  BY <1>1, <1>2, <1>3, Zenon DEF TaskOperation

(* An Artifact operation touches the Artifacts.                            *)
LEMMA ArtifactFrame ==
  ASSUME NEW r \in Run, NEW q, ArtifactOperation(r, q)
  PROVE  q \in Run /\ Keeps(r, q, {"artifacts"})
<1>1. ASSUME NEW t \in DOMAIN r.tasks, CanCreateArtifact(r, t), q = CreateArtifact(r, t)
      PROVE  q \in Run /\ Keeps(r, q, {"artifacts"})
  BY <1>1, CreateArtifactEffect, Zenon
<1>2. ASSUME NEW a \in DOMAIN r.artifacts, NEW t \in DOMAIN r.tasks,
             CanCreateArtifactVersion(r, a, t), q = CreateArtifactVersion(r, a, t)
      PROVE  q \in Run /\ Keeps(r, q, {"artifacts"})
  BY <1>2, CreateArtifactVersionEffect, Zenon
<1>3. ASSUME NEW a \in DOMAIN r.artifacts, NEW to \in ArtifactStatus,
             CanTransitionArtifact(r, a, to), q = TransitionArtifact(r, a, to)
      PROVE  q \in Run /\ Keeps(r, q, {"artifacts"})
  BY <1>3, TransitionArtifactEffect, Zenon
<1> QED
  BY <1>1, <1>2, <1>3, Zenon DEF ArtifactOperation

(* A review operation touches the Human Reviews.                           *)
LEMMA ReviewFrame ==
  ASSUME NEW r \in Run, NEW q, ReviewOperation(r, q)
  PROVE  q \in Run /\ Keeps(r, q, {"human_reviews"})
<1>0. DOMAIN r.artifacts \subseteq Nat
  BY ChildNumbers
<1>1. ASSUME NEW a \in DOMAIN r.artifacts, q = OpenHumanReview(r, a)
      PROVE  q \in Run /\ Keeps(r, q, {"human_reviews"})
  BY <1>1, <1>0, OpenHumanReviewEffect, Zenon
<1>2. ASSUME NEW h \in DOMAIN r.human_reviews, NEW decision \in ReviewStatus,
             CanSubmitReview(r, h, decision), q = SubmitReview(r, h, decision)
      PROVE  q \in Run /\ Keeps(r, q, {"human_reviews"})
  BY <1>2, SubmitReviewEffect, Zenon
<1> QED
  BY <1>1, <1>2, Zenon DEF ReviewOperation

(* An evaluation operation touches the Evaluations.                        *)
LEMMA EvaluationFrame ==
  ASSUME NEW r \in Run, NEW q, EvaluationOperation(r, q)
  PROVE  q \in Run /\ Keeps(r, q, {"evaluations"})
<1>0. DOMAIN r.artifacts \subseteq Nat
  BY ChildNumbers
<1>1. ASSUME NEW a \in DOMAIN r.artifacts, NEW attributed \in BOOLEAN,
             q = OpenEvaluation(r, a, attributed)
      PROVE  q \in Run /\ Keeps(r, q, {"evaluations"})
  BY <1>1, <1>0, OpenEvaluationEffect, Zenon
<1>2. ASSUME NEW e \in DOMAIN r.evaluations, NEW verdict \in EvaluationStatus,
             CanRecordEvaluation(r, e, verdict), q = RecordEvaluation(r, e, verdict)
      PROVE  q \in Run /\ Keeps(r, q, {"evaluations"})
  BY <1>2, RecordEvaluationEffect, Zenon
<1> QED
  BY <1>1, <1>2, Zenon DEF EvaluationOperation

(* A captured record touches the Analytics Records.                        *)
LEMMA RecordFrame ==
  ASSUME NEW r \in Run, NEW q, RecordOperation(r, q)
  PROVE  q \in Run /\ Keeps(r, q, {"analytics_records"})
BY RecordAnalyticsEffect, RecordEvaluationAnalyticsEffect DEF RecordOperation

(* Every operation makes a Run of a Run.                                   *)
LEMMA OperationTyped ==
  ASSUME NEW r \in Run, NEW q, Operation(r, q)
  PROVE  q \in Run
BY StatusFrame, TaskFrame, ArtifactFrame, ReviewFrame, EvaluationFrame, RecordFrame
DEF Operation

(* A new Run is a Run.                                                     *)
LEMMA NewRunTyped == NewRun \in Run
BY PolicyAssumption DEF NewRun, Run, RunStatus

-----------------------------------------------------------------------------
(* What is decided in r is as it was in q, and no child is lost: the       *)
(* relation of a Run to every later one.                                   *)

TasksGrow(r, q) ==
  \A t \in DOMAIN r.tasks :
    /\ t \in DOMAIN q.tasks
    /\ q.tasks[t].step = r.tasks[t].step /\ q.tasks[t].task_input = r.tasks[t].task_input
    /\ IsTerminalTask(r.tasks[t]) => /\ q.tasks[t].status = r.tasks[t].status
                                     /\ q.tasks[t].attempt_count = r.tasks[t].attempt_count
    /\ r.tasks[t].output # "none" => q.tasks[t] = r.tasks[t]

ArtifactsGrow(r, q) ==
  \A a \in DOMAIN r.artifacts :
    /\ a \in DOMAIN q.artifacts
    /\ q.artifacts[a].output_ref = r.artifacts[a].output_ref
    /\ q.artifacts[a].version = r.artifacts[a].version
    /\ q.artifacts[a].supersedes_ref = r.artifacts[a].supersedes_ref
    /\ r.artifacts[a].status \in {"published", "rejected", "superseded"}
         => q.artifacts[a] = r.artifacts[a]

ReviewsGrow(r, q) ==
  \A h \in DOMAIN r.human_reviews :
    /\ h \in DOMAIN q.human_reviews
    /\ q.human_reviews[h].artifact_ref = r.human_reviews[h].artifact_ref
    /\ r.human_reviews[h].status # "pending" => q.human_reviews[h] = r.human_reviews[h]

EvaluationsGrow(r, q) ==
  \A e \in DOMAIN r.evaluations :
    /\ e \in DOMAIN q.evaluations
    /\ q.evaluations[e].artifact_ref = r.evaluations[e].artifact_ref
    /\ q.evaluations[e].attributed = r.evaluations[e].attributed
    /\ r.evaluations[e].status # "pending" => q.evaluations[e] = r.evaluations[e]

RecordsGrow(r, q) ==
  \A k \in DOMAIN r.analytics_records :
    k \in DOMAIN q.analytics_records /\ q.analytics_records[k] = r.analytics_records[k]

Grows(r, q) ==
  /\ r.status \in {"completed", "failed"} => q.status = r.status
  /\ TasksGrow(r, q) /\ ArtifactsGrow(r, q) /\ ReviewsGrow(r, q)
  /\ EvaluationsGrow(r, q) /\ RecordsGrow(r, q)

(* Growth over two steps is growth.                                        *)
LEMMA GrowsTransitively ==
  ASSUME NEW p, NEW q, NEW r, Grows(p, q), Grows(q, r)
  PROVE  Grows(p, r)
<1>1. TasksGrow(p, r)
  BY DEF Grows, TasksGrow, IsTerminalTask
<1>2. ArtifactsGrow(p, r)
  BY DEF Grows, ArtifactsGrow
<1>3. ReviewsGrow(p, r) /\ EvaluationsGrow(p, r)
  BY DEF Grows, ReviewsGrow, EvaluationsGrow
<1>4. RecordsGrow(p, r)
  BY DEF Grows, RecordsGrow
<1> QED
  BY <1>1, <1>2, <1>3, <1>4 DEF Grows

(* A Run that stays as it is grows.                                        *)
LEMMA GrowsByNothing ==
  ASSUME NEW r, NEW q, Keeps(r, q, {})
  PROVE  Grows(r, q)
BY DEF Keeps, Grows, TasksGrow, ArtifactsGrow, ReviewsGrow, EvaluationsGrow, RecordsGrow

(* No Task operation takes a Task away or changes a finished one.          *)
LEMMA TaskOperationGrows ==
  ASSUME NEW r \in Run, TaskStatesRestorable(r), NEW q, TaskOperation(r, q)
  PROVE  TasksGrow(r, q)
<1>1. r.tasks \in Seq(Task)
  BY DEF Run
<1>2. ASSUME NEW step \in Steps, NEW input \in Inputs, q = OpenTask(r, step, input)
      PROVE  TasksGrow(r, q)
  <2>1. PICK task : q.tasks = Append(r.tasks, task)
    BY <1>2, OpenTaskEffect, Zenon
  <2> QED
    BY <1>1, <2>1 DEF TasksGrow
<1>3. ASSUME NEW t \in DOMAIN r.tasks, NEW to \in TaskStatus,
             CanTransitionTask(r, t, to), q = TransitionTask(r, t, to)
      PROVE  TasksGrow(r, q)
  <2>1. q.tasks = Updated(r.tasks, t, Attempted(r.tasks[t], to))
    BY <1>3, TransitionTaskEffect, Zenon
  <2>2. r.tasks[t] \in Task
    BY ChildTypes
  <2>3. ~IsTerminalTask(r.tasks[t]) /\ r.tasks[t].output = "none"
    BY <1>3, <2>2 DEF CanTransitionTask, AllowedTaskTransitions, IsTerminalTask,
       TerminalTaskStates, TaskStatesRestorable, Task, TaskStatus
  <2> QED
    BY <1>1, <2>1, <2>2, <2>3 DEF TasksGrow, Task, Updated, Attempted
<1>4. ASSUME NEW t \in DOMAIN r.tasks, NEW valid \in {"valid", "invalid"},
             CanRecordOutput(r, t), q = RecordOutput(r, t, valid)
      PROVE  TasksGrow(r, q)
  <2>1. q.tasks = Updated(r.tasks, t, WithOutput(r.tasks[t], valid))
    BY <1>4, RecordOutputEffect, Zenon
  <2>2. r.tasks[t] \in Task /\ r.tasks[t].output = "none"
    BY <1>4, ChildTypes DEF CanRecordOutput
  <2> QED
    BY <1>1, <2>1, <2>2 DEF TasksGrow, Task, Updated, WithOutput
<1> QED
  BY <1>2, <1>3, <1>4 DEF TaskOperation

(* No Artifact operation takes an Artifact away or changes a settled one.  *)
LEMMA ArtifactOperationGrows ==
  ASSUME NEW r \in Run, NEW q, ArtifactOperation(r, q)
  PROVE  ArtifactsGrow(r, q)
<1>1. r.artifacts \in Seq(Artifact)
  BY DEF Run
<1>2. ASSUME NEW t \in DOMAIN r.tasks, CanCreateArtifact(r, t), q = CreateArtifact(r, t)
      PROVE  ArtifactsGrow(r, q)
  <2>1. PICK artifact : q.artifacts = Append(r.artifacts, artifact)
    BY <1>2, CreateArtifactEffect
  <2> QED
    BY <1>1, <2>1 DEF ArtifactsGrow
<1>3. ASSUME NEW a \in DOMAIN r.artifacts, NEW t \in DOMAIN r.tasks,
             CanCreateArtifactVersion(r, a, t), q = CreateArtifactVersion(r, a, t)
      PROVE  ArtifactsGrow(r, q)
  <2> DEFINE ended == WithStatus(r.artifacts[a], "superseded")
             changed == Updated(r.artifacts, a, ended)
             artifact == [output_ref |-> t, version |-> r.artifacts[a].version + 1,
                          supersedes_ref |-> a, status |-> "draft"]
  <2>1. q.artifacts = Append(changed, artifact)
    BY <1>3, CreateArtifactVersionEffect, Zenon
  <2>2. r.artifacts[a] \in Artifact
    BY ChildTypes
  <2>3. /\ ended \in Artifact
        /\ ended.output_ref = r.artifacts[a].output_ref
        /\ ended.version = r.artifacts[a].version
        /\ ended.supersedes_ref = r.artifacts[a].supersedes_ref
    BY <2>2 DEF Artifact, ArtifactStatus, WithStatus
  <2> HIDE DEF ended, artifact
  <2>4. /\ changed \in Seq(Artifact)
        /\ DOMAIN changed = DOMAIN r.artifacts
        /\ \A b \in DOMAIN r.artifacts : b # a => changed[b] = r.artifacts[b]
        /\ changed[a] = ended
    BY <1>1, <2>3 DEF Updated
  <2>5. r.artifacts[a].status \notin {"published", "rejected", "superseded"}
    BY <1>3, <2>2 DEF CanCreateArtifactVersion, AllowedArtifactTransitions
  <2> HIDE DEF changed
  <2>6. \A b \in DOMAIN r.artifacts : b \in DOMAIN q.artifacts /\ q.artifacts[b] = changed[b]
    BY <2>1, <2>4
  <2> QED
    BY <2>3, <2>4, <2>5, <2>6 DEF ArtifactsGrow
<1>4. ASSUME NEW a \in DOMAIN r.artifacts, NEW to \in ArtifactStatus,
             CanTransitionArtifact(r, a, to), q = TransitionArtifact(r, a, to)
      PROVE  ArtifactsGrow(r, q)
  <2>1. q.artifacts = Updated(r.artifacts, a, WithStatus(r.artifacts[a], to))
    BY <1>4, TransitionArtifactEffect
  <2>2. r.artifacts[a] \in Artifact
    BY ChildTypes
  <2>3. r.artifacts[a].status \notin {"published", "rejected", "superseded"}
    BY <1>4, <2>2 DEF CanTransitionArtifact, AllowedArtifactTransitions
  <2> QED
    BY <1>1, <2>1, <2>2, <2>3, SMTT(20) DEF ArtifactsGrow, Artifact, Updated, WithStatus
<1> QED
  BY <1>2, <1>3, <1>4 DEF ArtifactOperation

(* No review operation changes a decided Human Review.                     *)
LEMMA ReviewOperationGrows ==
  ASSUME NEW r \in Run, NEW q, ReviewOperation(r, q)
  PROVE  ReviewsGrow(r, q)
<1>1. r.human_reviews \in Seq(HumanReview)
  BY DEF Run
<1>2. ASSUME NEW a \in DOMAIN r.artifacts, q = OpenHumanReview(r, a)
      PROVE  ReviewsGrow(r, q)
  <2>1. a \in Nat
    BY ChildNumbers
  <2>2. PICK review : q.human_reviews = Append(r.human_reviews, review)
    BY <1>2, <2>1, OpenHumanReviewEffect
  <2> QED
    BY <1>1, <2>2 DEF ReviewsGrow
<1>3. ASSUME NEW h \in DOMAIN r.human_reviews, NEW decision \in ReviewStatus,
             CanSubmitReview(r, h, decision), q = SubmitReview(r, h, decision)
      PROVE  ReviewsGrow(r, q)
  <2>1. q.human_reviews = Updated(r.human_reviews, h, WithStatus(r.human_reviews[h], decision))
    BY <1>3, SubmitReviewEffect
  <2>2. r.human_reviews[h] \in HumanReview /\ r.human_reviews[h].status = "pending"
    BY <1>3, ChildTypes DEF CanSubmitReview
  <2> QED
    BY <1>1, <2>1, <2>2 DEF ReviewsGrow, HumanReview, Updated, WithStatus
<1> QED
  BY <1>2, <1>3 DEF ReviewOperation

(* No evaluation operation changes a verdict.                              *)
LEMMA EvaluationOperationGrows ==
  ASSUME NEW r \in Run, NEW q, EvaluationOperation(r, q)
  PROVE  EvaluationsGrow(r, q)
<1>1. r.evaluations \in Seq(Evaluation)
  BY DEF Run
<1>2. ASSUME NEW a \in DOMAIN r.artifacts, NEW attributed \in BOOLEAN,
             q = OpenEvaluation(r, a, attributed)
      PROVE  EvaluationsGrow(r, q)
  <2>1. a \in Nat
    BY ChildNumbers
  <2>2. PICK evaluation : q.evaluations = Append(r.evaluations, evaluation)
    BY <1>2, <2>1, OpenEvaluationEffect
  <2> QED
    BY <1>1, <2>2 DEF EvaluationsGrow
<1>3. ASSUME NEW e \in DOMAIN r.evaluations, NEW verdict \in EvaluationStatus,
             CanRecordEvaluation(r, e, verdict), q = RecordEvaluation(r, e, verdict)
      PROVE  EvaluationsGrow(r, q)
  <2>1. q.evaluations = Updated(r.evaluations, e, WithStatus(r.evaluations[e], verdict))
    BY <1>3, RecordEvaluationEffect
  <2>2. r.evaluations[e] \in Evaluation /\ r.evaluations[e].status = "pending"
    BY <1>3, ChildTypes DEF CanRecordEvaluation
  <2> QED
    BY <1>1, <2>1, <2>2 DEF EvaluationsGrow, Evaluation, Updated, WithStatus
<1> QED
  BY <1>2, <1>3 DEF EvaluationOperation

(* Analytics Records are only appended.                                    *)
LEMMA RecordOperationGrows ==
  ASSUME NEW r \in Run, NEW q, RecordOperation(r, q)
  PROVE  RecordsGrow(r, q)
<1>1. r.analytics_records \in Seq(AnalyticsRecord)
  BY DEF Run
<1>2. PICK record : q.analytics_records = Append(r.analytics_records, record)
  <2>1. ASSUME NEW t, CanRecordAnalytics(r, t)
        PROVE  \E record : RecordAnalytics(r, t).analytics_records
                              = Append(r.analytics_records, record)
    BY <2>1, RecordAnalyticsEffect, Zenon
  <2>2. ASSUME NEW e, CanRecordEvaluationAnalytics(r, e)
        PROVE  \E record : RecordEvaluationAnalytics(r, e).analytics_records
                              = Append(r.analytics_records, record)
    BY <2>2, RecordEvaluationAnalyticsEffect, Zenon
  <2> QED
    BY <2>1, <2>2, Zenon DEF RecordOperation
<1> QED
  BY <1>1, <1>2 DEF RecordsGrow

(* No operation undoes a decision: a Run only grows. *)
LEMMA OperationGrows ==
  ASSUME NEW r \in Run, TaskStatesRestorable(r), NEW q, Operation(r, q)
  PROVE  Grows(r, q)
<1> USE DEF Keeps, Grows, TasksGrow, ArtifactsGrow, ReviewsGrow, EvaluationsGrow, RecordsGrow
<1>1. CASE StatusOperation(r, q)
  <2>1. r.status \notin {"completed", "failed"}
    BY <1>1 DEF StatusOperation, CanTransition, AllowedTransitions, Run, RunStatus
  <2> QED
    BY <1>1, <2>1, StatusFrame
<1>2. CASE TaskOperation(r, q)
  BY <1>2, TaskFrame, TaskOperationGrows
<1>3. CASE ArtifactOperation(r, q)
  BY <1>3, ArtifactFrame, ArtifactOperationGrows
<1>4. CASE ReviewOperation(r, q)
  BY <1>4, ReviewFrame, ReviewOperationGrows
<1>5. CASE EvaluationOperation(r, q)
  BY <1>5, EvaluationFrame, EvaluationOperationGrows
<1>6. CASE RecordOperation(r, q)
  BY <1>6, RecordFrame, RecordOperationGrows
<1> QED
  BY <1>1, <1>2, <1>3, <1>4, <1>5, <1>6 DEF Operation

-----------------------------------------------------------------------------
(* What restore verifies of the children is kept by every operation.       *)

ArtifactsResolve(r) ==
  \A a \in DOMAIN r.artifacts :
    /\ HasOutput(r, r.artifacts[a].output_ref)
    /\ \A b \in DOMAIN r.artifacts :
         r.artifacts[a].output_ref = r.artifacts[b].output_ref => a = b
    /\ r.artifacts[a].supersedes_ref \in {0} \cup DOMAIN r.artifacts
ReviewsResolve(r) ==
  \A h \in DOMAIN r.human_reviews : r.human_reviews[h].artifact_ref \in DOMAIN r.artifacts
EvaluationsResolve(r) ==
  \A e \in DOMAIN r.evaluations : r.evaluations[e].artifact_ref \in DOMAIN r.artifacts
RecordsResolve(r) ==
  \A k \in DOMAIN r.analytics_records :
    \/ r.analytics_records[k].task_id \in DOMAIN r.tasks
    \/ CanRecordEvaluationAnalytics(r, r.analytics_records[k].evaluation_id)

(* What restore verifies of references, one kind of child at a time.       *)
LEMMA ReferenceParts ==
  ASSUME NEW r
  PROVE  ReferencesRestorable(r) <=> /\ ArtifactsResolve(r) /\ ReviewsResolve(r)
                                     /\ EvaluationsResolve(r) /\ RecordsResolve(r)
BY DEF ReferencesRestorable, ArtifactsResolve, ReviewsResolve, EvaluationsResolve, RecordsResolve

(* Attempts stay in bound and Outputs on succeeded Tasks.                  *)
LEMMA TaskStatesKept ==
  ASSUME NEW r \in Run, TaskStatesRestorable(r), NEW q \in Run, TaskOperation(r, q)
  PROVE  TaskStatesRestorable(q)
<1>1. r.tasks \in Seq(Task) /\ \A t \in DOMAIN q.tasks : q.tasks[t] \in Task
  BY ChildTypes DEF Run
<1>2. SUFFICES ASSUME NEW u \in DOMAIN q.tasks, q.tasks[u].output # "none"
               PROVE  q.tasks[u].status = "succeeded"
  BY <1>1 DEF TaskStatesRestorable, Task
<1>3. ASSUME NEW step \in Steps, NEW input \in Inputs, q = OpenTask(r, step, input)
      PROVE  q.tasks[u].status = "succeeded"
  <2> DEFINE task == [step |-> step, task_input |-> input, status |-> "pending",
                      attempt_count |-> 0, output |-> "none"]
  <2>1. q.tasks = Append(r.tasks, task)
    BY <1>3, OpenTaskEffect, Zenon
  <2>2. task.output = "none"
    OBVIOUS
  <2> HIDE DEF task
  <2>3. u \in DOMAIN r.tasks /\ q.tasks[u] = r.tasks[u]
    BY <1>1, <1>2, <2>1, <2>2
  <2> QED
    BY <1>2, <2>3 DEF TaskStatesRestorable
<1>4. ASSUME NEW t \in DOMAIN r.tasks, NEW to \in TaskStatus,
             CanTransitionTask(r, t, to), q = TransitionTask(r, t, to)
      PROVE  q.tasks[u].status = "succeeded"
  <2>1. q.tasks = Updated(r.tasks, t, Attempted(r.tasks[t], to))
    BY <1>4, TransitionTaskEffect, Zenon
  <2>2. r.tasks[t] \in Task /\ r.tasks[t].output = "none"
    BY <1>4, ChildTypes DEF CanTransitionTask, AllowedTaskTransitions, TaskStatesRestorable,
       Task, TaskStatus
  <2>3. u \in DOMAIN r.tasks /\ u # t /\ q.tasks[u] = r.tasks[u]
    BY <1>1, <1>2, <2>1, <2>2 DEF Updated, Attempted, Task
  <2> QED
    BY <1>2, <2>3 DEF TaskStatesRestorable
<1>5. ASSUME NEW t \in DOMAIN r.tasks, NEW valid \in {"valid", "invalid"},
             CanRecordOutput(r, t), q = RecordOutput(r, t, valid)
      PROVE  q.tasks[u].status = "succeeded"
  <2>1. q.tasks = Updated(r.tasks, t, WithOutput(r.tasks[t], valid))
    BY <1>5, RecordOutputEffect, Zenon
  <2>2. r.tasks[t] \in Task /\ r.tasks[t].status = "succeeded"
    BY <1>5, ChildTypes DEF CanRecordOutput
  <2>3. /\ u \in DOMAIN r.tasks
        /\ u # t => q.tasks[u] = r.tasks[u]
        /\ u = t => q.tasks[u].status = r.tasks[t].status
    BY <1>1, <2>1, <2>2 DEF Updated, WithOutput, Task
  <2> QED
    BY <1>2, <2>2, <2>3 DEF TaskStatesRestorable
<1> QED
  BY <1>3, <1>4, <1>5 DEF TaskOperation

(* Every Artifact keeps an Output of its own and a version to supersede.   *)
LEMMA ArtifactsResolveKept ==
  ASSUME NEW r \in Run, ArtifactsResolve(r), NEW q \in Run, ArtifactOperation(r, q)
  PROVE  ArtifactsResolve(q)
<1>1. r.artifacts \in Seq(Artifact) /\ q.tasks = r.tasks
  BY ArtifactFrame DEF Keeps, Run
<1>2. /\ \A t : HasOutput(q, t) <=> HasOutput(r, t)
      /\ DOMAIN r.artifacts \subseteq DOMAIN q.artifacts
      /\ \A a \in DOMAIN r.artifacts :
           /\ q.artifacts[a].output_ref = r.artifacts[a].output_ref
           /\ q.artifacts[a].supersedes_ref = r.artifacts[a].supersedes_ref
  BY <1>1, ArtifactOperationGrows DEF HasOutput, ArtifactsGrow
<1>3. CASE DOMAIN q.artifacts = DOMAIN r.artifacts
  BY <1>2, <1>3 DEF ArtifactsResolve
<1>4. ASSUME NEW n, NEW t, DOMAIN q.artifacts = DOMAIN r.artifacts \cup {n},
             q.artifacts[n].output_ref = t, HasOutput(r, t), ~IsOutputUsed(r, t),
             q.artifacts[n].supersedes_ref \in {0} \cup DOMAIN r.artifacts
      PROVE  ArtifactsResolve(q)
  BY <1>2, <1>4 DEF ArtifactsResolve, IsOutputUsed
<1> DEFINE n == Len(r.artifacts) + 1
<1>5. ASSUME NEW t \in DOMAIN r.tasks, CanCreateArtifact(r, t), q = CreateArtifact(r, t)
      PROVE  ArtifactsResolve(q)
  <2> DEFINE artifact == [output_ref |-> t, version |-> 1, supersedes_ref |-> 0,
                          status |-> "draft"]
  <2>1. q.artifacts = Append(r.artifacts, artifact)
    BY <1>5, CreateArtifactEffect, Zenon
  <2>2. artifact.output_ref = t /\ artifact.supersedes_ref = 0
    OBVIOUS
  <2> HIDE DEF artifact
  <2>3. DOMAIN q.artifacts = DOMAIN r.artifacts \cup {n} /\ q.artifacts[n] = artifact
    BY <1>1, <2>1
  <2>4. HasOutput(r, t) /\ ~IsOutputUsed(r, t)
    BY <1>5 DEF CanCreateArtifact
  <2> HIDE DEF n
  <2> QED
    BY <1>4, <2>2, <2>3, <2>4
<1>6. ASSUME NEW a \in DOMAIN r.artifacts, NEW t \in DOMAIN r.tasks,
             CanCreateArtifactVersion(r, a, t), q = CreateArtifactVersion(r, a, t)
      PROVE  ArtifactsResolve(q)
  <2> DEFINE ended == WithStatus(r.artifacts[a], "superseded")
             changed == Updated(r.artifacts, a, ended)
             artifact == [output_ref |-> t, version |-> r.artifacts[a].version + 1,
                          supersedes_ref |-> a, status |-> "draft"]
  <2>1. q.artifacts = Append(changed, artifact)
    BY <1>6, CreateArtifactVersionEffect, Zenon
  <2>2. artifact.output_ref = t /\ artifact.supersedes_ref = a
    OBVIOUS
  <2>3. r.artifacts[a] \in Artifact
    BY ChildTypes
  <2>4. ended \in Artifact
    BY <2>3 DEF Artifact, ArtifactStatus, WithStatus
  <2> HIDE DEF ended, artifact
  <2>5. changed \in Seq(Artifact) /\ Len(changed) = Len(r.artifacts)
    BY <1>1, <2>4 DEF Updated
  <2> HIDE DEF changed
  <2>6. DOMAIN q.artifacts = DOMAIN r.artifacts \cup {n} /\ q.artifacts[n] = artifact
    BY <1>1, <2>1, <2>5
  <2>7. HasOutput(r, t) /\ ~IsOutputUsed(r, t)
    BY <1>6 DEF CanCreateArtifactVersion
  <2> HIDE DEF n
  <2> QED
    BY <1>4, <2>2, <2>6, <2>7
<1>7. ASSUME NEW a \in DOMAIN r.artifacts, NEW to \in ArtifactStatus,
             CanTransitionArtifact(r, a, to), q = TransitionArtifact(r, a, to)
      PROVE  ArtifactsResolve(q)
  <2>1. q.artifacts = Updated(r.artifacts, a, WithStatus(r.artifacts[a], to))
    BY <1>7, TransitionArtifactEffect, Zenon
  <2>2. DOMAIN q.artifacts = DOMAIN r.artifacts
    BY <1>1, <2>1 DEF Updated
  <2> QED
    BY <1>3, <2>2
<1> QED
  BY <1>5, <1>6, <1>7, Zenon DEF ArtifactOperation

(* Every Human Review keeps its Artifact.                                  *)
LEMMA ReviewsResolveKept ==
  ASSUME NEW r \in Run, ReviewsResolve(r), NEW q \in Run, ReviewOperation(r, q)
  PROVE  ReviewsResolve(q)
<1>1. r.human_reviews \in Seq(HumanReview) /\ q.artifacts = r.artifacts
  BY ReviewFrame DEF Keeps, Run
<1>2. ASSUME NEW a \in DOMAIN r.artifacts, q = OpenHumanReview(r, a)
      PROVE  ReviewsResolve(q)
  <2>1. a \in Nat
    BY ChildNumbers
  <2>2. q.human_reviews = Append(r.human_reviews, [artifact_ref |-> a, status |-> "pending"])
    BY <1>2, <2>1, OpenHumanReviewEffect, Zenon
  <2> QED
    BY <1>1, <2>2 DEF ReviewsResolve
<1>3. ASSUME NEW h \in DOMAIN r.human_reviews, NEW decision \in ReviewStatus,
             CanSubmitReview(r, h, decision), q = SubmitReview(r, h, decision)
      PROVE  ReviewsResolve(q)
  <2>1. q.human_reviews = Updated(r.human_reviews, h, WithStatus(r.human_reviews[h], decision))
    BY <1>3, SubmitReviewEffect
  <2>2. r.human_reviews[h] \in HumanReview
    BY ChildTypes
  <2> QED
    BY <1>1, <2>1, <2>2 DEF ReviewsResolve, Updated, WithStatus, HumanReview
<1> QED
  BY <1>2, <1>3 DEF ReviewOperation

(* Every Evaluation keeps its Artifact.                                    *)
LEMMA EvaluationsResolveKept ==
  ASSUME NEW r \in Run, EvaluationsResolve(r), NEW q \in Run, EvaluationOperation(r, q)
  PROVE  EvaluationsResolve(q)
<1>1. r.evaluations \in Seq(Evaluation) /\ q.artifacts = r.artifacts
  BY EvaluationFrame DEF Keeps, Run
<1>2. ASSUME NEW a \in DOMAIN r.artifacts, NEW attributed \in BOOLEAN,
             q = OpenEvaluation(r, a, attributed)
      PROVE  EvaluationsResolve(q)
  <2>1. a \in Nat
    BY ChildNumbers
  <2>2. q.evaluations = Append(r.evaluations, [artifact_ref |-> a, attributed |-> attributed,
                                               status |-> "pending"])
    BY <1>2, <2>1, OpenEvaluationEffect, Zenon
  <2> QED
    BY <1>1, <2>2 DEF EvaluationsResolve
<1>3. ASSUME NEW e \in DOMAIN r.evaluations, NEW verdict \in EvaluationStatus,
             CanRecordEvaluation(r, e, verdict), q = RecordEvaluation(r, e, verdict)
      PROVE  EvaluationsResolve(q)
  <2>1. q.evaluations = Updated(r.evaluations, e, WithStatus(r.evaluations[e], verdict))
    BY <1>3, RecordEvaluationEffect
  <2>2. r.evaluations[e] \in Evaluation
    BY ChildTypes
  <2> QED
    BY <1>1, <2>1, <2>2 DEF EvaluationsResolve, Updated, WithStatus, Evaluation
<1> QED
  BY <1>2, <1>3 DEF EvaluationOperation

(* Every Analytics Record keeps the Task or Evaluation it is about.        *)
LEMMA RecordsResolveKept ==
  ASSUME NEW r \in Run, RecordsResolve(r), NEW q \in Run, RecordOperation(r, q)
  PROVE  RecordsResolve(q)
<1>1. /\ r.analytics_records \in Seq(AnalyticsRecord)
      /\ q.tasks = r.tasks /\ q.evaluations = r.evaluations
  BY RecordFrame DEF Keeps, Run
<1>2. PICK record :
        /\ q.analytics_records = Append(r.analytics_records, record)
        /\ \/ record.task_id \in DOMAIN r.tasks
           \/ CanRecordEvaluationAnalytics(r, record.evaluation_id)
  <2>1. ASSUME NEW t \in DOMAIN r.tasks, CanRecordAnalytics(r, t)
        PROVE  \E record :
                 /\ RecordAnalytics(r, t).analytics_records
                      = Append(r.analytics_records, record)
                 /\ record.task_id \in DOMAIN r.tasks
    <3> DEFINE record == [task_id |-> t, evaluation_id |-> 0,
                          retries |-> r.tasks[t].attempt_count - 1]
    <3>1. RecordAnalytics(r, t).analytics_records = Append(r.analytics_records, record)
      BY <2>1, RecordAnalyticsEffect, Zenon
    <3>2. record.task_id = t
      OBVIOUS
    <3> QED
      BY <3>1, <3>2, Zenon
  <2>2. ASSUME NEW e \in DOMAIN r.evaluations, CanRecordEvaluationAnalytics(r, e)
        PROVE  \E record :
                 /\ RecordEvaluationAnalytics(r, e).analytics_records
                      = Append(r.analytics_records, record)
                 /\ CanRecordEvaluationAnalytics(r, record.evaluation_id)
    <3> DEFINE record == [task_id |-> 0, evaluation_id |-> e, retries |-> -1]
    <3>1. RecordEvaluationAnalytics(r, e).analytics_records = Append(r.analytics_records, record)
      BY <2>2, RecordEvaluationAnalyticsEffect, Zenon
    <3>2. record.evaluation_id = e
      OBVIOUS
    <3> QED
      BY <2>2, <3>1, <3>2, Zenon
  <2> QED
    BY <2>1, <2>2, Zenon DEF RecordOperation
<1>3. \A k \in DOMAIN q.analytics_records :
        \/ k \in DOMAIN r.analytics_records
             /\ q.analytics_records[k] = r.analytics_records[k]
        \/ q.analytics_records[k] = record
  BY <1>1, <1>2
<1> QED
  BY <1>1, <1>2, <1>3 DEF RecordsResolve, CanRecordEvaluationAnalytics

(* What restore verifies of the children, every operation keeps.           *)
LEMMA OperationRestorable ==
  ASSUME NEW r \in Run, ChildrenRestorable(r), NEW q, Operation(r, q)
  PROVE  ChildrenRestorable(q)
<1>1. q \in Run /\ TaskStatesRestorable(r)
  BY OperationTyped DEF ChildrenRestorable
<1>2. /\ ArtifactsResolve(r) /\ ReviewsResolve(r)
      /\ EvaluationsResolve(r) /\ RecordsResolve(r)
  BY ReferenceParts DEF ChildrenRestorable
<1>3. Grows(r, q)
  BY <1>1, OperationGrows
<1>4. q.rework_count \in 0..MaxReworkIterations
  BY <1>1 DEF Run
<1>5. TaskStatesRestorable(q)
  <2>1. CASE TaskOperation(r, q)
    BY <1>1, <2>1, TaskStatesKept
  <2>2. CASE q.tasks = r.tasks
    BY <1>1, <2>2 DEF TaskStatesRestorable
  <2> QED
    BY <2>1, <2>2, StatusFrame, ArtifactFrame, ReviewFrame, EvaluationFrame, RecordFrame
    DEF Operation, Keeps
<1>6. ArtifactsResolve(q)
  <2>1. CASE ArtifactOperation(r, q)
    BY <1>1, <1>2, <2>1, ArtifactsResolveKept
  <2>2. CASE q.artifacts = r.artifacts
    BY <1>2, <1>3, <2>2 DEF ArtifactsResolve, HasOutput, Grows, TasksGrow
  <2> QED
    BY <2>1, <2>2, StatusFrame, TaskFrame, ReviewFrame, EvaluationFrame, RecordFrame
    DEF Operation, Keeps
<1>7. ReviewsResolve(q)
  <2>1. CASE ReviewOperation(r, q)
    BY <1>1, <1>2, <2>1, ReviewsResolveKept
  <2>2. CASE q.human_reviews = r.human_reviews
    BY <1>2, <1>3, <2>2 DEF ReviewsResolve, Grows, ArtifactsGrow
  <2> QED
    BY <2>1, <2>2, StatusFrame, TaskFrame, ArtifactFrame, EvaluationFrame, RecordFrame
    DEF Operation, Keeps
<1>8. EvaluationsResolve(q)
  <2>1. CASE EvaluationOperation(r, q)
    BY <1>1, <1>2, <2>1, EvaluationsResolveKept
  <2>2. CASE q.evaluations = r.evaluations
    BY <1>2, <1>3, <2>2 DEF EvaluationsResolve, Grows, ArtifactsGrow
  <2> QED
    BY <2>1, <2>2, StatusFrame, TaskFrame, ArtifactFrame, ReviewFrame, RecordFrame
    DEF Operation, Keeps
<1>9. RecordsResolve(q)
  <2>1. CASE RecordOperation(r, q)
    BY <1>1, <1>2, <2>1, RecordsResolveKept
  <2>2. CASE q.analytics_records = r.analytics_records
    BY <1>2, <1>3, <2>2
    DEF RecordsResolve, CanRecordEvaluationAnalytics, Grows, TasksGrow, EvaluationsGrow
  <2> QED
    BY <2>1, <2>2, StatusFrame, TaskFrame, ArtifactFrame, ReviewFrame, EvaluationFrame
    DEF Operation, Keeps
<1> QED
  BY <1>4, <1>5, <1>6, <1>7, <1>8, <1>9, ReferenceParts DEF ChildrenRestorable

(* A new Run has no children that restore could refuse.                    *)
LEMMA NewRunRestorable == ChildrenRestorable(NewRun)
BY PolicyAssumption
DEF NewRun, ChildrenRestorable, TaskStatesRestorable, ReferencesRestorable

-----------------------------------------------------------------------------
(* The attempts of a Task that has not ended: none before it is started.   *)
AttemptsCounted(r) ==
  \A t \in DOMAIN r.tasks :
    /\ r.tasks[t].status = "pending" => r.tasks[t].attempt_count = 0
    /\ r.tasks[t].status = "running" => r.tasks[t].attempt_count > 0

(* A new Task has no attempt, and a Task runs on attempts only.            *)
LEMMA OperationCounts ==
  ASSUME NEW r \in Run, AttemptsCounted(r), NEW q, Operation(r, q)
  PROVE  AttemptsCounted(q)
<1>1. q.tasks = r.tasks => AttemptsCounted(q)
  BY DEF AttemptsCounted
<1>2. r.tasks \in Seq(Task)
  BY DEF Run
<1>3. ASSUME NEW step \in Steps, NEW input \in Inputs, q = OpenTask(r, step, input)
      PROVE  AttemptsCounted(q)
  <2> DEFINE task == [step |-> step, task_input |-> input, status |-> "pending",
                      attempt_count |-> 0, output |-> "none"]
  <2>1. /\ q.tasks = Append(r.tasks, task)
        /\ task.status = "pending" /\ task.attempt_count = 0
    BY <1>3, OpenTaskEffect, Zenon
  <2> HIDE DEF task
  <2> QED
    BY <1>2, <2>1 DEF AttemptsCounted
<1>4. ASSUME NEW t \in DOMAIN r.tasks, NEW to \in TaskStatus,
             CanTransitionTask(r, t, to), q = TransitionTask(r, t, to)
      PROVE  AttemptsCounted(q)
  <2> DEFINE next == Attempted(r.tasks[t], to)
  <2>1. q.tasks = Updated(r.tasks, t, next)
    BY <1>4, TransitionTaskEffect, Zenon
  <2>2. r.tasks[t] \in Task /\ to \in AllowedTaskTransitions[r.tasks[t].status]
    BY <1>4, ChildTypes DEF CanTransitionTask
  <2>3. /\ next.status = to /\ to # "pending"
        /\ to = "running" => next.attempt_count > 0
    BY <2>2, PolicyAssumption DEF Attempted, Task, AllowedTaskTransitions, TaskStatus
  <2> HIDE DEF next
  <2>4. /\ DOMAIN q.tasks = DOMAIN r.tasks
        /\ \A u \in DOMAIN q.tasks : q.tasks[u] = IF u = t THEN next ELSE r.tasks[u]
    BY <2>1 DEF Updated
  <2> QED
    BY <2>3, <2>4 DEF AttemptsCounted
<1>5. ASSUME NEW t \in DOMAIN r.tasks, NEW valid \in {"valid", "invalid"},
             CanRecordOutput(r, t), q = RecordOutput(r, t, valid)
      PROVE  AttemptsCounted(q)
  <2> DEFINE next == WithOutput(r.tasks[t], valid)
  <2>1. q.tasks = Updated(r.tasks, t, next)
    BY <1>5, RecordOutputEffect, Zenon
  <2>2. next.status = r.tasks[t].status /\ next.attempt_count = r.tasks[t].attempt_count
    BY ChildTypes DEF WithOutput, Task
  <2> HIDE DEF next
  <2>3. /\ DOMAIN q.tasks = DOMAIN r.tasks
        /\ \A u \in DOMAIN q.tasks : q.tasks[u] = IF u = t THEN next ELSE r.tasks[u]
    BY <2>1 DEF Updated
  <2> QED
    BY <2>2, <2>3 DEF AttemptsCounted
<1>6. TaskOperation(r, q) => AttemptsCounted(q)
  BY <1>3, <1>4, <1>5, Zenon DEF TaskOperation
<1> QED
  BY <1>1, <1>6, StatusFrame, ArtifactFrame, ReviewFrame, EvaluationFrame, RecordFrame
  DEF Operation, Keeps
=============================================================================
