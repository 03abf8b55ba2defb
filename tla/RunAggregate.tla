---------------------------- MODULE RunAggregate ----------------------------
(***************************************************************************)
(* One Run under every legal call of its public methods, in any order and  *)
(* by any actor: the consistency boundary domain/run.py promises to its    *)
(* callers, whatever the application layer above it does.  A call that     *)
(* raises changes nothing and is not a step.                               *)
(***************************************************************************)
EXTENDS RunOps, FiniteSets

CONSTANT Bounds   \* bound: how many children of each kind a Run may have

ASSUME BoundAssumption ==
  Bounds \subseteq [tasks : Nat, reviews : Nat, evaluations : Nat, records : Nat]

VARIABLE run    \* the aggregate root with its children

vars == <<run>>

Init == run = NewRun

IsWithin(r) ==
  \E bound \in Bounds :
    /\ Len(r.tasks) <= bound.tasks /\ Len(r.human_reviews) <= bound.reviews
    /\ Len(r.evaluations) <= bound.evaluations /\ Len(r.analytics_records) <= bound.records

\* Who may call: every mutator but submit_review is the Content Director's.
IsAuthorised(by) == by = "content_director"
IsReviewer(by) == by = "human_reviewer"

TransitionRun(to, by) ==
  /\ IsAuthorised(by)
  /\ CanTransition(run, to)
  /\ \E reason \in Reasons : run' = Transition(run, to, reason)

OpenATask(by) ==
  /\ IsAuthorised(by)
  /\ \E step \in Steps, input \in Inputs : run' = OpenTask(run, step, input)
  /\ IsWithin(run')

TransitionATask(t, to, by) ==
  /\ IsAuthorised(by)
  /\ CanTransitionTask(run, t, to)
  /\ run' = TransitionTask(run, t, to)

RecordAnOutput(t, valid, by) ==
  /\ IsAuthorised(by)
  /\ CanRecordOutput(run, t)
  /\ run' = RecordOutput(run, t, valid)

CreateAnArtifact(t, by) ==
  /\ IsAuthorised(by)
  /\ CanCreateArtifact(run, t)
  /\ run' = CreateArtifact(run, t)

CreateANextVersion(previous, t, by) ==
  /\ IsAuthorised(by)
  /\ CanCreateArtifactVersion(run, previous, t)
  /\ run' = CreateArtifactVersion(run, previous, t)

TransitionAnArtifact(a, to, by) ==
  /\ IsAuthorised(by)
  /\ CanTransitionArtifact(run, a, to)
  /\ run' = TransitionArtifact(run, a, to)

OpenAReview(a, by) ==
  /\ IsAuthorised(by)
  /\ IsCandidate(run, a)
  /\ run' = OpenHumanReview(run, a) /\ IsWithin(run')

SubmitAReview(h, decision, by) ==
  /\ IsReviewer(by)
  /\ CanSubmitReview(run, h, decision)
  /\ run' = SubmitReview(run, h, decision)

\* Mutant: also an Artifact that is no candidate any more is evaluated.
OpenAnEvaluationOnAny(a, attributed, by) ==
  /\ IsAuthorised(by)
  /\ run' = OpenEvaluation(run, a, attributed) /\ IsWithin(run')

OpenAnEvaluation(a, attributed, by) ==
  /\ IsAuthorised(by)
  /\ IsCandidate(run, a)
  /\ run' = OpenEvaluation(run, a, attributed) /\ IsWithin(run')

RecordAVerdict(e, verdict, by) ==
  /\ IsAuthorised(by)
  /\ CanRecordEvaluation(run, e, verdict)
  /\ run' = RecordEvaluation(run, e, verdict)

RecordTaskCall(t, by) ==
  /\ IsAuthorised(by)
  /\ CanRecordAnalytics(run, t)
  /\ run' = RecordAnalytics(run, t) /\ IsWithin(run')

RecordEvaluatorCall(e, by) ==
  /\ IsAuthorised(by)
  /\ CanRecordEvaluationAnalytics(run, e)
  /\ run' = RecordEvaluationAnalytics(run, e) /\ IsWithin(run')

RunNext ==
  \/ \E to \in RunStatus, by \in Actor : TransitionRun(to, by)

TaskNext ==
  \/ \E by \in Actor : OpenATask(by)
  \/ \E t \in DOMAIN run.tasks, to \in TaskStatus, by \in Actor : TransitionATask(t, to, by)
  \/ \E t \in DOMAIN run.tasks, valid \in {"valid", "invalid"}, by \in Actor :
       RecordAnOutput(t, valid, by)
  \/ \E t \in DOMAIN run.tasks, by \in Actor : RecordTaskCall(t, by)

ArtifactNext ==
  \/ \E t \in DOMAIN run.tasks, by \in Actor : CreateAnArtifact(t, by)
  \/ \E a \in DOMAIN run.artifacts, t \in DOMAIN run.tasks, by \in Actor :
       CreateANextVersion(a, t, by)
  \/ \E a \in DOMAIN run.artifacts, to \in ArtifactStatus, by \in Actor :
       TransitionAnArtifact(a, to, by)

ReviewNext ==
  \/ \E a \in DOMAIN run.artifacts, by \in Actor : OpenAReview(a, by)
  \/ \E h \in DOMAIN run.human_reviews, decision \in ReviewStatus, by \in Actor :
       SubmitAReview(h, decision, by)

EvaluationNext ==
  \/ \E a \in DOMAIN run.artifacts, attributed \in BOOLEAN, by \in Actor :
       OpenAnEvaluation(a, attributed, by)
  \/ \E e \in DOMAIN run.evaluations, verdict \in EvaluationStatus, by \in Actor :
       RecordAVerdict(e, verdict, by)
  \/ \E e \in DOMAIN run.evaluations, by \in Actor : RecordEvaluatorCall(e, by)

Next == RunNext \/ TaskNext \/ ArtifactNext \/ ReviewNext \/ EvaluationNext

Spec == Init /\ [][Next]_vars

-----------------------------------------------------------------------------
(* Every field of the Run keeps its shape: statuses are the enums', the    *)
(* rework counter and every attempt counter stay within their policies.    *)
TypeOK == run \in Run

(* The approval gate is fail-closed for good: an Artifact that is approved *)
(* or published has an approving Human Review, and the last Evaluation     *)
(* opened on it is passed - also after every later call, such as the late  *)
(* verdict of an Evaluation opened earlier or one more review.             *)
ApprovalGate ==
  \A a \in DOMAIN run.artifacts :
    run.artifacts[a].status \in {"approved", "published"}
      => HasApprovedReview(run, a) /\ QaPassed(run, a)

(* The versions of an Artifact form a line: a version above 1 supersedes   *)
(* an earlier Artifact whose version is one less and which is superseded;  *)
(* an Artifact is superseded by exactly one successor, or by none while it *)
(* is not superseded.  (create_artifact_version does both halves at once.) *)
VersionChain ==
  \A a \in DOMAIN run.artifacts :
    LET previous == run.artifacts[a].supersedes_ref
        successors == {b \in DOMAIN run.artifacts : run.artifacts[b].supersedes_ref = a}
    IN  /\ previous = 0 => run.artifacts[a].version = 1
        /\ previous # 0 => /\ previous \in 1..(a - 1)
                           /\ run.artifacts[previous].version = run.artifacts[a].version - 1
        /\ IF run.artifacts[a].status = "superseded"
             THEN \E b \in successors : successors = {b}
             ELSE successors = {}

(* What restore verifies of the children, it verifies of every reachable   *)
(* Run: attempts in their bound, Outputs only on succeeded Tasks, one      *)
(* Artifact per Output, references and attributions that resolve.  So a    *)
(* snapshot of a Run that is not completed is always admitted again.       *)
SnapshotRestorable ==
  /\ ChildrenRestorable(run)
  /\ run.status # "completed" => IsRestorable(run)

(* The claim of the snapshot property's docstring (domain/run.py:486):     *)
(* Run.restore(run.snapshot) gives back the Run, in whatever state.        *)
EverySnapshotRestores == IsRestorable(run)

\* How many elements of s satisfy P.
CountOf(s, P(_)) == Cardinality({i \in DOMAIN s : P(s[i])})

(* The journal agrees with the state it is the history of: each kind of    *)
(* event was emitted once for each child (or Run status) that calls for    *)
(* it, and never for a step that emits none (a retry, an invalid Output, a *)
(* request for changes).  A Run that left queued for running started once. *)
JournalAgrees ==
  LET n == run.events IN
    /\ n["RunCreated"] = 1
    /\ n["RunQueued"] <= 1 /\ n["RunStarted"] <= n["RunQueued"]
    /\ run.status \notin {"created", "queued", "failed"} => n["RunStarted"] = 1
    /\ (n["RunCompleted"] = 1) <=> (run.status = "completed")
    /\ (n["RunFailed"] = 1) <=> (run.status = "failed")
    /\ n["RunCompleted"] + n["RunFailed"] <= 1
    /\ n["TaskCreated"] = Len(run.tasks)
    /\ n["TaskStarted"] = CountOf(run.tasks, LAMBDA t : t.attempt_count > 0)
    /\ n["TaskCompleted"] = CountOf(run.tasks, LAMBDA t : t.status = "succeeded")
    /\ n["TaskFailed"] = CountOf(run.tasks, LAMBDA t : t.status = "failed")
    /\ n["OutputValidated"] = CountOf(run.tasks, LAMBDA t : t.output = "valid")
    /\ n["ArtifactCreated"] = Len(run.artifacts)
    /\ n["HumanReviewRequested"] = Len(run.human_reviews)
    /\ n["HumanReviewApproved"] = CountOf(run.human_reviews, LAMBDA h : h.status = "approved")
    /\ n["HumanReviewRejected"] = CountOf(run.human_reviews, LAMBDA h : h.status = "rejected")
    /\ n["EvaluationCompleted"] = CountOf(run.evaluations, LAMBDA e : e.status # "pending")
    /\ n["AnalyticsRecordCaptured"] = Len(run.analytics_records)

(* What is decided stays decided: a terminal Run, a terminal Task and its  *)
(* Output, a decided review, a recorded verdict and an Analytics Record    *)
(* are never changed, and no child ever disappears.                        *)
DecisionsAreFinal ==
  [][/\ run.status \in {"completed", "failed"} => run'.status = run.status
     /\ \A t \in DOMAIN run.tasks :
          /\ t \in DOMAIN run'.tasks
          /\ IsTerminalTask(run.tasks[t]) => run'.tasks[t].status = run.tasks[t].status
          /\ run.tasks[t].output # "none" => run'.tasks[t] = run.tasks[t]
     /\ \A a \in DOMAIN run.artifacts :
          /\ a \in DOMAIN run'.artifacts
          /\ run.artifacts[a].status \in {"published", "rejected", "superseded"}
               => run'.artifacts[a] = run.artifacts[a]
     /\ \A h \in DOMAIN run.human_reviews :
          /\ h \in DOMAIN run'.human_reviews
          /\ run.human_reviews[h].status # "pending"
               => run'.human_reviews[h] = run.human_reviews[h]
     /\ \A e \in DOMAIN run.evaluations :
          /\ e \in DOMAIN run'.evaluations
          /\ run.evaluations[e].status # "pending"
               => run'.evaluations[e] = run.evaluations[e]
     /\ \A k \in DOMAIN run.analytics_records :
          k \in DOMAIN run'.analytics_records
            /\ run'.analytics_records[k] = run.analytics_records[k]]_vars
=============================================================================
