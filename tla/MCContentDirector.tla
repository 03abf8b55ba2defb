-------------------------- MODULE MCContentDirector --------------------------
(* Plans and initial stores for TLC.                                        *)
EXTENDS DirectorStore

CONSTANTS draft, edit, check

OneStep == {<<edit>>}
TwoPlans == {<<draft, edit>>, <<draft, check>>}
LongerPlan == {<<draft>>, <<draft, edit>>}

EmptyStore == {NoRun}

(* Runs the aggregate can be in but this Director does not store, which     *)
(* resume handles all the same (content_director.py resume, _continue,      *)
(* _route_human_gate; docs/adr/0026, docs/adr/0044).                        *)
Brief == [from |-> "brief", ref |-> 0, review |-> 0]
Started(r) == MoveTo(MoveTo(r, "queued"), "running")
Done(r, step) ==
  RecordOutput(TransitionTask(StartTask(r, step, Brief), Len(r.tasks) + 1, "succeeded"),
               Len(r.tasks) + 1, "valid")

\* The first step done, its Artifact made.
DraftDone == CreateArtifact(Done(Started(NewRun), draft), 1)

\* A Task nobody started yet.
PendingTaskRun == OpenTask(DraftDone, edit, ChainedInput(DraftDone, 2))
\* A Task whose Output has no Artifact.
NoArtifactRun == Done(DraftDone, edit)
\* A passed candidate waiting for a human without a review.
NoReviewRun ==
  LET r == TransitionArtifact(CreateArtifact(NoArtifactRun, 2), 2, "candidate")
      judged == RecordEvaluation(OpenEvaluation(MoveTo(r, "waiting_qa"), 2, TRUE), 1, "passed")
  IN  MoveTo(judged, "waiting_human")
\* A candidate at its review, whether or not QA is wired any more.
InReviewRun == OpenHumanReview(NoReviewRun, 2)
\* A rework whose Task succeeded and has no successor version.
NoSuccessorRun ==
  LET reviewed == SubmitReview(InReviewRun, 1, "changes_requested")
      r == MoveTo(reviewed, "running")
      opened == StartTask(r, edit, ReworkInput(r))
  IN  RecordOutput(TransitionTask(opened, 3, "succeeded"), 3, "valid")

OlderRuns ==
  {NoRun, PendingTaskRun, NoArtifactRun, NoReviewRun, InReviewRun, NoSuccessorRun}
=============================================================================
