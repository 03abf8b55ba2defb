---------------------------- MODULE DirectorStore ----------------------------
(***************************************************************************)
(* What a Run is like that the store of ContentDirector may hold: the     *)
(* invariants of the Director's steps, part by part, as DirectorProofs     *)
(* proves them.  A Run stored by older code, which is all that InitialRuns *)
(* adds to an empty store, has to be like that too: the operations of the  *)
(* aggregate made it, called in the order in which every Director calls    *)
(* them, and a store of a format before Evaluations were attributed does   *)
(* not load (docs/adr/0026, docs/adr/0036, docs/adr/0044).                 *)
(***************************************************************************)
EXTENDS ContentDirector

\* Task.transition_to counts an attempt when it lets a Task run.
AttemptsCounted(r) ==
  \A t \in DOMAIN r.tasks :
    /\ r.tasks[t].status = "pending" => r.tasks[t].attempt_count = 0
    /\ r.tasks[t].status = "running" => r.tasks[t].attempt_count > 0

\* qa_evaluation.py opens an Evaluation with its evaluator's reference.
PendingAttributed(r) ==
  \A e \in DOMAIN r.evaluations :
    r.evaluations[e].status = "pending" => r.evaluations[e].attributed

IsJudged(r) == r.status \in {"waiting_qa", "waiting_human", "completed"}

\* _drive_running passes a Run on when all its Tasks succeeded.
JudgedDone(r) == IsJudged(r) => AllTasksSucceeded(r)

Sound(r) ==
  /\ r \in Run /\ ChildrenRestorable(r)
  /\ AttemptsCounted(r) /\ PendingAttributed(r)

IsKept(r) == Sound(r) /\ JudgedDone(r) /\ Accounted(r)

-----------------------------------------------------------------------------
(* The Tasks of a Run follow a plan and stop at a bad result.              *)

IsGood(task) == task.status = "succeeded" /\ task.output # "invalid"

TasksInOrder(r) ==
  /\ \A t \in DOMAIN r.tasks : t < Len(r.tasks) \/ IsJudged(r) => IsGood(r.tasks[t])
  /\ \A t \in DOMAIN r.tasks :
       /\ r.tasks[t].task_input.from = "output" =>
            LET source == r.tasks[t].task_input.ref
            IN  source < t /\ source \in DOMAIN r.tasks /\ r.tasks[source].output = "valid"
       /\ r.rework_count = 0 => r.tasks[t].task_input.from # "rework"
  /\ r.status \in {"created", "queued"} => r.tasks = <<>> /\ r.rework_count = 0

-----------------------------------------------------------------------------
(* Its Artifacts are drafts, but for one candidate: the one of the last    *)
(* Task, once QA looks at it, and until its rework is done.                *)

HasCandidate(r) == \E a \in DOMAIN r.artifacts : IsCandidate(r, a)

\* Nobody was asked about Artifact a yet.
IsFresh(r, a) ==
  /\ r.artifacts[a].status = "draft"
  /\ EvaluationsOf(r, a) = {} /\ ReviewsOf(r, a) = {}

ArtifactsInOrder(r) ==
  /\ \A a \in DOMAIN r.artifacts :
       /\ r.tasks[r.artifacts[a].output_ref].output = "valid"
       /\ r.status # "completed" => r.artifacts[a].status \in {"draft", "candidate", "superseded"}
       /\ IsJudged(r) /\ IsCandidate(r, a) => r.artifacts[a].output_ref = Len(r.tasks)
  /\ \A a, b \in DOMAIN r.artifacts : IsCandidate(r, a) /\ IsCandidate(r, b) => a = b
  /\ r.status \in {"created", "queued", "running"} /\ r.rework_count = 0 =>
       /\ \A a \in DOMAIN r.artifacts : r.artifacts[a].status = "draft"
       /\ r.human_reviews = <<>> /\ r.evaluations = <<>>
  /\ r.status = "waiting_qa" /\ r.rework_count = 0 => r.human_reviews = <<>>

\* The final candidate of a Run that waits for QA or for a human.
CandidateInOrder(r) ==
  LET a == FinalCandidate(r) IN
    r.status \in {"waiting_qa", "waiting_human"} /\ a # 0 =>
      /\ IsFresh(r, a) \/ IsCandidate(r, a)
      /\ r.status = "waiting_qa" => ReviewsOf(r, a) = {}
      /\ r.status = "waiting_human" /\ IsFresh(r, a) =>
           r.rework_count = 0 /\ r.human_reviews = <<>>

\* A Review is pending at the end of the Run's Reviews only, and only while
\* the Run waits for it.
ReviewsInOrder(r) ==
  \A h \in DOMAIN r.human_reviews :
    r.human_reviews[h].status = "pending" =>
      /\ h = Len(r.human_reviews) /\ r.status = "waiting_human"
      /\ r.human_reviews[h].artifact_ref = FinalCandidate(r)
      /\ IsCandidate(r, FinalCandidate(r))

-----------------------------------------------------------------------------
(* A rework adds one Task to those of its plan, n without the reworks, and *)
(* puts the Artifact of that Task in the place of the candidate.           *)

InRework(r) == r.status = "running" /\ r.rework_count > 0

ReworkInOrder(r, n) ==
  LET last == n + r.rework_count
      made == ArtifactOf(r, last)
  IN  /\ Len(r.tasks) \in {last - 1, last}
      /\ \A t \in DOMAIN r.tasks : t < last => IsGood(r.tasks[t])
      /\ made # 0 => ~HasCandidate(r) /\ IsFresh(r, made)
      /\ made = 0 =>
           /\ HasReworkSource(r)
           /\ r.artifacts[LiveCandidate(r)].output_ref = last - 1
           /\ Len(r.tasks) = last /\ r.tasks[last].task_input.from = "rework"
                => r.tasks[last].task_input.ref = LiveCandidate(r)

Planned(r) ==
  \E p \in Plans :
    /\ Matches(r, p)
    /\ IsJudged(r) => Len(r.tasks) = Len(p) + r.rework_count
    /\ InRework(r) => ReworkInOrder(r, Len(p))

ReworksAnswer(r) ==
  \A t \in DOMAIN r.tasks :
    r.tasks[t].task_input.from = "rework" =>
      LET input == r.tasks[t].task_input IN
        /\ input.review \in DOMAIN r.human_reviews /\ input.ref \in DOMAIN r.artifacts
        /\ r.human_reviews[input.review].artifact_ref = input.ref
        /\ r.human_reviews[input.review].status \in ReworkDecisions
        /\ \A a \in DOMAIN r.artifacts :
             r.artifacts[a].output_ref = t =>
               /\ r.artifacts[a].supersedes_ref = input.ref
               /\ r.artifacts[input.ref].status = "superseded"

IsOrdered(r) ==
  /\ TasksInOrder(r) /\ ArtifactsInOrder(r) /\ CandidateInOrder(r) /\ ReviewsInOrder(r)
  /\ Planned(r) /\ ReworksAnswer(r)

-----------------------------------------------------------------------------
(* A Run is put before its reviewer version by version: every rework done  *)
(* answers a review of its own, and the one review more, if there is one,  *)
(* is that of the final candidate of a Run that waits for it, or ended.    *)

IsOpen(r) == r.status \notin {"waiting_human", "completed", "failed"}

InTurn(r) ==
  /\ Len(r.human_reviews) \in {r.rework_count, r.rework_count + 1}
  /\ \A h \in 1..r.rework_count : r.human_reviews[h].status \in ReworkDecisions
  /\ \A g, h \in DOMAIN r.human_reviews :
       r.human_reviews[g].artifact_ref = r.human_reviews[h].artifact_ref => g = h
  /\ IsOpen(r) => Len(r.human_reviews) = r.rework_count
  /\ r.status = "waiting_human" =>
       \A h \in DOMAIN r.human_reviews :
         r.human_reviews[h].artifact_ref = FinalCandidate(r) <=> h = r.rework_count + 1

ASSUME StoreAssumption ==
  /\ NoRun \notin Run
  /\ \A r \in InitialRuns \ {NoRun} : IsKept(r) /\ IsOrdered(r) /\ InTurn(r)

-----------------------------------------------------------------------------
(* What an invocation at a label knows of its Run r, plan p and index i    *)
(* beyond what holds of every stored Run.                                  *)

KnowsPlan(label, r, p, i) ==
  /\ label \in {"steps", "rework", "executing", "ruling"} => Matches(r, p)
  /\ label = "drive" /\ r.status = "running" => Matches(r, p)
  /\ label = "steps" => \A t \in 1..(i - 1) : IsGood(r.tasks[t])
  /\ label \in {"rework", "executing", "ruling"} /\ r.rework_count > 0 =>
       ReworkInOrder(r, Len(p))
  /\ label \in {"rework", "executing"} /\ r.rework_count > 0 => i = Len(p) + r.rework_count
  /\ label = "ruling" =>
       \/ \E t \in DOMAIN r.tasks : ~IsGood(r.tasks[t])
       \/ LET last == Len(p) + r.rework_count
          IN  /\ Len(r.tasks) = last
              /\ r.rework_count > 0 /\ r.tasks[last].output = "valid"
                   => ArtifactOf(r, last) # 0

FollowsPlan == KnowsPlan(pc, run, plan, index)
StoreInOrder == IsStored => IsOrdered(stored)
StoreInTurn == IsStored => InTurn(stored)

-----------------------------------------------------------------------------
(* The plans a Run is taken up with differ in their steps, not in how many *)
(* there are.  Nothing in the code sees to that: it is the hypothesis of   *)
(* the theorems on refusals, and director_longer_plan shows what happens   *)
(* without it.                                                             *)
SamePlanLengths == \A p, s \in Plans : Len(p) = Len(s)
==============================================================================
