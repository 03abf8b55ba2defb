------------------------------ MODULE RunProofs ------------------------------
(***************************************************************************)
(* What holds of every Run, whatever the policies, the bounds and the      *)
(* order of the calls: proofs about RunAggregate.  A step of RunAggregate  *)
(* is one operation of RunOps, so each proof says what that operation does *)
(* to the part of the Run the property reads.                              *)
(***************************************************************************)
EXTENDS RunAggregate, RunOpsProofs, FiniteSetTheorems

(* A step of the aggregate is one operation.                               *)
LEMMA StepIsOperation ==
  ASSUME run \in Run, [Next]_vars
  PROVE  run' = run \/ Operation(run, run')
<1>1. CASE RunNext
  BY <1>1 DEF RunNext, TransitionRun, Operation, StatusOperation
<1>2. CASE TaskNext
  BY <1>2 DEF TaskNext, OpenATask, TransitionATask, RecordAnOutput, RecordTaskCall,
     Operation, TaskOperation, RecordOperation
<1>3. CASE ArtifactNext
  BY <1>3 DEF ArtifactNext, CreateAnArtifact, CreateANextVersion, TransitionAnArtifact,
     Operation, ArtifactOperation
<1>4. CASE ReviewNext
  BY <1>4 DEF ReviewNext, OpenAReview, SubmitAReview, Operation, ReviewOperation
<1>5. CASE EvaluationNext
  BY <1>5 DEF EvaluationNext, OpenAnEvaluation, RecordAVerdict, RecordEvaluatorCall,
     Operation, EvaluationOperation, RecordOperation
<1> QED
  BY <1>1, <1>2, <1>3, <1>4, <1>5 DEF Next, vars

(* Every field of the Run keeps its shape, and both retry counters stay    *)
(* within their policies, under every sequence of legal calls.             *)
THEOREM TypeCorrect == Spec => []TypeOK
<1>1. Init => TypeOK
  BY NewRunTyped DEF Init, TypeOK
<1>2. TypeOK /\ [Next]_vars => TypeOK'
  <2> SUFFICES ASSUME run \in Run, [Next]_vars
               PROVE  run' \in Run
    BY DEF TypeOK
  <2> QED
    BY StepIsOperation, OperationTyped
<1> QED
  BY <1>1, <1>2, PTL DEF Spec

-----------------------------------------------------------------------------
(* The children a snapshot holds are always admitted again (run.py         *)
(* restore): with the types, what restore verifies is inductive.           *)
LEMMA ChildrenCorrect == Spec => [](TypeOK /\ ChildrenRestorable(run))
<1>1. Init => TypeOK /\ ChildrenRestorable(run)
  BY NewRunTyped, NewRunRestorable DEF Init, TypeOK
<1>2. TypeOK /\ ChildrenRestorable(run) /\ [Next]_vars => (TypeOK /\ ChildrenRestorable(run))'
  <2> SUFFICES ASSUME run \in Run, ChildrenRestorable(run), [Next]_vars
               PROVE  run' \in Run /\ ChildrenRestorable(run')
    BY DEF TypeOK
  <2> QED
    BY StepIsOperation, OperationTyped, OperationRestorable
<1> QED
  BY <1>1, <1>2, PTL DEF Spec

(* A snapshot of a Run that is not completed is always admitted again: the *)
(* code's restore never refuses what the code's own calls produced.        *)
THEOREM SnapshotsRestore == Spec => []SnapshotRestorable
<1>1. ChildrenRestorable(run) => SnapshotRestorable
  BY DEF SnapshotRestorable, IsRestorable
<1> QED
  BY <1>1, ChildrenCorrect, PTL

(* What is decided stays decided: terminal Runs and Tasks, Outputs, decided *)
(* reviews, verdicts and Analytics Records are never changed by any later   *)
(* call, and no child is lost.                                              *)
THEOREM DecisionsStand == Spec => DecisionsAreFinal
<1> DEFINE Kept ==
      /\ run.status \in {"completed", "failed"} => run'.status = run.status
      /\ \A t \in DOMAIN run.tasks :
           /\ t \in DOMAIN run'.tasks
           /\ IsTerminalTask(run.tasks[t]) => run'.tasks[t].status = run.tasks[t].status
           /\ run.tasks[t].output # "none" => run'.tasks[t] = run.tasks[t]
      /\ \A a \in DOMAIN run.artifacts :
           /\ a \in DOMAIN run'.artifacts
           /\ run.artifacts[a].status \in {"published", "rejected", "superseded"}
                => run'.artifacts[a] = run.artifacts[a]
      /\ \A h \in DOMAIN run.human_reviews :
           /\ h \in DOMAIN run'.human_reviews
           /\ run.human_reviews[h].status # "pending"
                => run'.human_reviews[h] = run.human_reviews[h]
      /\ \A e \in DOMAIN run.evaluations :
           /\ e \in DOMAIN run'.evaluations
           /\ run.evaluations[e].status # "pending"
                => run'.evaluations[e] = run.evaluations[e]
      /\ \A k \in DOMAIN run.analytics_records :
           k \in DOMAIN run'.analytics_records
             /\ run'.analytics_records[k] = run.analytics_records[k]
<1>1. TypeOK /\ ChildrenRestorable(run) /\ [Next]_vars => [Kept]_vars
  <2> SUFFICES ASSUME run \in Run, TaskStatesRestorable(run), Operation(run, run')
               PROVE  Kept
    BY StepIsOperation DEF TypeOK, ChildrenRestorable, vars
  <2>1. Grows(run, run')
    BY OperationGrows
  <2> QED
    BY <2>1 DEF Grows, TasksGrow, ArtifactsGrow, ReviewsGrow, EvaluationsGrow, RecordsGrow
<1>2. [][Kept]_vars => DecisionsAreFinal
  BY DEF DecisionsAreFinal
<1> QED
  BY <1>1, <1>2, ChildrenCorrect, PTL DEF Spec

-----------------------------------------------------------------------------
(* The approval gate as a predicate of a Run, and what each kind of change *)
(* does to it.                                                             *)
IsApproved(r, a) == r.artifacts[a].status \in {"approved", "published"}
GateHolds(r) ==
  \A a \in DOMAIN r.artifacts : IsApproved(r, a) => HasApprovedReview(r, a) /\ QaPassed(r, a)

(* The gate reads Artifacts, Human Reviews and Evaluations and nothing     *)
(* else.                                                                   *)
LEMMA GateFrame ==
  ASSUME NEW r, NEW q, GateHolds(r), q.artifacts = r.artifacts,
         q.human_reviews = r.human_reviews, q.evaluations = r.evaluations
  PROVE  GateHolds(q)
BY DEF GateHolds, IsApproved, HasApprovedReview, QaPassed, ReviewsOf, EvaluationsOf

(* A new draft asks nothing of the gate.                                   *)
LEMMA GateNewArtifact ==
  ASSUME NEW r \in Run, NEW q \in Run, NEW draft, GateHolds(r),
         draft.status = "draft", q.artifacts = Append(r.artifacts, draft),
         q.human_reviews = r.human_reviews, q.evaluations = r.evaluations
  PROVE  GateHolds(q)
<1> SUFFICES ASSUME NEW a \in DOMAIN q.artifacts, IsApproved(q, a)
             PROVE  HasApprovedReview(q, a) /\ QaPassed(q, a)
  BY DEF GateHolds
<1>1. r.artifacts \in Seq(Artifact)
  BY DEF Run
<1>2. a \in DOMAIN r.artifacts /\ q.artifacts[a] = r.artifacts[a]
  BY <1>1 DEF IsApproved
<1> QED
  BY <1>2 DEF GateHolds, IsApproved, HasApprovedReview, QaPassed, ReviewsOf, EvaluationsOf

(* An Artifact changes its status: it passes the gate or needs no passage. *)
LEMMA GateArtifactStatus ==
  ASSUME NEW r \in Run, NEW q, NEW a \in DOMAIN r.artifacts, NEW to, GateHolds(r),
         to \in {"approved", "published"} => HasApprovedReview(r, a) /\ QaPassed(r, a),
         q.artifacts = Updated(r.artifacts, a, WithStatus(r.artifacts[a], to)),
         q.human_reviews = r.human_reviews, q.evaluations = r.evaluations
  PROVE  GateHolds(q)
<1>1. r.artifacts \in Seq(Artifact) /\ r.artifacts[a] \in Artifact
  BY DEF Run
<1>2. /\ DOMAIN q.artifacts = DOMAIN r.artifacts
      /\ q.artifacts[a].status = to
      /\ \A b \in DOMAIN r.artifacts : b # a => q.artifacts[b] = r.artifacts[b]
  BY <1>1 DEF Artifact, Updated, WithStatus
<1> QED
  BY <1>2 DEF GateHolds, IsApproved, HasApprovedReview, QaPassed, ReviewsOf, EvaluationsOf

(* Human Reviews may be added and decided, approvals are not taken back.   *)
LEMMA GateReviews ==
  ASSUME NEW r, NEW q, GateHolds(r),
         q.artifacts = r.artifacts, q.evaluations = r.evaluations,
         DOMAIN r.human_reviews \subseteq DOMAIN q.human_reviews,
         \A h \in DOMAIN r.human_reviews :
           r.human_reviews[h].status = "approved" => q.human_reviews[h] = r.human_reviews[h]
  PROVE  GateHolds(q)
<1>1. \A a : HasApprovedReview(r, a) => HasApprovedReview(q, a)
  BY DEF HasApprovedReview, ReviewsOf
<1> QED
  BY <1>1 DEF GateHolds, IsApproved, QaPassed, EvaluationsOf

(* Evaluations may change as long as those the gate relied on still hold.  *)
LEMMA GateEvaluations ==
  ASSUME NEW r, NEW q, GateHolds(r),
         q.artifacts = r.artifacts, q.human_reviews = r.human_reviews,
         \A a \in DOMAIN r.artifacts :
           IsApproved(r, a) /\ QaPassed(r, a) => QaPassed(q, a)
  PROVE  GateHolds(q)
BY DEF GateHolds, IsApproved, HasApprovedReview, ReviewsOf

(* The gate stands under every Artifact operation: only a candidate that   *)
(* is approved and passed becomes approved.                                *)
LEMMA ArtifactOperationGate ==
  ASSUME NEW r \in Run, NEW q \in Run, GateHolds(r), ArtifactOperation(r, q)
  PROVE  GateHolds(q)
<1>1. q.human_reviews = r.human_reviews /\ q.evaluations = r.evaluations
  BY ArtifactFrame DEF Keeps
<1>2. ASSUME NEW t \in DOMAIN r.tasks, CanCreateArtifact(r, t), q = CreateArtifact(r, t)
      PROVE  GateHolds(q)
  <2> DEFINE draft == [output_ref |-> t, version |-> 1, supersedes_ref |-> 0,
                       status |-> "draft"]
  <2>1. q.artifacts = Append(r.artifacts, draft) /\ draft.status = "draft"
    BY <1>2, CreateArtifactEffect, Zenon
  <2> HIDE DEF draft
  <2> QED
    BY <1>1, <2>1, GateNewArtifact
<1>3. ASSUME NEW a \in DOMAIN r.artifacts, NEW t \in DOMAIN r.tasks,
             CanCreateArtifactVersion(r, a, t), q = CreateArtifactVersion(r, a, t)
      PROVE  GateHolds(q)
  <2> DEFINE p == TransitionArtifact(r, a, "superseded")
             draft == [output_ref |-> t, version |-> r.artifacts[a].version + 1,
                       supersedes_ref |-> a, status |-> "draft"]
  <2>1. "superseded" \in ArtifactStatus
    BY DEF ArtifactStatus
  <2>2. /\ p \in Run /\ Keeps(r, p, {"artifacts"})
        /\ p.artifacts = Updated(r.artifacts, a, WithStatus(r.artifacts[a], "superseded"))
    BY <2>1, TransitionArtifactEffect, Zenon
  <2>3. /\ q.artifacts = Append(Updated(r.artifacts, a, WithStatus(r.artifacts[a], "superseded")),
                                draft)
        /\ draft.status = "draft"
    BY <1>3, CreateArtifactVersionEffect, Zenon
  <2> HIDE DEF p, draft
  <2>4. p.human_reviews = r.human_reviews /\ p.evaluations = r.evaluations
    BY <2>2 DEF Keeps
  <2>5. GateHolds(p)
    BY <2>2, <2>4, GateArtifactStatus
  <2> QED
    BY <1>1, <2>2, <2>3, <2>4, <2>5, GateNewArtifact
<1>4. ASSUME NEW a \in DOMAIN r.artifacts, NEW to \in ArtifactStatus,
             CanTransitionArtifact(r, a, to), q = TransitionArtifact(r, a, to)
      PROVE  GateHolds(q)
  <2>1. q.artifacts = Updated(r.artifacts, a, WithStatus(r.artifacts[a], to))
    BY <1>4, TransitionArtifactEffect, Zenon
  <2>2. r.artifacts[a].status \in ArtifactStatus
    BY ChildTypes DEF Artifact
  <2>3. CASE to = "approved"
    <3>1. HasApprovedReview(r, a) /\ QaPassed(r, a)
      BY <1>4, <2>2, <2>3
      DEF CanTransitionArtifact, AllowedArtifactTransitions, ArtifactStatus
    <3> QED
      BY <1>1, <2>1, <3>1, GateArtifactStatus
  <2>4. CASE to = "published"
    <3>1. r.artifacts[a].status = "approved"
      BY <1>4, <2>2, <2>4
      DEF CanTransitionArtifact, AllowedArtifactTransitions, ArtifactStatus
    <3>2. HasApprovedReview(r, a) /\ QaPassed(r, a)
      BY <3>1 DEF GateHolds, IsApproved
    <3> QED
      BY <1>1, <2>1, <3>2, GateArtifactStatus
  <2>5. CASE to \notin {"approved", "published"}
    BY <1>1, <2>1, <2>5, GateArtifactStatus
  <2> QED
    BY <2>3, <2>4, <2>5
<1> QED
  BY <1>2, <1>3, <1>4, Zenon DEF ArtifactOperation

(* The gate stands under every review operation: no approval is withdrawn. *)
LEMMA ReviewOperationGate ==
  ASSUME NEW r \in Run, NEW q \in Run, GateHolds(r), ReviewOperation(r, q)
  PROVE  GateHolds(q)
<1>1. q.artifacts = r.artifacts /\ q.evaluations = r.evaluations
  BY ReviewFrame DEF Keeps
<1>2. ReviewsGrow(r, q)
  BY ReviewOperationGrows
<1> QED
  BY <1>1, <1>2, GateReviews DEF ReviewsGrow

(* The gate stands under every evaluation operation: an approved Artifact  *)
(* is no candidate, so no Evaluation is opened on it, and the last one has *)
(* its verdict.                                                            *)
LEMMA EvaluationOperationGate ==
  ASSUME NEW r \in Run, NEW q \in Run, GateHolds(r), EvaluationOperation(r, q)
  PROVE  GateHolds(q)
<1>1. /\ q.artifacts = r.artifacts /\ q.human_reviews = r.human_reviews
      /\ r.evaluations \in Seq(Evaluation)
  BY EvaluationFrame DEF Keeps, Run
<1>2. ASSUME NEW a \in DOMAIN r.artifacts, NEW attributed \in BOOLEAN,
             IsCandidate(r, a), q = OpenEvaluation(r, a, attributed)
      PROVE  GateHolds(q)
  <2> DEFINE opened == [artifact_ref |-> a, attributed |-> attributed,
                        status |-> "pending"]
  <2>1. a \in Nat
    BY ChildNumbers
  <2>2. q.evaluations = Append(r.evaluations, opened) /\ opened.artifact_ref = a
    BY <1>2, <2>1, OpenEvaluationEffect, Zenon
  <2>3. r.artifacts[a].status = "candidate"
    BY <1>2 DEF IsCandidate
  <2> HIDE DEF opened
  <2>4. ASSUME NEW b \in DOMAIN r.artifacts, IsApproved(r, b), QaPassed(r, b)
        PROVE  QaPassed(q, b)
    <3>1. b # a
      BY <2>3, <2>4 DEF IsApproved
    <3>2. /\ DOMAIN q.evaluations = DOMAIN r.evaluations \cup {Len(r.evaluations) + 1}
          /\ q.evaluations[Len(r.evaluations) + 1] = opened
          /\ \A e \in DOMAIN r.evaluations : q.evaluations[e] = r.evaluations[e]
      BY <1>1, <2>2
    <3>3. EvaluationsOf(q, b) = EvaluationsOf(r, b)
      BY <3>1, <3>2, <2>2 DEF EvaluationsOf
    <3> QED
      BY <3>2, <3>3, <2>4 DEF QaPassed, EvaluationsOf
  <2> QED
    BY <1>1, <2>4, GateEvaluations
<1>3. ASSUME NEW e \in DOMAIN r.evaluations, NEW verdict \in EvaluationStatus,
             CanRecordEvaluation(r, e, verdict), q = RecordEvaluation(r, e, verdict)
      PROVE  GateHolds(q)
  <2>1. q.evaluations = Updated(r.evaluations, e, WithStatus(r.evaluations[e], verdict))
    BY <1>3, RecordEvaluationEffect
  <2>2. r.evaluations[e].status = "pending" /\ r.evaluations[e] \in Evaluation
    BY <1>3, ChildTypes DEF CanRecordEvaluation
  <2>3. /\ DOMAIN q.evaluations = DOMAIN r.evaluations
        /\ q.evaluations[e].artifact_ref = r.evaluations[e].artifact_ref
        /\ \A f \in DOMAIN r.evaluations :
             f # e => q.evaluations[f] = r.evaluations[f]
    BY <1>1, <2>1, <2>2 DEF Evaluation, Updated, WithStatus
  <2>4. \A b : EvaluationsOf(q, b) = EvaluationsOf(r, b)
    BY <2>3 DEF EvaluationsOf
  <2>5. \A b : QaPassed(r, b) => QaPassed(q, b)
    BY <2>2, <2>3, <2>4 DEF QaPassed, EvaluationsOf
  <2> QED
    BY <1>1, <2>5, GateEvaluations
<1> QED
  BY <1>2, <1>3, Zenon DEF EvaluationOperation

(* An Artifact is approved or published only on an approving review and a  *)
(* passed last Evaluation (run.py transition_artifact), and no later call  *)
(* undoes either (open_evaluation takes candidates only; a verdict is      *)
(* recorded once): with the types the gate is inductive.                   *)
THEOREM GateHeld == Spec => []ApprovalGate
<1>1. Init => GateHolds(run)
  BY DEF Init, GateHolds, NewRun
<1>2. TypeOK /\ GateHolds(run) /\ [Next]_vars => GateHolds(run)'
  <2> SUFFICES ASSUME run \in Run, GateHolds(run), Operation(run, run')
               PROVE  GateHolds(run')
    BY StepIsOperation DEF TypeOK
  <2>1. run' \in Run
    BY OperationTyped
  <2>2. CASE StatusOperation(run, run')
    BY <2>2, StatusFrame, GateFrame DEF Keeps
  <2>3. CASE TaskOperation(run, run')
    BY <2>3, TaskFrame, GateFrame DEF Keeps
  <2>4. CASE RecordOperation(run, run')
    BY <2>4, RecordFrame, GateFrame DEF Keeps
  <2> QED
    BY <2>1, <2>2, <2>3, <2>4, ArtifactOperationGate, ReviewOperationGate,
       EvaluationOperationGate DEF Operation
<1>3. GateHolds(run) => ApprovalGate
  BY DEF GateHolds, IsApproved, ApprovalGate
<1> QED
  BY <1>1, <1>2, <1>3, TypeCorrect, PTL DEF Spec

-----------------------------------------------------------------------------
(* The line of versions, as a predicate of the Run's Artifacts.            *)
Successors(r, a) == {b \in DOMAIN r.artifacts : r.artifacts[b].supersedes_ref = a}
IsLinked(r, a) ==
  LET previous == r.artifacts[a].supersedes_ref
  IN  /\ previous = 0 => r.artifacts[a].version = 1
      /\ previous # 0 => /\ previous \in 1..(a - 1)
                         /\ r.artifacts[previous].version = r.artifacts[a].version - 1
IsSucceeded(r, a) ==
  IF r.artifacts[a].status = "superseded"
    THEN \E b \in Successors(r, a) : Successors(r, a) = {b}
    ELSE Successors(r, a) = {}
Chain(r) == \A a \in DOMAIN r.artifacts : IsLinked(r, a) /\ IsSucceeded(r, a)

(* A link goes back to an earlier Artifact. *)
LEMMA LinksGoBack ==
  ASSUME NEW r \in Run, Chain(r)
  PROVE  \A a \in DOMAIN r.artifacts : r.artifacts[a].supersedes_ref \in 0..(a - 1)
<1> SUFFICES ASSUME NEW a \in DOMAIN r.artifacts
             PROVE  r.artifacts[a].supersedes_ref \in 0..(a - 1)
  OBVIOUS
<1>1. r.artifacts[a].supersedes_ref \in Nat /\ a \in Nat \ {0}
  BY ChildTypes, ChildNumbers DEF Artifact
<1> QED
  BY <1>1 DEF Chain, IsLinked

(* A first version starts a line of its own.                               *)
LEMMA ChainFirstVersion ==
  ASSUME NEW r \in Run, Chain(r), NEW first, NEW q,
         first.supersedes_ref = 0, first.version = 1, first.status = "draft",
         q.artifacts = Append(r.artifacts, first)
  PROVE  Chain(q)
<1> DEFINE n == Len(r.artifacts) + 1
<1>1. /\ DOMAIN r.artifacts = 1..Len(r.artifacts) /\ Len(r.artifacts) \in Nat
      /\ DOMAIN q.artifacts = DOMAIN r.artifacts \cup {n}
      /\ q.artifacts[n] = first
      /\ \A a \in DOMAIN r.artifacts : q.artifacts[a] = r.artifacts[a]
  BY ChildNumbers DEF Run
<1>2. \A a \in DOMAIN r.artifacts : r.artifacts[a].supersedes_ref \in 0..(a - 1)
  BY LinksGoBack
<1>3. ASSUME NEW a \in DOMAIN r.artifacts
      PROVE  IsLinked(q, a) /\ IsSucceeded(q, a)
  <2>1. a \in Nat \ {0} /\ a # n
    BY <1>1
  <2>2. Successors(q, a) = Successors(r, a)
    BY <1>1, <2>1 DEF Successors
  <2>3. r.artifacts[a].supersedes_ref # 0 => r.artifacts[a].supersedes_ref \in DOMAIN r.artifacts
    BY <1>1, <1>2, <2>1
  <2> HIDE DEF n
  <2> QED
    BY <1>1, <2>2, <2>3 DEF Chain, IsLinked, IsSucceeded
<1>4. IsLinked(q, n)
  BY <1>1 DEF IsLinked
<1>5. Successors(q, n) = {}
  BY <1>1, <1>2 DEF Successors
<1> HIDE DEF n
<1> QED
  BY <1>1, <1>3, <1>4, <1>5 DEF Chain, IsSucceeded

(* A next version continues the line of the one it supersedes.             *)
LEMMA ChainNextVersion ==
  ASSUME NEW r \in Run, Chain(r), NEW p \in DOMAIN r.artifacts, NEW next, NEW q,
         r.artifacts[p].status # "superseded",
         next.supersedes_ref = p, next.version = r.artifacts[p].version + 1,
         next.status = "draft",
         q.artifacts = Append(Updated(r.artifacts, p, WithStatus(r.artifacts[p], "superseded")),
                              next)
  PROVE  Chain(q)
<1> DEFINE n == Len(r.artifacts) + 1
           ended == WithStatus(r.artifacts[p], "superseded")
           changed == Updated(r.artifacts, p, ended)
<1>1. /\ DOMAIN r.artifacts = 1..Len(r.artifacts) /\ Len(r.artifacts) \in Nat
      /\ r.artifacts \in Seq(Artifact) /\ r.artifacts[p] \in Artifact
      /\ r.artifacts[p].version \in Nat
  BY ChildNumbers, ChildTypes DEF Run, Artifact
<1>2. /\ ended \in Artifact /\ ended.status = "superseded"
      /\ ended.version = r.artifacts[p].version
      /\ ended.supersedes_ref = r.artifacts[p].supersedes_ref
  BY <1>1 DEF Artifact, ArtifactStatus, WithStatus
<1> HIDE DEF ended
<1>3. /\ changed \in Seq(Artifact) /\ Len(changed) = Len(r.artifacts)
      /\ \A a \in DOMAIN r.artifacts : a # p => changed[a] = r.artifacts[a]
      /\ changed[p] = ended
  BY <1>1, <1>2 DEF Updated
<1>4. q.artifacts = Append(changed, next)
  BY DEF ended
<1> HIDE DEF changed
<1>5. /\ DOMAIN q.artifacts = DOMAIN r.artifacts \cup {n}
      /\ q.artifacts[n] = next /\ q.artifacts[p] = ended
      /\ \A a \in DOMAIN r.artifacts : a # p => q.artifacts[a] = r.artifacts[a]
  BY <1>1, <1>3, <1>4, SMTT(20)
<1>6. \A a \in DOMAIN r.artifacts :
        /\ q.artifacts[a].version = r.artifacts[a].version
        /\ q.artifacts[a].supersedes_ref = r.artifacts[a].supersedes_ref
        /\ r.artifacts[a].supersedes_ref \in 0..(a - 1)
  BY <1>2, <1>5, LinksGoBack
<1>7. ASSUME NEW a \in DOMAIN r.artifacts
      PROVE  IsLinked(q, a)
  <2>1. r.artifacts[a].supersedes_ref # 0 => r.artifacts[a].supersedes_ref \in DOMAIN r.artifacts
    BY <1>1, <1>6
  <2>2. IsLinked(r, a)
    BY DEF Chain
  <2> QED
    BY <1>6, <2>1, <2>2 DEF IsLinked
<1>8. ASSUME NEW a \in DOMAIN r.artifacts, a # p
      PROVE  IsSucceeded(q, a)
  <2>1. Successors(q, a) = Successors(r, a)
    BY <1>5, <1>6, <1>8 DEF Successors
  <2> QED
    BY <1>5, <1>8, <2>1 DEF Chain, IsSucceeded
<1>9. Successors(q, p) = {n}
  <2>1. Successors(r, p) = {}
    BY DEF Chain, IsSucceeded
  <2>2. \A a \in DOMAIN r.artifacts : q.artifacts[a].supersedes_ref # p
    BY <1>6, <2>1 DEF Successors
  <2>3. q.artifacts[n].supersedes_ref = p
    BY <1>5
  <2> HIDE DEF n
  <2> QED
    BY <1>5, <2>2, <2>3 DEF Successors
<1>10. Successors(q, n) = {}
  BY <1>1, <1>5, <1>6 DEF Successors
<1>11. IsLinked(q, n)
  <2>1. p \in 1..(n - 1) /\ p # 0
    BY <1>1
  <2>2. q.artifacts[p].version = q.artifacts[n].version - 1
    <3>1. q.artifacts[n].version = r.artifacts[p].version + 1
      BY <1>5
    <3>2. q.artifacts[p].version = r.artifacts[p].version
      BY <1>6
    <3>3. r.artifacts[p].version = (r.artifacts[p].version + 1) - 1
      BY <1>1
    <3> QED
      BY <3>1, <3>2, <3>3, Zenon
  <2> HIDE DEF n
  <2> QED
    BY <1>5, <2>1, <2>2 DEF IsLinked
<1> HIDE DEF n
<1> QED
  BY <1>2, <1>5, <1>7, <1>8, <1>9, <1>10, <1>11 DEF Chain, IsSucceeded

(* A status other than superseded leaves the lines as they are.            *)
LEMMA ChainStatus ==
  ASSUME NEW r \in Run, Chain(r), NEW p \in DOMAIN r.artifacts, NEW to, NEW q,
         r.artifacts[p].status # "superseded", to # "superseded",
         q.artifacts = Updated(r.artifacts, p, WithStatus(r.artifacts[p], to))
  PROVE  Chain(q)
<1>1. r.artifacts \in Seq(Artifact) /\ r.artifacts[p] \in Artifact
  BY ChildTypes DEF Run
<1>2. /\ DOMAIN q.artifacts = DOMAIN r.artifacts
      /\ \A a \in DOMAIN r.artifacts :
           /\ q.artifacts[a].version = r.artifacts[a].version
           /\ q.artifacts[a].supersedes_ref = r.artifacts[a].supersedes_ref
           /\ a # p => q.artifacts[a].status = r.artifacts[a].status
      /\ q.artifacts[p].status = to
  BY <1>1, SMTT(20) DEF Updated, WithStatus, Artifact
<1>3. \A a : Successors(q, a) = Successors(r, a)
  BY <1>2 DEF Successors
<1>4. ASSUME NEW a \in DOMAIN r.artifacts
      PROVE  IsLinked(q, a) /\ IsSucceeded(q, a)
  <2>1. r.artifacts[a].supersedes_ref # 0 => r.artifacts[a].supersedes_ref \in DOMAIN r.artifacts
    BY ChildNumbers, LinksGoBack
  <2> QED
    BY <1>2, <1>3, <2>1 DEF Chain, IsLinked, IsSucceeded
<1> QED
  BY <1>2, <1>4 DEF Chain

(* The versions stay in line under every Artifact operation.               *)
LEMMA ArtifactOperationChain ==
  ASSUME NEW r \in Run, Chain(r), NEW q, ArtifactOperation(r, q)
  PROVE  Chain(q)
<1>1. ASSUME NEW t \in DOMAIN r.tasks, CanCreateArtifact(r, t), q = CreateArtifact(r, t)
      PROVE  Chain(q)
  <2> DEFINE first == [output_ref |-> t, version |-> 1, supersedes_ref |-> 0,
                       status |-> "draft"]
  <2>1. /\ q.artifacts = Append(r.artifacts, first)
        /\ first.supersedes_ref = 0 /\ first.version = 1 /\ first.status = "draft"
    BY <1>1, CreateArtifactEffect, Zenon
  <2> HIDE DEF first
  <2> QED
    BY <2>1, ChainFirstVersion
<1>2. ASSUME NEW a \in DOMAIN r.artifacts, NEW t \in DOMAIN r.tasks,
             CanCreateArtifactVersion(r, a, t), q = CreateArtifactVersion(r, a, t)
      PROVE  Chain(q)
  <2> DEFINE next == [output_ref |-> t, version |-> r.artifacts[a].version + 1,
                      supersedes_ref |-> a, status |-> "draft"]
  <2>1. /\ q.artifacts = Append(Updated(r.artifacts, a, WithStatus(r.artifacts[a], "superseded")),
                                next)
        /\ next.supersedes_ref = a /\ next.version = r.artifacts[a].version + 1
        /\ next.status = "draft"
    BY <1>2, CreateArtifactVersionEffect, Zenon
  <2>2. r.artifacts[a].status # "superseded"
    BY <1>2 DEF CanCreateArtifactVersion, AllowedArtifactTransitions
  <2> HIDE DEF next
  <2> QED
    BY <2>1, <2>2, ChainNextVersion
<1>3. ASSUME NEW a \in DOMAIN r.artifacts, NEW to \in ArtifactStatus,
             CanTransitionArtifact(r, a, to), q = TransitionArtifact(r, a, to)
      PROVE  Chain(q)
  <2>1. q.artifacts = Updated(r.artifacts, a, WithStatus(r.artifacts[a], to))
    BY <1>3, TransitionArtifactEffect, Zenon
  <2>2. r.artifacts[a].status # "superseded" /\ to # "superseded"
    BY <1>3 DEF CanTransitionArtifact, AllowedArtifactTransitions
  <2> QED
    BY <2>1, <2>2, ChainStatus
<1> QED
  BY <1>1, <1>2, <1>3, Zenon DEF ArtifactOperation

(* The versions of an Artifact form a line, whatever is created, reworked   *)
(* or transitioned in between (run.py create_artifact_version does both     *)
(* halves of a succession at once, and transition_artifact refuses          *)
(* SUPERSEDED).                                                             *)
THEOREM VersionsChain == Spec => []VersionChain
<1>1. Init => Chain(run)
  BY DEF Init, Chain, NewRun
<1>2. TypeOK /\ Chain(run) /\ [Next]_vars => Chain(run)'
  <2> SUFFICES ASSUME run \in Run, Chain(run), Operation(run, run')
               PROVE  Chain(run')
    BY StepIsOperation DEF TypeOK
  <2>1. CASE ArtifactOperation(run, run')
    BY <2>1, ArtifactOperationChain
  <2>2. CASE run'.artifacts = run.artifacts
    BY <2>2 DEF Chain, IsLinked, IsSucceeded, Successors
  <2> QED
    BY <2>1, <2>2, StatusFrame, TaskFrame, ReviewFrame, EvaluationFrame, RecordFrame
    DEF Operation, Keeps
<1>3. Chain(run) => VersionChain
  BY DEF Chain, IsLinked, IsSucceeded, Successors, VersionChain
<1> QED
  BY <1>1, <1>2, <1>3, TypeCorrect, PTL DEF Spec

-----------------------------------------------------------------------------
(* The journal, part by part: which kinds of event each group of           *)
(* operations emits, and what each kind counts.                            *)
StatusEvents == {"RunCreated", "RunQueued", "RunStarted", "RunCompleted", "RunFailed"}
TaskEvents == {"TaskCreated", "TaskStarted", "TaskCompleted", "TaskFailed", "OutputValidated"}
ReviewEvents == {"HumanReviewRequested", "HumanReviewApproved", "HumanReviewRejected"}

StatusJournal(r) ==
  LET n == r.events IN
    /\ n["RunCreated"] = 1
    /\ n["RunQueued"] <= 1 /\ n["RunStarted"] <= n["RunQueued"]
    /\ r.status = "created" => n["RunQueued"] = 0
    /\ r.status \notin {"created", "failed"} => n["RunQueued"] = 1
    /\ r.status = "queued" => n["RunStarted"] = 0
    /\ r.status \notin {"created", "queued", "failed"} => n["RunStarted"] = 1
    /\ n["RunCompleted"] = IF r.status = "completed" THEN 1 ELSE 0
    /\ n["RunFailed"] = IF r.status = "failed" THEN 1 ELSE 0

StartedTasks(r) == {t \in DOMAIN r.tasks : r.tasks[t].attempt_count > 0}
TasksIn(r, status) == {t \in DOMAIN r.tasks : r.tasks[t].status = status}
ValidTasks(r) == {t \in DOMAIN r.tasks : r.tasks[t].output = "valid"}
TaskJournal(r) ==
  /\ AttemptsCounted(r)
  /\ r.events["TaskCreated"] = Len(r.tasks)
  /\ r.events["TaskStarted"] = Cardinality(StartedTasks(r))
  /\ r.events["TaskCompleted"] = Cardinality(TasksIn(r, "succeeded"))
  /\ r.events["TaskFailed"] = Cardinality(TasksIn(r, "failed"))
  /\ r.events["OutputValidated"] = Cardinality(ValidTasks(r))

ArtifactJournal(r) == r.events["ArtifactCreated"] = Len(r.artifacts)

ReviewsIn(r, status) == {h \in DOMAIN r.human_reviews : r.human_reviews[h].status = status}
ReviewJournal(r) ==
  /\ r.events["HumanReviewRequested"] = Len(r.human_reviews)
  /\ r.events["HumanReviewApproved"] = Cardinality(ReviewsIn(r, "approved"))
  /\ r.events["HumanReviewRejected"] = Cardinality(ReviewsIn(r, "rejected"))

JudgedEvaluations(r) == {e \in DOMAIN r.evaluations : r.evaluations[e].status # "pending"}
EvaluationJournal(r) == r.events["EvaluationCompleted"] = Cardinality(JudgedEvaluations(r))

RecordJournal(r) == r.events["AnalyticsRecordCaptured"] = Len(r.analytics_records)

JournalHolds(r) ==
  /\ StatusJournal(r) /\ TaskJournal(r) /\ ArtifactJournal(r)
  /\ ReviewJournal(r) /\ EvaluationJournal(r) /\ RecordJournal(r)

(* One more child in a count of children. *)
LEMMA OneMore ==
  ASSUME NEW n \in Nat, NEW S \in SUBSET (1..n), NEW x, x \notin S
  PROVE  Cardinality(S \cup {x}) = Cardinality(S) + 1 /\ Cardinality(S) \in Nat
<1>1. IsFiniteSet(S)
  <2>1. IsFiniteSet(1..n)
    BY FS_Interval
  <2> QED
    BY <2>1, FS_Subset
<1>2. Cardinality(S) \in Nat
  BY <1>1, FS_CardinalityType
<1>3. Cardinality(S \cup {x}) = IF x \in S THEN Cardinality(S) ELSE Cardinality(S) + 1
  BY <1>1, FS_AddElement, Zenon
<1> QED
  BY <1>2, <1>3

(* Reading the journal after an emit.                                      *)
LEMMA JournalRead ==
  ASSUME NEW r \in Run, NEW kinds, NEW k \in EventKind
  PROVE  /\ r.events[k] \in Nat
         /\ Journal(r, kinds)[k] = IF k \in kinds THEN r.events[k] + 1 ELSE r.events[k]
BY DEF Run, Journal

(* A transition of the Run emits what its new status calls for.            *)
LEMMA StatusJournalKept ==
  ASSUME NEW r \in Run, NEW q \in Run, StatusJournal(r), StatusOperation(r, q)
  PROVE  StatusJournal(q)
<1>1. PICK to \in RunStatus, reason \in Reasons \cup {NoReason} :
        CanTransition(r, to) /\ q = Transition(r, to, reason)
  BY DEF StatusOperation
<1>2. q.status = to /\ q.events = Journal(r, RunEventFor(r.status, to))
  BY <1>1, TransitionEffect, Zenon
<1>3. \A k \in EventKind :
        /\ r.events[k] \in Nat
        /\ q.events[k] = IF k \in RunEventFor(r.status, to) THEN r.events[k] + 1
                                                           ELSE r.events[k]
  BY <1>2, JournalRead
<1>4. StatusEvents \subseteq EventKind
  BY DEF StatusEvents, EventKind
<1>5. \A k \in StatusEvents :
        /\ r.events[k] \in Nat
        /\ q.events[k] = IF k \in RunEventFor(r.status, to) THEN r.events[k] + 1
                                                           ELSE r.events[k]
  BY <1>3, <1>4
<1>6. r.status \in RunStatus /\ to \in AllowedTransitions[r.status]
  BY <1>1 DEF Run, CanTransition
<1>7. CASE to = "queued"
  <2>1. r.status = "created" /\ RunEventFor(r.status, to) = {"RunQueued"}
    BY <1>6, <1>7 DEF AllowedTransitions, RunStatus, RunEventFor
  <2> QED
    BY <1>2, <1>5, <1>7, <2>1 DEF StatusJournal, StatusEvents
<1>8. CASE to = "running" /\ r.status = "queued"
  <2>1. RunEventFor(r.status, to) = {"RunStarted"}
    BY <1>8 DEF RunEventFor
  <2> QED
    BY <1>2, <1>5, <1>8, <2>1 DEF StatusJournal, StatusEvents
<1>9. CASE to = "completed"
  <2>1. r.status = "waiting_human" /\ RunEventFor(r.status, to) = {"RunCompleted"}
    BY <1>6, <1>9 DEF AllowedTransitions, RunStatus, RunEventFor
  <2> QED
    BY <1>2, <1>5, <1>9, <2>1 DEF StatusJournal, StatusEvents
<1>10. CASE to = "failed"
  <2>1. r.status \notin {"completed", "failed"} /\ RunEventFor(r.status, to) = {"RunFailed"}
    BY <1>6, <1>10 DEF AllowedTransitions, RunStatus, RunEventFor
  <2> QED
    BY <1>2, <1>5, <1>10, <2>1 DEF StatusJournal, StatusEvents
<1>11. CASE to \notin {"queued", "completed", "failed"} /\ ~(to = "running" /\ r.status = "queued")
  <2>1. /\ r.status \in {"running", "waiting_qa", "waiting_human"}
        /\ to \in {"running", "waiting_qa", "waiting_human"}
        /\ RunEventFor(r.status, to) = {}
    BY <1>6, <1>11 DEF AllowedTransitions, RunStatus, RunEventFor
  <2> QED
    BY <1>2, <1>5, <2>1 DEF StatusJournal, StatusEvents
<1> QED
  BY <1>7, <1>8, <1>9, <1>10, <1>11

(* What an operation leaves of the journal: every kind but those in kinds. *)
JournalsOnly(r, q, kinds) == \A k \in EventKind \ kinds : q.events[k] = r.events[k]

(* A transition of the Run emits Run events only.                          *)
LEMMA StatusJournalsOnly ==
  ASSUME NEW r \in Run, NEW q, StatusOperation(r, q)
  PROVE  JournalsOnly(r, q, StatusEvents)
<1>1. PICK to \in RunStatus, reason \in Reasons \cup {NoReason} :
        CanTransition(r, to) /\ q = Transition(r, to, reason)
  BY DEF StatusOperation
<1>2. q.events = Journal(r, RunEventFor(r.status, to))
  BY <1>1, TransitionEffect, Zenon
<1>3. RunEventFor(r.status, to) \subseteq StatusEvents
  BY DEF RunEventFor, StatusEvents
<1> QED
  BY <1>2, <1>3 DEF JournalsOnly, Journal

(* A Task operation emits Task events only.                                *)
LEMMA TaskJournalsOnly ==
  ASSUME NEW r \in Run, NEW q, TaskOperation(r, q)
  PROVE  JournalsOnly(r, q, TaskEvents)
<1>1. ASSUME NEW step \in Steps, NEW input \in Inputs, q = OpenTask(r, step, input)
      PROVE  JournalsOnly(r, q, TaskEvents)
  <2>1. q.events = Journal(r, {"TaskCreated"})
    BY <1>1, OpenTaskEffect, Zenon
  <2> QED
    BY <2>1 DEF JournalsOnly, Journal, TaskEvents
<1>2. ASSUME NEW t \in DOMAIN r.tasks, NEW to \in TaskStatus,
             CanTransitionTask(r, t, to), q = TransitionTask(r, t, to)
      PROVE  JournalsOnly(r, q, TaskEvents)
  <2>1. q.events = Journal(r, TaskEventFor(r.tasks[t].status, to))
    BY <1>2, TransitionTaskEffect, Zenon
  <2>2. TaskEventFor(r.tasks[t].status, to) \subseteq TaskEvents
    BY DEF TaskEventFor, TaskEvents
  <2> QED
    BY <2>1, <2>2 DEF JournalsOnly, Journal
<1>3. ASSUME NEW t \in DOMAIN r.tasks, NEW valid \in {"valid", "invalid"},
             CanRecordOutput(r, t), q = RecordOutput(r, t, valid)
      PROVE  JournalsOnly(r, q, TaskEvents)
  <2>1. q.events = Journal(r, IF valid = "valid" THEN {"OutputValidated"} ELSE {})
    BY <1>3, RecordOutputEffect, Zenon
  <2> QED
    BY <2>1 DEF JournalsOnly, Journal, TaskEvents
<1> QED
  BY <1>1, <1>2, <1>3, Zenon DEF TaskOperation

(* An Artifact operation emits ArtifactCreated only.                       *)
LEMMA ArtifactJournalsOnly ==
  ASSUME NEW r \in Run, NEW q, ArtifactOperation(r, q)
  PROVE  JournalsOnly(r, q, {"ArtifactCreated"})
<1>1. ASSUME NEW t \in DOMAIN r.tasks, CanCreateArtifact(r, t), q = CreateArtifact(r, t)
      PROVE  JournalsOnly(r, q, {"ArtifactCreated"})
  <2>1. q.events = Journal(r, {"ArtifactCreated"})
    BY <1>1, CreateArtifactEffect, Zenon
  <2> QED
    BY <2>1 DEF JournalsOnly, Journal
<1>2. ASSUME NEW a \in DOMAIN r.artifacts, NEW t \in DOMAIN r.tasks,
             CanCreateArtifactVersion(r, a, t), q = CreateArtifactVersion(r, a, t)
      PROVE  JournalsOnly(r, q, {"ArtifactCreated"})
  <2>1. q.events = Journal(r, {"ArtifactCreated"})
    BY <1>2, CreateArtifactVersionEffect, Zenon
  <2> QED
    BY <2>1 DEF JournalsOnly, Journal
<1>3. ASSUME NEW a \in DOMAIN r.artifacts, NEW to \in ArtifactStatus,
             CanTransitionArtifact(r, a, to), q = TransitionArtifact(r, a, to)
      PROVE  JournalsOnly(r, q, {"ArtifactCreated"})
  <2>1. q.events = r.events
    BY <1>3, TransitionArtifactEffect, Zenon
  <2> QED
    BY <2>1 DEF JournalsOnly
<1> QED
  BY <1>1, <1>2, <1>3, Zenon DEF ArtifactOperation

(* A review operation emits review events only.                            *)
LEMMA ReviewJournalsOnly ==
  ASSUME NEW r \in Run, NEW q, ReviewOperation(r, q)
  PROVE  JournalsOnly(r, q, ReviewEvents)
<1>1. ASSUME NEW a \in DOMAIN r.artifacts, q = OpenHumanReview(r, a)
      PROVE  JournalsOnly(r, q, ReviewEvents)
  <2>1. a \in Nat
    BY ChildNumbers
  <2>2. q.events = Journal(r, {"HumanReviewRequested"})
    BY <1>1, <2>1, OpenHumanReviewEffect, Zenon
  <2> QED
    BY <2>2 DEF JournalsOnly, Journal, ReviewEvents
<1>2. ASSUME NEW h \in DOMAIN r.human_reviews, NEW decision \in ReviewStatus,
             CanSubmitReview(r, h, decision), q = SubmitReview(r, h, decision)
      PROVE  JournalsOnly(r, q, ReviewEvents)
  <2>1. q.events = Journal(r, ReviewEventFor(decision))
    BY <1>2, SubmitReviewEffect, Zenon
  <2>2. ReviewEventFor(decision) \subseteq ReviewEvents
    BY DEF ReviewEventFor, ReviewEvents
  <2> QED
    BY <2>1, <2>2 DEF JournalsOnly, Journal
<1> QED
  BY <1>1, <1>2, Zenon DEF ReviewOperation

(* An evaluation operation emits EvaluationCompleted only.                 *)
LEMMA EvaluationJournalsOnly ==
  ASSUME NEW r \in Run, NEW q, EvaluationOperation(r, q)
  PROVE  JournalsOnly(r, q, {"EvaluationCompleted"})
<1>1. ASSUME NEW a \in DOMAIN r.artifacts, NEW attributed \in BOOLEAN,
             q = OpenEvaluation(r, a, attributed)
      PROVE  JournalsOnly(r, q, {"EvaluationCompleted"})
  <2>1. a \in Nat
    BY ChildNumbers
  <2>2. q.events = r.events
    BY <1>1, <2>1, OpenEvaluationEffect, Zenon
  <2> QED
    BY <2>2 DEF JournalsOnly
<1>2. ASSUME NEW e \in DOMAIN r.evaluations, NEW verdict \in EvaluationStatus,
             CanRecordEvaluation(r, e, verdict), q = RecordEvaluation(r, e, verdict)
      PROVE  JournalsOnly(r, q, {"EvaluationCompleted"})
  <2>1. q.events = Journal(r, {"EvaluationCompleted"})
    BY <1>2, RecordEvaluationEffect, Zenon
  <2> QED
    BY <2>1 DEF JournalsOnly, Journal
<1> QED
  BY <1>1, <1>2, Zenon DEF EvaluationOperation

(* A captured record emits AnalyticsRecordCaptured only.                   *)
LEMMA RecordJournalsOnly ==
  ASSUME NEW r \in Run, NEW q, RecordOperation(r, q)
  PROVE  JournalsOnly(r, q, {"AnalyticsRecordCaptured"})
<1>1. q.events = Journal(r, {"AnalyticsRecordCaptured"})
  BY RecordAnalyticsEffect, RecordEvaluationAnalyticsEffect, Zenon DEF RecordOperation
<1> QED
  BY <1>1 DEF JournalsOnly, Journal

(* Which Tasks count towards what, after one is appended or replaced. *)
LEMMA TaskAdded ==
  ASSUME NEW r \in Run, NEW q \in Run, NEW task, q.tasks = Append(r.tasks, task),
         task.status = "pending", task.attempt_count = 0, task.output = "none"
  PROVE  /\ StartedTasks(q) = StartedTasks(r) /\ ValidTasks(q) = ValidTasks(r)
         /\ TasksIn(q, "succeeded") = TasksIn(r, "succeeded")
         /\ TasksIn(q, "failed") = TasksIn(r, "failed")
         /\ Len(q.tasks) = Len(r.tasks) + 1
<1>1. r.tasks \in Seq(Task)
  BY DEF Run
<1>2. /\ DOMAIN q.tasks = DOMAIN r.tasks \cup {Len(r.tasks) + 1}
      /\ Len(q.tasks) = Len(r.tasks) + 1
      /\ q.tasks[Len(r.tasks) + 1] = task
      /\ \A t \in DOMAIN r.tasks : q.tasks[t] = r.tasks[t]
  BY <1>1
<1> QED
  BY <1>2 DEF StartedTasks, ValidTasks, TasksIn

(* The same after a Task was replaced.                                     *)
LEMMA TaskReplaced ==
  ASSUME NEW r \in Run, NEW q \in Run, NEW t \in DOMAIN r.tasks, NEW task,
         q.tasks = Updated(r.tasks, t, task)
  PROVE  /\ StartedTasks(q)
             = (StartedTasks(r) \ {t}) \cup {u \in {t} : task.attempt_count > 0}
         /\ ValidTasks(q) = (ValidTasks(r) \ {t}) \cup {u \in {t} : task.output = "valid"}
         /\ TasksIn(q, "succeeded")
             = (TasksIn(r, "succeeded") \ {t}) \cup {u \in {t} : task.status = "succeeded"}
         /\ TasksIn(q, "failed")
             = (TasksIn(r, "failed") \ {t}) \cup {u \in {t} : task.status = "failed"}
         /\ Len(q.tasks) = Len(r.tasks)
<1>1. r.tasks \in Seq(Task)
  BY DEF Run
<1>2. /\ DOMAIN q.tasks = DOMAIN r.tasks /\ Len(q.tasks) = Len(r.tasks)
      /\ q.tasks[t] = task
      /\ \A u \in DOMAIN r.tasks \ {t} : q.tasks[u] = r.tasks[u]
  BY <1>1 DEF Updated
<1> QED
  BY <1>2 DEF StartedTasks, ValidTasks, TasksIn

(* How many Tasks the journal counts, once one of them starts, ends or is  *)
(* given a valid Output for the first time.                                *)
LEMMA TaskCounts ==
  ASSUME NEW r \in Run, NEW t \in DOMAIN r.tasks
  PROVE  /\ t \notin StartedTasks(r)
              => Cardinality(StartedTasks(r) \cup {t}) = Cardinality(StartedTasks(r)) + 1
         /\ t \notin ValidTasks(r)
              => Cardinality(ValidTasks(r) \cup {t}) = Cardinality(ValidTasks(r)) + 1
         /\ \A status \in TaskStatus : t \notin TasksIn(r, status)
              => Cardinality(TasksIn(r, status) \cup {t}) = Cardinality(TasksIn(r, status)) + 1
<1>1. Len(r.tasks) \in Nat /\ DOMAIN r.tasks = 1..Len(r.tasks)
  BY ChildNumbers
<1>2. /\ StartedTasks(r) \in SUBSET (1..Len(r.tasks))
      /\ ValidTasks(r) \in SUBSET (1..Len(r.tasks))
      /\ \A status \in TaskStatus : TasksIn(r, status) \in SUBSET (1..Len(r.tasks))
  BY <1>1 DEF StartedTasks, ValidTasks, TasksIn
<1> QED
  BY <1>1, <1>2, OneMore

(* The Task events count started, succeeded and failed Tasks and valid     *)
(* Outputs: a retry starts nothing again.                                  *)
LEMMA TaskJournalKept ==
  ASSUME NEW r \in Run, NEW q \in Run, TaskJournal(r), TaskOperation(r, q)
  PROVE  TaskJournal(q)
<1> USE DEF TaskEvents
<1>1. TaskEvents \subseteq EventKind
  BY DEF EventKind
<1>0. AttemptsCounted(q)
  BY OperationCounts DEF Operation, TaskJournal
<1>2. ASSUME NEW step \in Steps, NEW input \in Inputs, q = OpenTask(r, step, input)
      PROVE  TaskJournal(q)
  <2> DEFINE task == [step |-> step, task_input |-> input, status |-> "pending",
                      attempt_count |-> 0, output |-> "none"]
  <2>1. /\ q.tasks = Append(r.tasks, task)
        /\ task.status = "pending" /\ task.attempt_count = 0 /\ task.output = "none"
        /\ q.events = Journal(r, {"TaskCreated"})
    BY <1>2, OpenTaskEffect, Zenon
  <2> HIDE DEF task
  <2>2. \A k \in TaskEvents :
          q.events[k] = IF k = "TaskCreated" THEN r.events[k] + 1 ELSE r.events[k]
    BY <1>1, <2>1 DEF Journal
  <2> QED
    BY <1>0, <2>1, <2>2, TaskAdded DEF TaskJournal
<1>3. ASSUME NEW t \in DOMAIN r.tasks, NEW to \in TaskStatus,
             CanTransitionTask(r, t, to), q = TransitionTask(r, t, to)
      PROVE  TaskJournal(q)
  <2> DEFINE task == r.tasks[t]
             next == Attempted(task, to)
             kinds == TaskEventFor(task.status, to)
  <2>1. q.tasks = Updated(r.tasks, t, next) /\ q.events = Journal(r, kinds)
    BY <1>3, TransitionTaskEffect, Zenon
  <2>2. task \in Task /\ to \in AllowedTaskTransitions[task.status]
    BY <1>3, ChildTypes DEF CanTransitionTask
  <2>3. /\ next.status = to /\ next.output = task.output
        /\ next.attempt_count = IF to = "running" THEN task.attempt_count + 1
                                                  ELSE task.attempt_count
    BY <2>2 DEF Attempted, Task
  <2>4. /\ task.status = "pending" => task.attempt_count = 0
        /\ task.status = "running" => task.attempt_count > 0
        /\ task.attempt_count \in Nat
    BY <2>2, PolicyAssumption DEF TaskJournal, AttemptsCounted, Task
  <2>5. /\ t \in StartedTasks(r) <=> task.attempt_count > 0
        /\ t \in ValidTasks(r) <=> task.output = "valid"
        /\ t \in TasksIn(r, "succeeded") <=> task.status = "succeeded"
        /\ t \in TasksIn(r, "failed") <=> task.status = "failed"
    BY DEF StartedTasks, ValidTasks, TasksIn
  <2> HIDE DEF task, next
  <2>7. \A k \in TaskEvents :
          q.events[k] = IF k \in kinds THEN r.events[k] + 1 ELSE r.events[k]
    BY <1>1, <2>1 DEF Journal
  <2>0. /\ StartedTasks(q)
            = (StartedTasks(r) \ {t}) \cup {u \in {t} : next.attempt_count > 0}
        /\ ValidTasks(q) = (ValidTasks(r) \ {t}) \cup {u \in {t} : next.output = "valid"}
        /\ TasksIn(q, "succeeded")
            = (TasksIn(r, "succeeded") \ {t}) \cup {u \in {t} : next.status = "succeeded"}
        /\ TasksIn(q, "failed")
            = (TasksIn(r, "failed") \ {t}) \cup {u \in {t} : next.status = "failed"}
        /\ Len(q.tasks) = Len(r.tasks)
    BY <2>1, TaskReplaced, Zenon
  <2>8. q.events["TaskCreated"] = Len(q.tasks)
    BY <2>7, <2>0 DEF TaskEventFor, TaskJournal
  <2>9. q.events["OutputValidated"] = Cardinality(ValidTasks(q))
    <3>1. ValidTasks(q) = ValidTasks(r)
      BY <2>3, <2>5, <2>0
    <3> QED
      BY <2>7, <3>1 DEF TaskEventFor, TaskJournal
  <2>10. q.events["TaskStarted"] = Cardinality(StartedTasks(q))
    <3>1. CASE to = "running" /\ task.status = "pending"
      <4>1. StartedTasks(q) = StartedTasks(r) \cup {t} /\ t \notin StartedTasks(r)
        BY <2>3, <2>4, <2>5, <2>0, <3>1
      <4> QED
        BY <2>7, <3>1, <4>1, TaskCounts DEF TaskEventFor, TaskJournal
    <3>2. CASE ~(to = "running" /\ task.status = "pending")
      <4>1. next.attempt_count > 0 <=> task.attempt_count > 0
        <5>1. to = "running" => task.status = "running"
          BY <2>2, <3>2 DEF AllowedTaskTransitions, Task, TaskStatus
        <5> QED
          BY <2>3, <2>4, <5>1
      <4>2. StartedTasks(q) = StartedTasks(r)
        BY <2>5, <2>0, <4>1
      <4> QED
        BY <2>7, <3>2, <4>2 DEF TaskEventFor, TaskJournal
    <3> QED
      BY <3>1, <3>2
  <2>11. q.events["TaskCompleted"] = Cardinality(TasksIn(q, "succeeded"))
    <3>1. task.status # "succeeded"
      BY <2>2 DEF AllowedTaskTransitions
    <3>2. TasksIn(q, "succeeded")
            = IF to = "succeeded" THEN TasksIn(r, "succeeded") \cup {t}
                                  ELSE TasksIn(r, "succeeded")
      BY <2>3, <2>5, <2>0, <3>1 DEF TaskStatus
    <3>3. "succeeded" \in TaskStatus /\ t \notin TasksIn(r, "succeeded")
      BY <2>5, <3>1 DEF TaskStatus
    <3> QED
      BY <2>7, <3>2, <3>3, TaskCounts DEF TaskEventFor, TaskJournal
  <2>12. q.events["TaskFailed"] = Cardinality(TasksIn(q, "failed"))
    <3>1. task.status # "failed"
      BY <2>2 DEF AllowedTaskTransitions
    <3>2. TasksIn(q, "failed")
            = IF to = "failed" THEN TasksIn(r, "failed") \cup {t} ELSE TasksIn(r, "failed")
      BY <2>3, <2>5, <2>0, <3>1 DEF TaskStatus
    <3>3. "failed" \in TaskStatus /\ t \notin TasksIn(r, "failed")
      BY <2>5, <3>1 DEF TaskStatus
    <3> QED
      BY <2>7, <3>2, <3>3, TaskCounts DEF TaskEventFor, TaskJournal
  <2> QED
    BY <1>0, <2>8, <2>9, <2>10, <2>11, <2>12 DEF TaskJournal
<1>4. ASSUME NEW t \in DOMAIN r.tasks, NEW valid \in {"valid", "invalid"},
             CanRecordOutput(r, t), q = RecordOutput(r, t, valid)
      PROVE  TaskJournal(q)
  <2> DEFINE task == r.tasks[t]
             next == WithOutput(task, valid)
             kinds == IF valid = "valid" THEN {"OutputValidated"} ELSE {}
  <2>1. q.tasks = Updated(r.tasks, t, next) /\ q.events = Journal(r, kinds)
    BY <1>4, RecordOutputEffect, Zenon
  <2>2. task \in Task /\ task.output = "none"
    BY <1>4, ChildTypes DEF CanRecordOutput
  <2>3. /\ next.status = task.status /\ next.output = valid
        /\ next.attempt_count = task.attempt_count
    BY <2>2 DEF WithOutput, Task
  <2>4. /\ t \in StartedTasks(r) <=> task.attempt_count > 0
        /\ t \notin ValidTasks(r)
        /\ t \in TasksIn(r, "succeeded") <=> task.status = "succeeded"
        /\ t \in TasksIn(r, "failed") <=> task.status = "failed"
    BY <2>2 DEF StartedTasks, ValidTasks, TasksIn
  <2> HIDE DEF task, next
  <2>6. \A k \in TaskEvents :
          q.events[k] = IF k \in kinds THEN r.events[k] + 1 ELSE r.events[k]
    BY <1>1, <2>1 DEF Journal
  <2>0. /\ StartedTasks(q)
            = (StartedTasks(r) \ {t}) \cup {u \in {t} : next.attempt_count > 0}
        /\ ValidTasks(q) = (ValidTasks(r) \ {t}) \cup {u \in {t} : next.output = "valid"}
        /\ TasksIn(q, "succeeded")
            = (TasksIn(r, "succeeded") \ {t}) \cup {u \in {t} : next.status = "succeeded"}
        /\ TasksIn(q, "failed")
            = (TasksIn(r, "failed") \ {t}) \cup {u \in {t} : next.status = "failed"}
        /\ Len(q.tasks) = Len(r.tasks)
    BY <2>1, TaskReplaced, Zenon
  <2>7. /\ StartedTasks(q) = StartedTasks(r) /\ Len(q.tasks) = Len(r.tasks)
        /\ TasksIn(q, "succeeded") = TasksIn(r, "succeeded")
        /\ TasksIn(q, "failed") = TasksIn(r, "failed")
    BY <2>3, <2>4, <2>0 DEF TaskStatus
  <2>8. ValidTasks(q) = IF valid = "valid" THEN ValidTasks(r) \cup {t} ELSE ValidTasks(r)
    BY <2>3, <2>4, <2>0
  <2>9. q.events["OutputValidated"] = Cardinality(ValidTasks(q))
    BY <2>4, <2>6, <2>8, TaskCounts DEF TaskJournal
  <2> QED
    BY <1>0, <2>6, <2>7, <2>9 DEF TaskJournal
<1> QED
  BY <1>2, <1>3, <1>4, Zenon DEF TaskOperation

(* Every Artifact was announced once, also the next version of another.    *)
LEMMA ArtifactJournalKept ==
  ASSUME NEW r \in Run, NEW q \in Run, ArtifactJournal(r), ArtifactOperation(r, q)
  PROVE  ArtifactJournal(q)
<1>1. r.artifacts \in Seq(Artifact) /\ "ArtifactCreated" \in EventKind
  BY DEF Run, EventKind
<1>2. ASSUME NEW artifact, q.artifacts = Append(r.artifacts, artifact),
             q.events = Journal(r, {"ArtifactCreated"})
      PROVE  ArtifactJournal(q)
  <2>1. Len(q.artifacts) = Len(r.artifacts) + 1
    BY <1>1, <1>2
  <2> QED
    BY <1>1, <1>2, <2>1 DEF ArtifactJournal, Journal
<1>3. ASSUME NEW t \in DOMAIN r.tasks, CanCreateArtifact(r, t), q = CreateArtifact(r, t)
      PROVE  ArtifactJournal(q)
  BY <1>2, <1>3, CreateArtifactEffect, Zenon
<1>4. ASSUME NEW a \in DOMAIN r.artifacts, NEW t \in DOMAIN r.tasks,
             CanCreateArtifactVersion(r, a, t), q = CreateArtifactVersion(r, a, t)
      PROVE  ArtifactJournal(q)
  <2> DEFINE previous == Updated(r.artifacts, a, WithStatus(r.artifacts[a], "superseded"))
             next == [output_ref |-> t, version |-> r.artifacts[a].version + 1,
                      supersedes_ref |-> a, status |-> "draft"]
  <2>1. q.artifacts = Append(previous, next) /\ q.events = Journal(r, {"ArtifactCreated"})
    BY <1>4, CreateArtifactVersionEffect, Zenon
  <2>2. r.artifacts[a] \in Artifact
    BY ChildTypes
  <2>3. WithStatus(r.artifacts[a], "superseded") \in Artifact
    BY <2>2 DEF Artifact, ArtifactStatus, WithStatus
  <2>4. previous \in Seq(Artifact) /\ Len(previous) = Len(r.artifacts)
    BY <1>1, <2>3 DEF Updated
  <2> HIDE DEF previous, next
  <2>5. Len(q.artifacts) = Len(r.artifacts) + 1
    BY <2>1, <2>4
  <2> QED
    BY <1>1, <2>1, <2>5 DEF ArtifactJournal, Journal
<1>5. ASSUME NEW a \in DOMAIN r.artifacts, NEW to \in ArtifactStatus,
             CanTransitionArtifact(r, a, to), q = TransitionArtifact(r, a, to)
      PROVE  ArtifactJournal(q)
  <2>1. /\ q.artifacts = Updated(r.artifacts, a, WithStatus(r.artifacts[a], to))
        /\ q.events = r.events
    BY <1>5, TransitionArtifactEffect, Zenon
  <2>2. Len(q.artifacts) = Len(r.artifacts)
    BY <1>1, <2>1 DEF Updated
  <2> QED
    BY <2>1, <2>2 DEF ArtifactJournal
<1> QED
  BY <1>3, <1>4, <1>5, Zenon DEF ArtifactOperation

(* Every Human Review was requested once, and decided at most once.        *)
LEMMA ReviewJournalKept ==
  ASSUME NEW r \in Run, NEW q \in Run, ReviewJournal(r), ReviewOperation(r, q)
  PROVE  ReviewJournal(q)
<1>1. r.human_reviews \in Seq(HumanReview)
  BY DEF Run
<1>2. ReviewEvents \subseteq EventKind
  BY DEF ReviewEvents, EventKind
<1>3. ASSUME NEW a \in DOMAIN r.artifacts, q = OpenHumanReview(r, a)
      PROVE  ReviewJournal(q)
  <2> DEFINE review == [artifact_ref |-> a, status |-> "pending"]
             new == Len(r.human_reviews) + 1
  <2>1. a \in Nat
    BY ChildNumbers
  <2>2. /\ q.human_reviews = Append(r.human_reviews, review) /\ review.status = "pending"
        /\ q.events = Journal(r, {"HumanReviewRequested"})
    BY <1>3, <2>1, OpenHumanReviewEffect, Zenon
  <2> HIDE DEF review
  <2>3. /\ DOMAIN q.human_reviews = DOMAIN r.human_reviews \cup {new}
        /\ Len(q.human_reviews) = new /\ q.human_reviews[new].status = "pending"
        /\ \A h \in DOMAIN r.human_reviews : q.human_reviews[h] = r.human_reviews[h]
    BY <1>1, <2>2
  <2>4. /\ ReviewsIn(q, "approved") = ReviewsIn(r, "approved")
        /\ ReviewsIn(q, "rejected") = ReviewsIn(r, "rejected")
    BY <2>3 DEF ReviewsIn
  <2>5. \A k \in ReviewEvents :
          q.events[k] = IF k = "HumanReviewRequested" THEN r.events[k] + 1 ELSE r.events[k]
    BY <1>2, <2>2 DEF Journal
  <2> QED
    BY <2>3, <2>4, <2>5 DEF ReviewJournal, ReviewEvents
<1>4. ASSUME NEW h \in DOMAIN r.human_reviews, NEW decision \in ReviewStatus,
             CanSubmitReview(r, h, decision), q = SubmitReview(r, h, decision)
      PROVE  ReviewJournal(q)
  <2> DEFINE next == WithStatus(r.human_reviews[h], decision)
             kinds == ReviewEventFor(decision)
  <2>1. /\ q.human_reviews = Updated(r.human_reviews, h, next)
        /\ q.events = Journal(r, kinds)
    BY <1>4, SubmitReviewEffect
  <2>2. next.status = decision
    BY ChildTypes DEF HumanReview, WithStatus
  <2>3. r.human_reviews[h].status = "pending" /\ decision # "pending"
    BY <1>4 DEF CanSubmitReview
  <2> HIDE DEF next
  <2>4. /\ DOMAIN q.human_reviews = DOMAIN r.human_reviews
        /\ Len(q.human_reviews) = Len(r.human_reviews)
        /\ q.human_reviews[h].status = decision
        /\ \A g \in DOMAIN r.human_reviews \ {h} : q.human_reviews[g] = r.human_reviews[g]
    BY <1>1, <2>1, <2>2 DEF Updated
  <2>5. /\ h \notin ReviewsIn(r, "approved") /\ h \notin ReviewsIn(r, "rejected")
        /\ ReviewsIn(q, "approved") = IF decision = "approved"
                                        THEN ReviewsIn(r, "approved") \cup {h}
                                        ELSE ReviewsIn(r, "approved")
        /\ ReviewsIn(q, "rejected") = IF decision = "rejected"
                                        THEN ReviewsIn(r, "rejected") \cup {h}
                                        ELSE ReviewsIn(r, "rejected")
    BY <2>3, <2>4 DEF ReviewsIn
  <2>6. /\ ReviewsIn(r, "approved") \in SUBSET (1..Len(r.human_reviews))
        /\ ReviewsIn(r, "rejected") \in SUBSET (1..Len(r.human_reviews))
        /\ Len(r.human_reviews) \in Nat
    BY ChildNumbers DEF ReviewsIn
  <2>7. /\ Cardinality(ReviewsIn(r, "approved") \cup {h})
              = Cardinality(ReviewsIn(r, "approved")) + 1
        /\ Cardinality(ReviewsIn(r, "rejected") \cup {h})
              = Cardinality(ReviewsIn(r, "rejected")) + 1
    BY <2>5, <2>6, OneMore
  <2>8. \A k \in ReviewEvents :
          q.events[k] = IF k \in kinds THEN r.events[k] + 1 ELSE r.events[k]
    BY <1>2, <2>1 DEF Journal
  <2>9. /\ q.events["HumanReviewRequested"] = r.events["HumanReviewRequested"]
        /\ q.events["HumanReviewApproved"]
             = IF decision = "approved" THEN r.events["HumanReviewApproved"] + 1
                                        ELSE r.events["HumanReviewApproved"]
        /\ q.events["HumanReviewRejected"]
             = IF decision = "rejected" THEN r.events["HumanReviewRejected"] + 1
                                        ELSE r.events["HumanReviewRejected"]
    BY <2>8 DEF ReviewEventFor, ReviewEvents
  <2> QED
    BY <2>4, <2>5, <2>7, <2>9 DEF ReviewJournal
<1> QED
  BY <1>3, <1>4, Zenon DEF ReviewOperation

(* EvaluationCompleted counts the verdicts.                                *)
LEMMA EvaluationJournalKept ==
  ASSUME NEW r \in Run, NEW q \in Run, EvaluationJournal(r), EvaluationOperation(r, q)
  PROVE  EvaluationJournal(q)
<1>1. r.evaluations \in Seq(Evaluation) /\ "EvaluationCompleted" \in EventKind
  BY DEF Run, EventKind
<1>2. ASSUME NEW a \in DOMAIN r.artifacts, NEW attributed \in BOOLEAN,
             q = OpenEvaluation(r, a, attributed)
      PROVE  EvaluationJournal(q)
  <2> DEFINE evaluation == [artifact_ref |-> a, attributed |-> attributed,
                            status |-> "pending"]
             new == Len(r.evaluations) + 1
  <2>1. a \in Nat
    BY ChildNumbers
  <2>2. /\ q.evaluations = Append(r.evaluations, evaluation) /\ q.events = r.events
        /\ evaluation.status = "pending"
    BY <1>2, <2>1, OpenEvaluationEffect, Zenon
  <2> HIDE DEF evaluation
  <2>3. /\ DOMAIN q.evaluations = DOMAIN r.evaluations \cup {new}
        /\ q.evaluations[new].status = "pending"
        /\ \A e \in DOMAIN r.evaluations : q.evaluations[e] = r.evaluations[e]
    BY <1>1, <2>2
  <2>4. JudgedEvaluations(q) = JudgedEvaluations(r)
    BY <2>3 DEF JudgedEvaluations
  <2> QED
    BY <2>2, <2>4 DEF EvaluationJournal
<1>3. ASSUME NEW e \in DOMAIN r.evaluations, NEW verdict \in EvaluationStatus,
             CanRecordEvaluation(r, e, verdict), q = RecordEvaluation(r, e, verdict)
      PROVE  EvaluationJournal(q)
  <2> DEFINE next == WithStatus(r.evaluations[e], verdict)
  <2>1. /\ q.evaluations = Updated(r.evaluations, e, next)
        /\ q.events = Journal(r, {"EvaluationCompleted"})
    BY <1>3, RecordEvaluationEffect
  <2>2. next.status = verdict
    BY ChildTypes DEF Evaluation, WithStatus
  <2>3. r.evaluations[e].status = "pending" /\ verdict # "pending"
    BY <1>3 DEF CanRecordEvaluation
  <2> HIDE DEF next
  <2>4. /\ DOMAIN q.evaluations = DOMAIN r.evaluations
        /\ q.evaluations[e].status = verdict
        /\ \A f \in DOMAIN r.evaluations \ {e} : q.evaluations[f] = r.evaluations[f]
    BY <1>1, <2>1, <2>2 DEF Updated
  <2>5. /\ e \notin JudgedEvaluations(r)
        /\ JudgedEvaluations(q) = JudgedEvaluations(r) \cup {e}
    BY <2>3, <2>4 DEF JudgedEvaluations
  <2>6. /\ JudgedEvaluations(r) \in SUBSET (1..Len(r.evaluations))
        /\ Len(r.evaluations) \in Nat
    BY ChildNumbers DEF JudgedEvaluations
  <2>7. Cardinality(JudgedEvaluations(q)) = Cardinality(JudgedEvaluations(r)) + 1
    BY <2>5, <2>6, OneMore
  <2> QED
    BY <1>1, <2>1, <2>7 DEF EvaluationJournal, Journal
<1> QED
  BY <1>2, <1>3, Zenon DEF EvaluationOperation

(* AnalyticsRecordCaptured counts the records.                             *)
LEMMA RecordJournalKept ==
  ASSUME NEW r \in Run, NEW q \in Run, RecordJournal(r), RecordOperation(r, q)
  PROVE  RecordJournal(q)
<1>1. r.analytics_records \in Seq(AnalyticsRecord) /\ "AnalyticsRecordCaptured" \in EventKind
  BY DEF Run, EventKind
<1>2. ASSUME NEW record, q.analytics_records = Append(r.analytics_records, record),
             q.events = Journal(r, {"AnalyticsRecordCaptured"})
      PROVE  RecordJournal(q)
  <2>1. Len(q.analytics_records) = Len(r.analytics_records) + 1
    BY <1>1, <1>2
  <2> QED
    BY <1>1, <1>2, <2>1 DEF RecordJournal, Journal
<1>3. ASSUME NEW t \in DOMAIN r.tasks, CanRecordAnalytics(r, t), q = RecordAnalytics(r, t)
      PROVE  RecordJournal(q)
  BY <1>2, <1>3, RecordAnalyticsEffect, Zenon
<1>4. ASSUME NEW e \in DOMAIN r.evaluations, CanRecordEvaluationAnalytics(r, e),
             q = RecordEvaluationAnalytics(r, e)
      PROVE  RecordJournal(q)
  BY <1>2, <1>4, RecordEvaluationAnalyticsEffect, Zenon
<1> QED
  BY <1>3, <1>4, Zenon DEF RecordOperation

(* Every operation keeps every part of the journal: its own by the lemma   *)
(* of its group, the others because it touches neither their children nor  *)
(* their events.                                                           *)
LEMMA JournalKept ==
  ASSUME NEW r \in Run, NEW q \in Run, JournalHolds(r), Operation(r, q)
  PROVE  JournalHolds(q)
<1>1. ASSUME q.status = r.status, JournalsOnly(r, q, EventKind \ StatusEvents)
      PROVE  StatusJournal(q)
  BY <1>1 DEF JournalHolds, StatusJournal, JournalsOnly, StatusEvents, EventKind
<1>2. ASSUME q.tasks = r.tasks, JournalsOnly(r, q, EventKind \ TaskEvents)
      PROVE  TaskJournal(q)
  BY <1>2 DEF JournalHolds, TaskJournal, AttemptsCounted, StartedTasks, TasksIn, ValidTasks,
              JournalsOnly, TaskEvents, EventKind
<1>3. ASSUME q.artifacts = r.artifacts, JournalsOnly(r, q, EventKind \ {"ArtifactCreated"})
      PROVE  ArtifactJournal(q)
  BY <1>3 DEF JournalHolds, ArtifactJournal, JournalsOnly, EventKind
<1>4. ASSUME q.human_reviews = r.human_reviews, JournalsOnly(r, q, EventKind \ ReviewEvents)
      PROVE  ReviewJournal(q)
  BY <1>4 DEF JournalHolds, ReviewJournal, ReviewsIn, JournalsOnly, ReviewEvents, EventKind
<1>5. ASSUME q.evaluations = r.evaluations,
             JournalsOnly(r, q, EventKind \ {"EvaluationCompleted"})
      PROVE  EvaluationJournal(q)
  BY <1>5 DEF JournalHolds, EvaluationJournal, JudgedEvaluations, JournalsOnly, EventKind
<1>6. ASSUME q.analytics_records = r.analytics_records,
             JournalsOnly(r, q, EventKind \ {"AnalyticsRecordCaptured"})
      PROVE  RecordJournal(q)
  BY <1>6 DEF JournalHolds, RecordJournal, JournalsOnly, EventKind
<1> USE DEF JournalHolds
<1> DEFINE Apart(kinds, others) ==
             JournalsOnly(r, q, kinds) => JournalsOnly(r, q, EventKind \ others)
<1>7. /\ Apart(StatusEvents, TaskEvents) /\ Apart(StatusEvents, {"ArtifactCreated"})
      /\ Apart(StatusEvents, ReviewEvents) /\ Apart(StatusEvents, {"EvaluationCompleted"})
      /\ Apart(StatusEvents, {"AnalyticsRecordCaptured"})
      /\ Apart(TaskEvents, StatusEvents) /\ Apart(TaskEvents, {"ArtifactCreated"})
      /\ Apart(TaskEvents, ReviewEvents) /\ Apart(TaskEvents, {"EvaluationCompleted"})
      /\ Apart(TaskEvents, {"AnalyticsRecordCaptured"})
  BY DEF JournalsOnly, StatusEvents, TaskEvents, ReviewEvents
<1>8. /\ Apart(ReviewEvents, StatusEvents) /\ Apart(ReviewEvents, TaskEvents)
      /\ Apart(ReviewEvents, {"ArtifactCreated"})
      /\ Apart(ReviewEvents, {"EvaluationCompleted"})
      /\ Apart(ReviewEvents, {"AnalyticsRecordCaptured"})
  BY DEF JournalsOnly, StatusEvents, TaskEvents, ReviewEvents
<1>9. \A kind \in {"ArtifactCreated", "EvaluationCompleted", "AnalyticsRecordCaptured"} :
        /\ Apart({kind}, StatusEvents) /\ Apart({kind}, TaskEvents)
        /\ Apart({kind}, ReviewEvents)
        /\ \A other \in {"ArtifactCreated", "EvaluationCompleted", "AnalyticsRecordCaptured"} :
             kind # other => Apart({kind}, {other})
  BY DEF JournalsOnly, StatusEvents, TaskEvents, ReviewEvents
<1>10. CASE StatusOperation(r, q)
  BY <1>2, <1>3, <1>4, <1>5, <1>6, <1>7, <1>10, StatusJournalKept, StatusJournalsOnly,
     StatusFrame DEF Keeps
<1>11. CASE TaskOperation(r, q)
  BY <1>1, <1>3, <1>4, <1>5, <1>6, <1>7, <1>11, TaskJournalKept, TaskJournalsOnly,
     TaskFrame DEF Keeps
<1>12. CASE ArtifactOperation(r, q)
  BY <1>1, <1>2, <1>4, <1>5, <1>6, <1>9, <1>12, ArtifactJournalKept, ArtifactJournalsOnly,
     ArtifactFrame DEF Keeps
<1>13. CASE ReviewOperation(r, q)
  BY <1>1, <1>2, <1>3, <1>5, <1>6, <1>8, <1>13, ReviewJournalKept, ReviewJournalsOnly,
     ReviewFrame DEF Keeps
<1>14. CASE EvaluationOperation(r, q)
  BY <1>1, <1>2, <1>3, <1>4, <1>6, <1>9, <1>14, EvaluationJournalKept, EvaluationJournalsOnly,
     EvaluationFrame DEF Keeps
<1>15. CASE RecordOperation(r, q)
  BY <1>1, <1>2, <1>3, <1>4, <1>5, <1>9, <1>15, RecordJournalKept, RecordJournalsOnly,
     RecordFrame DEF Keeps
<1> QED
  BY <1>10, <1>11, <1>12, <1>13, <1>14, <1>15 DEF Operation

(* The journal is the history of the state: whatever is called, and        *)
(* however often it is retried, each kind of event is there once for each  *)
(* child or status that calls for it (the emit of every method of run.py). *)
THEOREM JournalCorrect == Spec => []JournalAgrees
<1>1. Init => JournalHolds(run)
  <2> SUFFICES ASSUME Init PROVE JournalHolds(run)
    OBVIOUS
  <2>1. run = NewRun /\ Cardinality({}) = 0
    BY FS_EmptySet DEF Init
  <2>2. /\ run.tasks = <<>> /\ run.artifacts = <<>> /\ run.human_reviews = <<>>
        /\ run.evaluations = <<>> /\ run.analytics_records = <<>> /\ run.status = "created"
        /\ run.events = [k \in EventKind |-> IF k = "RunCreated" THEN 1 ELSE 0]
    BY <2>1 DEF NewRun
  <2>3. /\ run.events["RunCreated"] = 1
        /\ \A k \in EventKind \ {"RunCreated"} : run.events[k] = 0
    BY <2>2 DEF EventKind
  <2>4. StatusJournal(run)
    BY <2>2, <2>3 DEF StatusJournal, EventKind
  <2>5. TaskJournal(run)
    <3>1. /\ StartedTasks(run) = {} /\ ValidTasks(run) = {}
          /\ TasksIn(run, "succeeded") = {} /\ TasksIn(run, "failed") = {}
          /\ AttemptsCounted(run)
      BY <2>2 DEF StartedTasks, TasksIn, ValidTasks, AttemptsCounted
    <3>2. (\A k \in TaskEvents : run.events[k] = 0) /\ Len(run.tasks) = 0
      BY <2>2, <2>3 DEF TaskEvents, EventKind
    <3> QED
      BY <2>1, <3>1, <3>2 DEF TaskJournal, TaskEvents
  <2>6. ReviewJournal(run) /\ EvaluationJournal(run)
    <3>1. /\ ReviewsIn(run, "approved") = {} /\ ReviewsIn(run, "rejected") = {}
          /\ JudgedEvaluations(run) = {}
      BY <2>2 DEF ReviewsIn, JudgedEvaluations
    <3>2. /\ \A k \in ReviewEvents : run.events[k] = 0
          /\ run.events["EvaluationCompleted"] = 0 /\ Len(run.human_reviews) = 0
      BY <2>2, <2>3 DEF ReviewEvents, EventKind
    <3> QED
      BY <2>1, <3>1, <3>2 DEF ReviewJournal, EvaluationJournal, ReviewEvents
  <2>7. ArtifactJournal(run) /\ RecordJournal(run)
    BY <2>2, <2>3 DEF ArtifactJournal, RecordJournal, EventKind
  <2> QED
    BY <2>4, <2>5, <2>6, <2>7 DEF JournalHolds
<1>2. TypeOK /\ JournalHolds(run) /\ [Next]_vars => JournalHolds(run)'
  <2> SUFFICES ASSUME TypeOK, JournalHolds(run), [Next]_vars PROVE JournalHolds(run')
    OBVIOUS
  <2>1. CASE run' = run
    BY <2>1
  <2>2. CASE run' # run
    BY <2>2, StepIsOperation, OperationTyped, JournalKept DEF TypeOK
  <2> QED
    BY <2>1, <2>2
<1>3. TypeOK /\ JournalHolds(run) => JournalAgrees
  <2> SUFFICES ASSUME TypeOK, JournalHolds(run) PROVE JournalAgrees
    OBVIOUS
  <2> QED
    BY DEF JournalHolds, StatusJournal, TaskJournal, ArtifactJournal, ReviewJournal,
           EvaluationJournal, RecordJournal, JournalAgrees, CountOf, StartedTasks, TasksIn,
           ValidTasks, ReviewsIn, JudgedEvaluations
<1> QED
  BY <1>1, <1>2, <1>3, TypeCorrect, PTL DEF Spec
=============================================================================
