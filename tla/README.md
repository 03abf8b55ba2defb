# omemo-content-factory in TLA+

TLA+ models of the content factory in `src/src/omemo_content_factory/`: what its
parts promise, model-checked with TLC on small instances and, where it pays,
proved with TLAPS for all of them. File names below are relative to that
package; `PROJECT.json` names the source lines of every definition.

## 1. The system

A *brief* is a page on a board. The factory produces it as a *Run*: one Task
per step of a Workflow, each answered by an executor (an LLM role), the valid
Output of each Task becoming an Artifact and the input of the next step. The
last Artifact, the candidate, passes a QA evaluator and a human review, may be
sent back for rework a bounded number of times, and is released when both have
passed it. Every step is saved; the process may die anywhere and the brief is
simply submitted again.

| Component | State | Operations | Talks to |
|---|---|---|---|
| Run aggregate (`domain/run.py` with task, artifact, human_review, evaluation, output, analytics) | status, rework counter, Tasks with attempts and Outputs, Artifacts with versions, Reviews, Evaluations, Analytics Records, journal of events | the root's 13 mutators; `snapshot`, `restore` | called by the application layer only |
| Content Director (`application/content_director.py`, `task_execution.py`, `qa_evaluation.py`) | none of its own: progress is read from the Run | `execute`, `resume` | the Run, executors, evaluator, store |
| Brief production (`brief_intake.py`, `review_decision.py`, `review_publication.py`, `brief_production.py`) | none | `invoke`: take the decision, produce, publish; `waiting_briefs` | store, board, desk, Director |
| Status reporter (`brief_status.py`) | per Run: status attempted, status shown, location shown | `save`, `sync`, `show_review_location` | store, board |
| Production service (`infrastructure/production_service.py`) | queue, busy, stopped; three kinds of threads | `submit`, `wait_idle`, `stop`, the worker | brief production |
| Run stores, snapshot codec | one row per Run | `save`, `load`, `run_ids` | SQLite |
| Google Docs desk (`infrastructure/google_docs_review_desk.py`) | Docs in a folder, a cached token | `publish`, `fetch_decision` | HTTP, which loses and delays answers |
| Notion board (`infrastructure/notion_brief_board.py`) | pages | fetch, report a status, report a link | HTTP |
| LLM executor, tool loop (`infrastructure/llm.py`, `tools/toolbox.py`) | counters of one completion | `complete`, `execute`, `evaluate`, `invoke` | model providers, tools |
| Composition and configuration (`composition.py`, `infrastructure/provider_model.py`, the entry points) | catalogues of Agents, Prompts, Schemas, Tools, Skills; the environment | build executors, evaluator and Schema bindings, or refuse | all of the above |
| Schemas (`domain/schema.py`, `application/schema_validation.py`) | status of each Schema | `transition`, `validate` | called when a Task is finished |

What is hard here: crashes between any two commits and resumption from what was
committed (Director); threads around one condition variable (service); calls of
the aggregate in an order no caller makes today; answers of remote systems that
are lost or come into effect late (board, desk); tokens and a clock that are
not what they were; catalogues written by hand in several places that must fit;
bounds (attempts, reworks, tool calls). `hazards` in `PROJECT.json` lists these
places line by line with the properties that cover them, or the reason why none
does.

What makes each part correct:

- *Run*: the approval gate never opens without an approval and a passed last
  verdict; versions form a line; decisions are final; every saved Run restores.
- *Director*: any crash leaves a Run that can be taken up again; nothing
  committed is redone; release only through both gates; bad results go no
  further; the reviewer is asked about one version after another, once each; the
  Run comes to an end or to a review that somebody can decide.
- *Service*: no wake-up, request or edit is lost; nobody starves; stop ends.
- *Reporter, desk*: the board follows the store and is left alone when nothing
  is new; one Doc per review, and one voice where a second Doc came to be;
  every pending review is published and linked, and its decision taken; the
  material in a Doc never decides.
- *Tool loop*: it ends within its bound and accounts every call.
- *Composition*: what was built never fails for a missing part at run time;
  each role has its own tools and its own Schema, and no other.

## 2. Modules

| Module | Models | Correspondence |
|---|---|---|
| `RunOps` | the operations of the aggregate as functions of a Run value | for each method a guard `CanX` (it would not raise) and a result `X`; children are numbered in the order they were opened, which is what the id counters amount to; the journal keeps the number of events per kind; `IsRestorable` is `restore`'s verification |
| `RunAggregate` | one Run under every legal call by any actor | variable `run`; one action per public mutator |
| `ContentDirector` | one Run of a plan, invoked again and again over a store that survives crashes | `stored` is the saved Run, `run` the one in memory, `pc` the place between two commits or calls; each action runs from one commit, or call of an executor or evaluator, to the next, so that a crash may fall between any two; `Commit` is `_commit` |
| `BriefRequests` | what the service promises, without order, threads or locks | abstract specification |
| `ProductionQueue` | handler threads, the worker, a caller of `wait_idle` and the stopping thread around one `Condition` | each `with self._condition` block is one step; `"asleep"` is inside `wait`, `notify_all` sends the sleepers back to test their predicates |
| `StatusReporter` | what one reporter remembers of a Run, over a board that refuses, or writes and loses the answer | `reporter` is `_attempted`, `_shown`, `_shown_locations`; `owed` is the report `_report` is about to make, so that a crash may fall between a save and its report |
| `ReviewDesk` | what the desk promises: the folder of review Docs, one step per operation | `docs` lists them; `Found` is `_find`; `Publish` and `PublishRefused` are `publish` answering and raising |
| `GoogleDesk` | the desk request by request | `at` is the place in `publish` or `fetch_decision`; the search, the creation, the export and the sign-in are one action each, a creation may be given up and land later (`late`), and between any two requests the reviewer types, somebody removes a Doc, a token is revoked, the clock moves; a Doc's text is the lines `read_decision` tells apart |
| `BriefProduction` | invocations for one brief: composes `ContentDirector`, `StatusReporter` and `ReviewDesk` | `phase` is the place in `invoke`; each call of the desk or the board, each step of the Director and each report is one action, and the process may die before any of them; `PlayReviewer` is the command line of `demo_factory.py` deciding beside the desk |
| `ToolLoop` | one `complete` of the Anthropic client with its Toolbox, and what `execute` or `evaluate` makes of it | an answer of the provider is one action per way `complete` reads it; each call of `Toolbox.invoke` is one action; `turns`, `asked` and `ran` are history |
| `Factory` | how the factory is put together, and what becomes of that at run time: extends `ToolLoop` by the choice of a role before a conversation and the judgement of its answer after it | `config` is the catalogues and the environment the process starts with; `IsBuildable` is everything `_build_executors`, `build_brief_production` and what they call could raise for, one operator per part; `executors` and `bindings` are the two maps built apart; `Select` is `_resolve`, `Finalize` is `validate_and_record_output` |
| `ReviewedRelease` | what a Run is to its reviewer: versions of one Artifact, put before him one at a time and once each, sent back a bounded number of times, released on his approval | abstract specification; `version` is `_final_candidate` of the stored Run, `reviews` its Reviews, `round` its rework counter, `outcome` its terminal status |
| `DirectorStore` | what a Run is like that the Director's store may hold | the invariants of the Director part by part: `IsKept` (sound, judged only when its Tasks are done, calls accounted) and `IsOrdered` (its Tasks, candidate, Reviews and reworks in the order the Director makes them) and `InTurn` (every rework answers a Review of its own); `FollowsPlan` is what an invocation knows at each `pc` |
| `RunOpsProofs`, `RunProofs`, `DirectorProofs`, `QueueProofs`, `ProductionProofs`, `ToolLoopProofs`, `FactoryProofs`, `GoogleDeskProofs` | theorems and proofs | |
| `MC...` | instances for TLC | |

`ContentDirector` is composed with the aggregate by `INSTANCE RunOps`: every
change of the Run goes through the operators `RunAggregate` explores, so a call
that the Director makes outside its guard shows up as a Run that no longer
satisfies `TypeOK` or `IsRestorable`. Where the code lets the aggregate refuse
a call, the model tests the guard and goes to `"refused"`. `ProductionQueue`
implements `BriefRequests` (`Requests == INSTANCE BriefRequests WITH ...`).
`ContentDirector` implements `ReviewedRelease` (`Reviewer == INSTANCE
ReviewedRelease WITH ...`, over `stored`): Tasks, QA, plans, wirings, crashes and
refusals are steps the reviewer sees as work on the next version, or does not see.
That QA passed what is released is not seen there; `ReleasedOnlyThroughGates`
says it.
`BriefProduction` takes the Director from `DirectorProofs`, which is
`ContentDirector` with its theorems, so that its own proofs can cite them; it
drives the very actions of `ContentDirector`, turns what they
save into the reporter's `Save`, and replaces the one step in which
`ContentDirector` lets a decision arrive, `TakeReviewDecision`, by publishing,
fetching and saving it; `ImplementsDirector` says that nothing else reaches the
Run, so what holds of the Director alone holds here.
`GoogleDesk` implements `ReviewDesk` (`Desk == INSTANCE ReviewDesk WITH docs <-
Folder`), which is why `BriefProduction` may take the desk's operations as
single steps.
`Factory` runs `ToolLoop`'s own `Next` for the role it has selected. The
outcomes of `ToolLoop` are what `ContentDirector` chooses from, `"succeeded"`
and `"failed"` as an executor's answer, `"verdict"` as an evaluator's, `"no
verdict"` as `EvaluatorFails`, `"exception"` as `Interrupt`; `Factory`'s
`"finalized"` is its valid or invalid Output, `"inactive"` an `Interrupt`.

Abstractions. An executor's answer is a choice: failed or succeeded, with a
valid, an invalid or no Output, its model calls measured or not (several
records of one call are one). A verdict is a choice. Texts, ids, prices and
times are left out. A plan is a non-empty sequence of distinct steps, as
`domain/workflow.py` demands. `MaxRecords` bounds the records of failing
evaluator calls, which the code does not bound; one that failed unmeasured leaves
none and the Run is saved all the same. The store replaces its row
atomically. A Doc's package is the candidate, the brief and the last verdict.
Whether a QA evaluator is wired is chosen anew at every invocation, since a
brief may be taken up by a process that is configured otherwise. In
`BriefProduction` a request to board or desk takes effect before its answer is
given up, or never; the reviewer types only into the Doc of the pending review,
since no other is read. There is a desk: without one the desk's steps do not
happen. `PlayReviewer` happens between invocations only, as the command line is
used while the service is down; `Played` has the decisions it may be given.
In `GoogleDesk` a creation may also take effect after it was given up, which
makes a second Doc of a review and is what `OneVoice` is about. `late` is a set:
two creations of one review that were both given up count as one, which leaves
out no pair of Docs, since a creation and one late landing make the same pair.
`ImplementsDesk` sets Docs apart that were created in a race or landed late, and
is about an answer that was lost; the late ones are `OneVoice`'s. One thread calls the
desk, the service's worker. A Doc in the trash is not restored or edited, and
the marks of a line and the word beside it are all that is left of its text.
In `Factory` refs and ids are model values, a variable of the environment is
valid, invalid or unset where nothing depends on its value, and one role is
selected once: that others follow, and when, is `ContentDirector`'s.
`ContentDirector` leaves a brief that cannot be fetched out, `BriefProduction`
has it. In `ProductionQueue`, what a production does is left out, only
that it returns or raises.

## 3. What is checked

| Run | Instance | Shows |
|---|---|---|
| `run_calls` | 1 Task with 2 attempts, 1 rework, 2 reviews, 2 evaluations, 1 record, or 2 Tasks, 1 review, 1 evaluation; 1,300,012 states | `TypeOK`, `ApprovalGate`, `SnapshotRestorable`, `JournalAgrees`, `VersionChain`, `DecisionsAreFinal` |
| `run_round_trip` | 1 Task; *violated* | finding 1 |
| `director` | two plans of 2 steps, 2 attempts, 1 rework, each invocation with QA or without, from nothing and from Runs left by an older director; 1,418,568 states | `TypeOK`, `AlwaysResumable`, `ReleasedOnlyThroughGates`, `OneLiveCandidate`, `CallsAreAnnounced`, `CallsAccountedOnce`, `BadResultsStopThePlan`, `RefusalChangesNothing`, `FollowsSomePlan`, `CommittedWorkIsKept`, `ImplementsReviewedRelease` |
| `director_reworks` | 1 step, 1 attempt, 2 reworks, 1 failing evaluator call, fair | `ReworkAnswersItsReview`, `AlwaysSettles` |
| `director_longer_plan` | plans of 1 and 2 steps; *violated* | finding 2 |
| `queue` | 3 briefs, 2 handlers, fair | `NoLostWakeup`, `NoLostEdit`, `KeepsPromises` (refinement, with its fairness: who submits is served, and nothing is accepted or started once the service has stopped), `StopEnds` |
| `production` | 1 step, 1 attempt, 1 rework, a command line that approves or asks for changes; 1,909,799 states | `PublishedOnce`, `LinkIsCurrent`, `BoardFollowsStore`, `QuietWhenSettled`, `ImplementsDirector` |
| `production_live` | the same without failing evaluators, a command line that approves, fair; 282,540 states | `ReviewIsLinked`, `DecisionIsTaken` |
| `production_sync` | 1 step, 1 rework; *violated* | finding 3 |
| `desk` | 1 review, 2 packages, one of which quotes the markers, 2 Docs, fair; 89,856 states | `OneVoice`, `OnlyTheReviewerDecides`, `ImplementsDesk` (refinement), `DecisionIsRead` |
| `factory` | 34 configurations, 5 that can be built and each way to spoil one; 2 tools, 3 calls; 142,686 states | `SelectionNeverRaises`, `GrantsAreKept`, `JudgedAsAsked`, `BudgetKept`, `NothingUnheard`, `TurnsAccounted` |
| `tool_loop_accounts` | 2 tools, one of them or none granted, 3 calls, answers of up to 2; *violated* | finding 4 |

Bounds. Two evaluations and two reviews are what the gate needs to go wrong: a
verdict that comes late for an evaluation opened earlier, a review after the
approval. Tasks meet only in versions, so `run_calls` is deep over one Task and
shallow over two (`Bounds`, which `IsWithin` tests, has both). Two steps have an
intermediate draft beside the candidate and a chained input; two attempts have a
lost one and a retry; two reworks have a successor of a successor. Runs of an
older director (`OlderRuns`) are those `resume` provides for in its docstring: a
pending Task, a missing Artifact, a missing review, a missing successor.
Three briefs let one starve behind two, and two handlers duplicate.
One rework in `production*` gives two reviews, two Docs and two links, and a
status that comes back, which is what stale memory needs; what executors and
evaluators measured is not looked at there (`Measured`).
Two Docs of one review (`MaxDocs`) are the duplicate that must be surfaced. The
reviewer of the instance types a word, known or not, and leaves the block as it
is or removes the separator, a marker with it, or all three lines (`MCBlocks`).
Who removes all three makes a Doc whose material is read as the block, and if
that quotes the three lines, as a decision: `OnlyTheReviewerDecides` speaks of
the other Docs.
A configuration of `factory` that cannot be built differs from a good one in as
little as it takes, so that each refusal is a reason by itself; two ids share
the variables of one token.
An answer of two calls can go over a budget of three half way, and a budget of
three leaves room for a full batch, a refused call and one too many.
`run_*`, `factory` and `tool_loop_accounts` do not check deadlock: a terminal
Run, a process that refused to start, or a completion that has ended, has
nothing left to do. The other runs do.

Fairness. `ContentDirector`: an interrupted brief is submitted again and an
invocation that nothing interrupts goes on (`WF(Invoke)`, `WF(Advance)`), and
interruptions cease at some time, after any number of them: with an infinite
number of crashes no code could settle. The human is not assumed to decide.
`ProductionQueue`: threads that can run do (`WF` of the worker, of the test of
`wait_idle`, of each handler that has something to submit, of the stopping
thread), and a production ends; nobody is assumed to send requests, to stop the
service or to time out. `BriefProduction`: a Run that waits for a human is swept
again and again (`WF(Sweep)`: the automation calls the sweep on a schedule, and
`KeepsPromises` shows that what is submitted is produced; no other Run is
assumed to be triggered), an invocation goes on, and there comes a time when no
call fails and no process dies (`<>[]clean`), after any number of failures. The
reviewer owes nothing and may change a decision for ever. `GoogleDesk`: a review
that waits is asked about again and again (the sweep), every request ends
(`WF(Call)`: it has a timeout), and one that is made again and again reaches
Google at some time (`SF` of the sign-in, the search and the export); tokens are
revoked any number of times, not for ever (`<>[][~Revoke]_vars`). The reviewer
need not leave a decision, but `DecisionIsRead` speaks of one that stays.
`Factory`, `ToolLoop` and `RunAggregate` are checked for safety only.

Each property also has a mutant, an operator beside the definition it alters,
that breaks it in the way a plausible bug would.

### Findings

1. `open_task` accepts a Task on a completed Run, whose snapshot `restore` then
   refuses: `Run.restore(run.snapshot)` does not always give the Run back, as
   `domain/run.py:486` says. No caller does this today: `AlwaysResumable` shows
   that the Director never stores such a Run.
2. A Run finished under a plan and sent back by its reviewer, then resumed
   under a longer plan, is refused by `_run_rework` after `_begin_rework` has
   committed it as running: `RunResumptionError` is not "raised before anything
   changes" (`application/content_director.py:96`). From then on every
   invocation under that plan is refused. Between plans of the same length
   (`director`) a refusal does come first.
3. `_shown` keeps the last status reported successfully, whatever the board has
   shown since. After a report whose answer was lost and refused reports of the
   statuses that follow, a Run that is back in the status of `_shown` is taken
   as shown: `sync` reports nothing and the board keeps an older status, at every
   sync until the status changes or the process restarts. So `sync` does not
   "Show the Run's current status unless it is already shown"
   (`application/brief_status.py:80`).
4. `_request` measures a turn by the wall clock after its response has come. If
   the clock stepped back, `LLMCallMetrics` raises a `ValueError`, which
   `complete` does not turn into an `LLMError`: the measurements of this and all
   earlier turns are lost and the exception leaves the executor, although "Every
   completed real model turn produces reliable, attributable Run analytics"
   (`docs/adr/0029-llm-call-metrics-capture-and-pricing.md:111`). A defective
   tool, whose exception may propagate, takes the measurements with it as well.
   `TurnsAccounted` is what does hold.

Met while modelling, and no disagreement with anything the repository says:
a Schema that is not active is found out only when an answer is judged
(`SchemaInactive`), when the turns are paid for and their account is lost with
the exception. `build_content_director`, which skips the check of the Workflow,
is used by no entry point, so `SelectionNeverRaises` is about the others.

## 4. What is proved

`RunOpsProofs`, for any policies, steps, inputs and reasons: what each operation
of the aggregate does to a Run, called where its guard holds. The Run stays
typed (`OperationTyped`), keeps what `restore` verifies (`OperationRestorable`)
and only grows (`OperationGrows`: children are never removed, nor is what was
decided about them). The lemmas `...Effect` say which one field an operation
changes and how; the proofs about the Director use nothing else of `RunOps`.

`RunProofs`, for any bounds too, of one Run under every legal call:

- `TypeCorrect`: `Spec => []TypeOK`.
- `GateHeld`: `Spec => []ApprovalGate`. The gate alone is not inductive. It
  needs that an Evaluation is only opened on a candidate, so none can come after
  the approval, and that a verdict once passed stays; the lemmas `Gate...` follow
  each operation through Reviews, Evaluations and Artifacts.
- `SnapshotsRestore`: `Spec => []SnapshotRestorable`. Each child is restorable
  by itself, and its references stay resolved because children only grow.
- `VersionsChain`: `Spec => []VersionChain`, inductive once it is told apart
  what an Artifact is to its predecessor and what to its successor (`Chain`).
- `DecisionsStand`: `Spec => DecisionsAreFinal`, from `OperationGrows`.
- `JournalCorrect`: `Spec => []JournalAgrees`: every operation adds to the
  journal what it adds to the children the event is about.

`DirectorProofs`, for any plans, policies and wirings, any crashes and decisions,
and any stored Runs that `StoreAssumption` admits. The argument has four layers.

1. `StoreIsSound`: `Spec => []IInv`. The memory of an invocation is the stored
   Run, the stored Run is kept (`IsKept`), and the place in the code agrees with
   the Run (`InControl`). Every call of an operation is made inside its guard.
   From it: `DirectorTyped` (`TypeOK`), `CallsAnnounced` (`CallsAreAnnounced`),
   `CallsAccounted` (`CallsAccountedOnce`), `StoreRestores` (the second half of
   `AlwaysResumable`) and `CommittedWorkStands` (`CommittedWorkIsKept`).
2. `StoreStaysInOrder`: `Spec => [](StoreInOrder /\ FollowsPlan)`. That there is
   one candidate is not inductive: between the decision to rework and the new
   version, which Artifact is live depends on which Tasks there are, which
   depends on the plan. `ReworkInOrder` is that connection. From it:
   `BadResultsStop`, `SomePlanFollowed`, `CandidateIsOne`,
   `ReworksAnswerTheirReviews`, `GatesHeld` (`ReleasedOnlyThroughGates`).
3. `ReviewsInTurn`: `Spec => []StoreInTurn`. The reworks done so far answered the
   first Reviews, one each, no version was reviewed twice, an open Run has no
   other Review, and a waiting one none of its candidate but the next. It is
   inductive given the two layers above, and what `ReviewedRelease` needs: that
   the version an executor makes is new to the reviewer, and that the Review
   acted on is the one that was asked last.
   From it: `ReleaseImplemented` (`Spec => ImplementsReviewedRelease`). What the
   reviewer sees of a step depends on the Run before and after it alone, so the
   proof goes through one relation of the two, `Turn`: `TurnMaps` shows that a
   turn is a step of `ReviewedRelease` or a stutter, `TurnKeeps` that it keeps the
   Reviews in turn, and one lemma per action of the Director (`...Seen`) that
   what it stores is a turn of the Run it found, or that Run.
4. `ReviewsAwaited`: while a Review is pending, the decision on it is the only
   thing that is stored. The proofs about the desk rest on it.

`Resumable` (`AlwaysResumable`) and `RefusalsChangeNothing`
(`RefusalChangesNothing`) have a hypothesis: that the plans a Run is taken up with
have the same number of steps (`SamePlanLengths`). It is not an assumption of the
model, and it cannot be dropped: finding 2 is what happens without it.

`QueueProofs`, for any set of briefs, any handlers and any sweeps:

- `QueueTyped`, then `WakeupsKept`, `EditsKept`, `QueuedOnceHeld` and `StopHeld`
  from the one inductive invariant `QueueInv`: the queue holds nothing twice, the
  worker's place agrees with the busy flag, sleepers have nothing to do, what
  is unseen is queued, and a stopped queue is empty. `AppendHolds` and
  `TailHolds` say what appending and taking do to the set of queued briefs.
- `PromisesKept`: `Spec => Requests!SafeSpec`, the safety part of the
  refinement. The abstract set of wanted briefs loses exactly the one that is
  taken because nothing is queued twice.

`ProductionProofs`, for any plans, policies and stored Runs, from the small
inductive invariant `InvocationInv` (the Director is idle outside production, a
decision is fetched for a pending review only, a report in progress is of the
stored status):

- `BoardKept`: `Spec => BoardFollowsStore`. Reports are made while nothing else
  runs, so the stored status cannot change under them.
- `DirectorImplemented`: `Spec => Director!Spec`. `FetchDecision` is a
  `TakeReviewDecision`; the other steps are the Director's own, or stutter.
- `OneDocKept`: `Spec => []OneDocPerReview`, for any number of lost answers.
- `PublishedOnceKept`: `Spec => []PublishedOnce`. Beyond `OneDocPerReview` it says
  that a package does not drift from what the store says of its review;
  `FolderInv` adds that no Doc is of a review that does not exist yet, and that
  the Doc of the pending one shows the candidate and verdict of the stored Run,
  which `ReviewsAwaited` keeps as they are until the decision.
- `LinkKept`, `QuietKept`: `LinkIsCurrent` and `QuietWhenSettled`, from `PageInv`,
  which says what the page and the reporter's memory of the link show at each
  place in `invoke`.

`ToolLoopProofs`, for any tools, grants and budget: `BudgetHeld`, `AllHeard` and
`AllAccounted` (`BudgetKept`, `NothingUnheard`, `TurnsAccounted`) from the
invariant `LoopInv`, which counts along the loop: whenever the provider is asked
again, it was asked at most once per call answered so far, every call it asked
for is answered, and there is one measurement per turn. `AnswerCounts` says that
an answer without a final call is a batch of operational ones.

`FactoryProofs`, for any catalogues and environment, from the invariant
`FactoryInv`: a graph that was built is the one `IsBuildable` was asked about
(`BuildingReadsConfig`: building asks the catalogues only), what is looked up in
the two maps is there and belongs to the same Agent (`GraphLooksUp`), the role
at work keeps the grant its conversation began with, and the conversation is in
`LoopInv`, which `ToolLoopProofs` shows to be kept.

- `SelectionHeld`, `GrantsHeld`, `AnswersJudged`: `SelectionNeverRaises`,
  `GrantsAreKept`, `JudgedAsAsked`. That ids are distinct is not needed.
- `ConversationKept`: what `ToolLoopProofs` shows of a conversation by itself
  holds of those of a factory.

`GoogleDeskProofs`, for any reviews, packages, material and edits, from the
invariant `DeskInv`: a Doc that was found alone stays the only one of its review
that has answered and is not in the trash, and the folder has no Doc of the
review that `publish` is about to create one for, unless a late creation has
landed since the search (`raced`).

- `OneVoiceHeld`: `Spec => []OneVoice`.
- `ReviewerDecides`: `Spec => []OnlyTheReviewerDecides`, for any edits.
  `BlockDecides` follows what a single decision line before a single reason line
  says about where the block of the reviewer ends; `FirstIsLeast` says that the
  first separator is one.
- `DeskImplemented`: `Spec => ImplementsDesk`. A creation is a `Publish` of
  `ReviewDesk` because no material makes a fresh Doc decided
  (`CreatedIsUndecided`: the separator of the block is the first one); an edit
  is a `Decide`.

Assumptions: `PolicyAssumption`, `BoundAssumption`, `LimitAssumption`,
`PlanAssumption`, `StoreAssumption`, `ProductionAssumption`, `ServiceAssumption`,
`LoopAssumption`, `FactoryAssumption`, `DeskAssumption`; the runs evaluate them.
`StoreAssumption` is the only one about data: a Run of an older director is one
the same operations made in the same order, so it is like the Runs of this one.
That goes for its Reviews too (`InTurn`): a version was never put up for review
twice, and a rework always answered the Review of the candidate it replaced. A
store written before Evaluations named their evaluator does not load
(`docs/adr/0026`, `0036`, `0044`). Each part of the invariants was checked by TLC on
`director` or `production` before it was proved.

Every safety property a passing run checks is a theorem. `QueueTyped`,
`QueuedOnceHeld` and `StopHeld` state properties no run checks any more, since
they are proved, and `KeepsPromises` says what `StopIsFinal` does.
Only model-checked: liveness (`AlwaysSettles`, `StopEnds`, `ReviewIsLinked`,
`DecisionIsTaken`, `DecisionIsRead`, the fair part of `KeepsPromises`), which is
out of the prover's reach.

## 5. Plan

Written: `RunOps`, `RunOpsProofs`, `RunAggregate`, `RunProofs`; `ContentDirector`,
`DirectorStore`, `ReviewedRelease`, `DirectorProofs`; `BriefRequests`, `ProductionQueue`, `QueueProofs`;
`StatusReporter`, `ReviewDesk`, `BriefProduction`, `ProductionProofs`; `ToolLoop`,
`ToolLoopProofs`; `Factory`, `FactoryProofs`; `GoogleDesk`, `GoogleDeskProofs`.

### Not modelled

- The snapshot codec: it encodes and decodes field by field and keeps nothing.
  `IsRestorable` is what is checked of its result.
- The service's HTTP routes and bodies: they parse one request each and end in
  `submit` or in the list of waiting Runs, which are modelled.
- The requests within one call of the Notion board: a page and its blocks are
  read, a property is written; a failure anywhere is the refused call of
  `StatusReporter` and `BriefProduction`.
- What Skills and Tools make of a text, prompts, prices, token counts, time
  ranges and printing: data no step depends on. That the pieces fit each other
  when the factory is built is `Factory`'s.
- `demo.py`: it runs a graph of its own once, with one client and no store.
- Two processes on one Run: the store has no concurrency control to state a
  property of (`docs/adr/0024-*.md`: "the last `save` wins").
