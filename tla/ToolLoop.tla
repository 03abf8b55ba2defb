------------------------------- MODULE ToolLoop -------------------------------
(***************************************************************************)
(* One completion (infrastructure/llm.py AnthropicLLMClient.complete): the *)
(* bounded conversation of a model with its Toolbox, and what its caller - *)
(* an executor or an evaluator - makes of it.  The provider can answer     *)
(* with anything or fail; a tool can fail or be defective; the clock that  *)
(* measures a turn can step back.                                          *)
(*                                                                         *)
(* A turn's measurement is its number, a call's input whether it fits the  *)
(* parameters the tool declares.  Text beside the calls is left out, as    *)
(* complete leaves it out.                                                 *)
(***************************************************************************)
EXTENDS Integers, Sequences, FiniteSets

CONSTANTS
  Tools,         \* the tools a model may ask for, granted or not
  EmitFields,    \* the name of the private tool that ends the conversation
  Grants,        \* the grants a Toolbox may be made from
  MaxToolCalls,  \* max_tool_calls
  MaxBlocks      \* bound: calls in one answer of the provider

ASSUME LoopAssumption ==
  /\ EmitFields \notin Tools
  /\ Grants \subseteq SUBSET (Tools \cup {EmitFields})
  /\ MaxToolCalls \in Nat \ {0} /\ MaxBlocks \in Nat

VARIABLES
  caller, granted,
  pc,
  metrics,    \* the turns measured so far
  used,       \* operational calls whose results were returned to the model
  batch,      \* the calls being invoked
  results,    \* their results so far
  outcome,    \* what the caller answers
  reported,   \* the measurements it answers with
  turns,      \* history: answers of the provider
  asked,      \* history: operational calls in them
  ran         \* history: tools that ran

conversation == <<metrics, used, batch, results>>
vars == <<caller, granted, pc, conversation, outcome, reported, turns, asked, ran>>

Verdicts == {"passed", "flagged", "failed"}

\* What of a QA answer's fields decode_verdict tells apart.
Fields == [verdict : Verdicts \cup {"unknown", "absent"},
           flags : {"some", "none", "malformed", "absent"}]
NoFields == [verdict |-> "absent", flags |-> "absent"]
NoObject == [verdict |-> "no object", flags |-> "absent"]    \* an input that is none

\* A tool_use block.
Call == [name : Tools, fits : BOOLEAN, fields : {NoFields}]
Final == [name : {EmitFields}, fits : {FALSE}, fields : Fields \cup {NoObject}]
Answers == UNION {[1..n -> Call \cup Final] : n \in 0..MaxBlocks}

IsFinal(block) == block.name = EmitFields
Finals(answer) == {i \in DOMAIN answer : IsFinal(answer[i])}
Operational(answer) == DOMAIN answer \ Finals(answer)

Status == {"ok", "failed", "refused"}
Outcome == {"none", "succeeded", "failed", "verdict", "no verdict", "exception"}

Init ==
  /\ caller \in {"executor", "evaluator"} /\ granted \in Grants
  /\ pc = "asking"
  /\ metrics = <<>> /\ used = 0 /\ batch = <<>> /\ results = <<>>
  /\ outcome = "none" /\ reported = <<>>
  /\ turns = 0 /\ asked = 0 /\ ran = 0

-----------------------------------------------------------------------------
(* How a completion ends. *)

DecodesVerdict(fields) ==
  /\ fields.verdict \in Verdicts /\ fields.flags \in {"some", "none"}
  /\ fields.verdict = "passed" \/ fields.flags = "some"

End(o, measurements) == pc' = "done" /\ outcome' = o /\ reported' = measurements

\* Mutant: an answer that is no verdict is raised without its measurements.
CompleteUnmeasured(fields) ==
  /\ IF caller = "executor" THEN End("succeeded", metrics')
     ELSE IF DecodesVerdict(fields) THEN End("verdict", metrics')
     ELSE End("no verdict", <<>>)
  /\ UNCHANGED <<used, batch, results>>

\* An executor leaves it to the Schema to judge the fields.
Complete(fields) ==
  /\ IF caller = "executor" THEN End("succeeded", metrics')
     ELSE IF DecodesVerdict(fields) THEN End("verdict", metrics')
     ELSE End("no verdict", metrics')
  /\ UNCHANGED <<used, batch, results>>

\* An LLMError: a managed failure, or no verdict.
Fail ==
  /\ End(IF caller = "executor" THEN "failed" ELSE "no verdict", metrics')
  /\ UNCHANGED <<used, batch, results>>

\* Any other exception leaves complete, execute and evaluate.
Escape == End("exception", <<>>)

-----------------------------------------------------------------------------
(* The turns. *)

Constant == UNCHANGED <<caller, granted>>
IsForced == granted = {}
Asks == pc = "asking" /\ EmitFields \notin granted

\* A tool has the finalizer's name.
NameReserved ==
  /\ pc = "asking" /\ EmitFields \in granted
  /\ UNCHANGED <<metrics, turns, asked, ran>> /\ Constant /\ Fail

\* No response, nothing to measure.
RequestFails ==
  /\ Asks
  /\ UNCHANGED <<metrics, turns, asked, ran>> /\ Constant /\ Fail

\* The provider has answered.
Turn(answer) ==
  /\ turns' = turns + 1 /\ asked' = asked + Cardinality(Operational(answer))
  /\ UNCHANGED ran /\ Constant

\* ... and the turn is measured.
Measured(answer) == metrics' = Append(metrics, turns + 1) /\ Turn(answer)

\* LLMCallMetrics refuses a turn that finished before it started.
MeasurementRefused(answer) ==
  /\ Asks /\ Turn(answer)
  /\ Escape /\ UNCHANGED conversation

\* _extract_fields: those of the first final call whose input is an object.
Extracted(answer) ==
  LET objects == {i \in Finals(answer) : answer[i].fields # NoObject}
  IN  IF objects = {} THEN NoFields
      ELSE answer[CHOOSE i \in objects : \A j \in objects : i <= j].fields

\* With no tool granted there is one turn, whatever else is called in it.
AnswerForced(answer) ==
  /\ Asks /\ IsForced /\ Measured(answer)
  /\ Complete(Extracted(answer))

\* Mutant: a final call counts whatever stands beside it.
AnswerFinalOrMixed(answer) ==
  /\ Asks /\ ~IsForced /\ Measured(answer)
  /\ \E i \in Finals(answer) : Complete(answer[i].fields)

AnswerFinal(answer) ==
  /\ Asks /\ ~IsForced /\ Measured(answer)
  /\ Len(answer) = 1 /\ Finals(answer) # {}
  /\ Complete(Extracted(answer))

FitsBudget(answer) == used + Len(answer) <= MaxToolCalls

\* Several final calls, final and other calls, no call, or too many calls.
AnswerRefused(answer) ==
  /\ Asks /\ ~IsForced /\ Measured(answer)
  /\ \/ Finals(answer) # {} /\ Len(answer) # 1
     \/ answer = <<>>
     \/ Finals(answer) = {} /\ ~FitsBudget(answer)
  /\ Fail

AnswerCalls(answer) ==
  /\ Asks /\ ~IsForced /\ Measured(answer)
  /\ Finals(answer) = {} /\ answer # <<>> /\ FitsBudget(answer)
  /\ pc' = "invoking" /\ batch' = answer
  /\ UNCHANGED <<used, results, outcome, reported>>

-----------------------------------------------------------------------------
(* Toolbox.invoke, for one call of the batch after the other. *)

NextCall == batch[Len(results) + 1]
IsInvoking == pc = "invoking" /\ Len(results) < Len(batch)
IsRefused(call) == call.name \notin granted \/ ~call.fits

Answered(status) ==
  /\ results' = Append(results, status)
  /\ UNCHANGED <<pc, metrics, used, batch, outcome, reported, turns, asked>> /\ Constant

InvokeRefused == IsInvoking /\ IsRefused(NextCall) /\ Answered("refused") /\ UNCHANGED ran

InvokeTool ==
  /\ IsInvoking /\ ~IsRefused(NextCall)
  /\ \E status \in {"ok", "failed"} : Answered(status)
  /\ ran' = ran + 1

\* The tool raises something else than ToolExecutionError.
ToolIsDefective ==
  /\ IsInvoking /\ ~IsRefused(NextCall)
  /\ Escape /\ ran' = ran + 1
  /\ UNCHANGED <<conversation, turns, asked>> /\ Constant

\* Mutant: only calls that were not refused use up the budget.
CallsUsedByRunning == Cardinality({i \in DOMAIN results : results[i] # "refused"})

CallsUsed == Len(results)

\* The results go back to the model.
ReturnResults ==
  /\ pc = "invoking" /\ Len(results) = Len(batch)
  /\ used' = used + CallsUsed
  /\ batch' = <<>> /\ results' = <<>> /\ pc' = "asking"
  /\ UNCHANGED <<metrics, outcome, reported, turns, asked, ran>> /\ Constant

Answer(answer) ==
  \/ MeasurementRefused(answer) \/ AnswerForced(answer) \/ AnswerFinal(answer)
  \/ AnswerRefused(answer) \/ AnswerCalls(answer)
Invoke == InvokeRefused \/ InvokeTool \/ ToolIsDefective \/ ReturnResults

Next == NameReserved \/ RequestFails \/ Invoke \/ \E answer \in Answers : Answer(answer)

Spec == Init /\ [][Next]_vars

-----------------------------------------------------------------------------
(* The variables keep their shape, and no more calls are answered than the *)
(* budget has (llm.py complete).                                           *)
TypeOK ==
  /\ caller \in {"executor", "evaluator"} /\ granted \in Grants
  /\ pc \in {"asking", "invoking", "done"} /\ outcome \in Outcome
  /\ metrics \in Seq(Nat) /\ reported \in Seq(Nat)
  /\ used \in 0..MaxToolCalls /\ batch \in Seq(Call) /\ results \in Seq(Status)
  /\ turns \in Nat /\ asked \in Nat /\ ran \in Nat

(* Whatever the model asks for, a completion ends: no more tools run than  *)
(* the budget has calls, and the provider is paid for one more answer at   *)
(* most.  Refused calls use the budget up like the others, or a model that *)
(* insists on a tool it was not granted would never stop (llm.py complete).*)
BudgetKept == ran <= MaxToolCalls /\ turns <= MaxToolCalls + 1

(* A final answer does not race with effects the model has not seen: when  *)
(* a completion succeeds, every call the model asked for with its tools    *)
(* was answered before; and when it fails, no tool ran whose result was    *)
(* not returned, so the refused batch ran not even in part (llm.py         *)
(* complete, docs/adr/0028).                                               *)
NothingUnheard ==
  /\ outcome \in {"succeeded", "verdict"} /\ granted # {} => asked = used
  /\ outcome \in {"succeeded", "verdict", "failed", "no verdict"} => ran <= used

(* Every answer the provider was paid for is accounted once and in order,  *)
(* whether the completion ends in fields, in an LLMError or in fields that *)
(* are no verdict (llm.py complete, execute, evaluate).                    *)
TurnsAccounted ==
  outcome \notin {"none", "exception"} => reported = [i \in 1..turns |-> i]

(* "Every completed real model turn produces reliable, attributable Run    *)
(* analytics" (docs/adr/0029): also the turns of a completion that ends in *)
(* another exception.                                                      *)
EveryTurnProducesAnalytics == outcome # "none" => Len(reported) = turns
=============================================================================
