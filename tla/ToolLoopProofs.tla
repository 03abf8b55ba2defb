---------------------------- MODULE ToolLoopProofs ----------------------------
(***************************************************************************)
(* Proofs about ToolLoop for any tools, grants and budget.  The invariant  *)
(* counts along the loop: at most one turn per call that was answered, all *)
(* asked-for calls answered whenever the provider is asked again, and one  *)
(* measurement per turn.                                                   *)
(***************************************************************************)
EXTENDS ToolLoop, FiniteSetTheorems, TLAPS

Accounts ==
  /\ outcome # "exception" => metrics = [i \in 1..turns |-> i]
  /\ outcome \notin {"none", "exception"} => reported = metrics

Asking ==
  pc = "asking" =>
    /\ outcome = "none" /\ batch = <<>> /\ results = <<>>
    /\ turns <= used /\ ran <= used /\ asked = used

Invoking ==
  pc = "invoking" =>
    /\ outcome = "none"
    /\ Len(results) <= Len(batch) /\ Len(batch) >= 1
    /\ used + Len(batch) <= MaxToolCalls
    /\ turns <= used + 1 /\ ran <= used + Len(results)
    /\ asked = used + Len(batch)

Done == pc = "done" => outcome # "none" /\ BudgetKept /\ NothingUnheard

LoopInv == TypeOK /\ Accounts /\ Asking /\ Invoking /\ Done

(* An answer is a sequence, and of its calls either all are operational or *)
(* some are final.                                                         *)
LEMMA AnswerCounts ==
  ASSUME NEW answer \in Answers
  PROVE  /\ answer \in Seq(Call \cup Final) /\ Len(answer) \in Nat
         /\ Cardinality(Operational(answer)) \in Nat
         /\ Finals(answer) = {} =>
              answer \in Seq(Call) /\ Cardinality(Operational(answer)) = Len(answer)
         /\ Finals(answer) # {} /\ Len(answer) = 1 =>
              Cardinality(Operational(answer)) = 0
<1>1. PICK n \in 0..MaxBlocks : answer \in [1..n -> Call \cup Final]
  BY DEF Answers
<1>2. n \in Nat /\ DOMAIN answer = 1..n /\ Len(answer) = n
      /\ answer \in Seq(Call \cup Final)
  BY <1>1, LoopAssumption
<1>3. IsFiniteSet(1..n) /\ Cardinality(1..n) = n
  BY <1>2, FS_Interval
<1>4. Operational(answer) \subseteq 1..n
  BY <1>2 DEF Operational
<1>5. Cardinality(Operational(answer)) \in Nat
  BY <1>3, <1>4, FS_Subset, FS_CardinalityType
<1>6. ASSUME Finals(answer) = {}
      PROVE  answer \in Seq(Call) /\ Cardinality(Operational(answer)) = Len(answer)
  <2>1. Operational(answer) = 1..n
    BY <1>2, <1>6 DEF Operational
  <2>2. \A i \in 1..n : answer[i] \in Call
    BY <1>1, <1>2, <1>6 DEF Finals, IsFinal, Final
  <2>3. answer \in [1..n -> Call]
    BY <1>1, <2>2
  <2> QED BY <1>2, <1>3, <2>1, <2>3
<1>7. ASSUME Finals(answer) # {}, Len(answer) = 1
      PROVE  Cardinality(Operational(answer)) = 0
  <2>1. n = 1 /\ 1..n = {1}
    BY <1>2, <1>7
  <2>2. Operational(answer) = {}
    BY <1>2, <1>7, <2>1 DEF Operational, Finals
  <2> QED BY <2>2, FS_EmptySet
<1> QED BY <1>2, <1>5, <1>6, <1>7

\* The initial states satisfy the invariant.
LEMMA InitEstablishes == Init => LoopInv
<1> SUFFICES ASSUME Init PROVE LoopInv
  OBVIOUS
<1>1. TypeOK
  BY LoopAssumption DEF Init, TypeOK, Outcome
<1>2. metrics = [i \in 1..turns |-> i]
  BY DEF Init
<1> QED BY <1>1, <1>2 DEF Init, LoopInv, Accounts, Asking, Invoking, Done

(* One more measured turn keeps the measurements one per turn.             *)
LEMMA MeasuredCounts ==
  ASSUME LoopInv, Asks, NEW answer \in Answers, Measured(answer)
  PROVE  /\ metrics' = [i \in 1..turns' |-> i] /\ metrics' \in Seq(Nat)
         /\ turns' = turns + 1 /\ turns' \in Nat /\ turns' <= used + 1
         /\ asked' = used + Cardinality(Operational(answer)) /\ asked' \in Nat
         /\ ran' = ran /\ ran <= used /\ UNCHANGED <<caller, granted>>
<1>1. metrics = [i \in 1..turns |-> i] /\ metrics \in Seq(Nat) /\ turns \in Nat
      /\ turns <= used /\ ran <= used /\ asked = used /\ used \in Nat
  BY LoopAssumption DEF LoopInv, Accounts, Asking, TypeOK, Asks
<1>2. metrics' = Append(metrics, turns + 1) /\ turns' = turns + 1
      /\ asked' = asked + Cardinality(Operational(answer)) /\ ran' = ran
      /\ UNCHANGED <<caller, granted>>
  BY DEF Measured, Turn, Constant
<1>3. Append(metrics, turns + 1) = [i \in 1..(turns + 1) |-> i]
  BY <1>1
<1> QED BY <1>1, <1>2, <1>3, AnswerCounts

\* Every step keeps the invariant.
LEMMA StepKeeps == LoopInv /\ [Next]_vars => LoopInv'
<1> SUFFICES ASSUME LoopInv, [Next]_vars PROVE LoopInv'
  OBVIOUS
<1> USE LoopAssumption
\* A completion that ends with what was measured.
<1>a. ASSUME metrics' = [i \in 1..turns' |-> i], metrics' \in Seq(Nat), turns' \in Nat,
             turns' <= used + 1, ran' = ran, ran <= used, asked' \in Nat, UNCHANGED <<caller, granted>>,
             UNCHANGED <<used, batch, results>>,
             pc' = "done", outcome' \in Outcome \ {"none", "exception"}, reported' = metrics',
             outcome' \in {"succeeded", "verdict"} /\ granted # {} => asked' = used
      PROVE  LoopInv'
  <2>1. TypeOK'
    BY <1>a DEF LoopInv, TypeOK
  <2>2. Accounts'
    BY <1>a DEF Accounts
  <2>3. used \in Nat /\ used <= MaxToolCalls /\ ran \in Nat
    BY DEF LoopInv, TypeOK
  <2>4. BudgetKept'
    <3>1. ran' <= MaxToolCalls /\ turns' <= MaxToolCalls + 1
      BY <1>a, <2>3
    <3> QED BY <3>1 DEF BudgetKept
  <2>5. NothingUnheard'
    <3>1. ran' <= used'
      BY <1>a
    <3> QED BY <1>a, <3>1 DEF NothingUnheard
  <2> QED BY <1>a, <2>1, <2>2, <2>4, <2>5 DEF LoopInv, Asking, Invoking, Done
\* A completion that ends in another exception.
<1>b. ASSUME Escape, turns' \in Nat, turns' <= MaxToolCalls + 1, ran' \in Nat,
             ran' <= MaxToolCalls, asked' \in Nat, UNCHANGED <<caller, granted>>, UNCHANGED conversation
      PROVE  LoopInv'
  <2>0. pc' = "done" /\ outcome' = "exception" /\ reported' = <<>>
        /\ UNCHANGED <<metrics, used, batch, results>>
    BY <1>b DEF Escape, End, conversation
  <2>1. TypeOK'
    <3>1. reported' \in Seq(Nat) /\ outcome' \in Outcome
      BY <2>0 DEF Outcome
    <3>2. metrics' \in Seq(Nat) /\ used' \in 0..MaxToolCalls
          /\ batch' \in Seq(Call) /\ results' \in Seq(Status)
      BY <2>0 DEF LoopInv, TypeOK
    <3>3. caller' \in {"executor", "evaluator"} /\ granted' \in Grants
      BY <1>b DEF LoopInv, TypeOK
    <3> QED BY <1>b, <2>0, <3>1, <3>2, <3>3 DEF TypeOK
  <2>2. BudgetKept' /\ NothingUnheard' /\ Accounts'
    BY <1>b DEF BudgetKept, NothingUnheard, Accounts, Escape, End
  <2> QED BY <1>b, <2>1, <2>2 DEF LoopInv, Asking, Invoking, Done, Escape, End
<1>1. ASSUME UNCHANGED <<metrics, turns, asked, ran>>, Constant, pc = "asking", Fail
      PROVE  LoopInv'
  <2>1. metrics' = [i \in 1..turns' |-> i] /\ metrics' \in Seq(Nat)
        /\ turns' \in Nat /\ turns' <= used + 1 /\ ran <= used /\ asked' \in Nat
    BY <1>1 DEF LoopInv, TypeOK, Accounts, Asking
  <2>2. outcome' \in {"failed", "no verdict"} /\ reported' = metrics' /\ pc' = "done"
        /\ UNCHANGED <<used, batch, results>>
    BY <1>1 DEF Fail, End
  <2> QED BY <1>1, <1>a, <2>1, <2>2 DEF Constant, Outcome
<1>2. CASE NameReserved
  BY <1>1, <1>2 DEF NameReserved
<1>3. CASE RequestFails
  BY <1>1, <1>3 DEF RequestFails, Asks
<1>4. ASSUME NEW answer \in Answers, Answer(answer)
      PROVE  LoopInv'
  <2>0. ASSUME Asks, Measured(answer), NEW fields, Complete(fields),
               granted # {} => Cardinality(Operational(answer)) = 0
        PROVE  LoopInv'
    <3>1. outcome' \in {"succeeded", "verdict", "no verdict"} /\ reported' = metrics'
          /\ pc' = "done" /\ UNCHANGED <<used, batch, results>>
      BY <2>0 DEF Complete, End
    <3>2. used \in Nat
      BY DEF LoopInv, TypeOK
    <3>3. granted # {} => asked' = used
      BY <2>0, <3>2, MeasuredCounts
    <3>4. /\ metrics' = [i \in 1..turns' |-> i] /\ metrics' \in Seq(Nat)
          /\ turns' \in Nat /\ turns' <= used + 1
          /\ asked' \in Nat /\ ran' = ran /\ ran <= used /\ UNCHANGED <<caller, granted>>
      BY <2>0, MeasuredCounts
    <3>5. outcome' \in Outcome \ {"none", "exception"}
      BY <3>1 DEF Outcome
    <3>6. outcome' \in {"succeeded", "verdict"} /\ granted # {} => asked' = used
      BY <3>3
    <3> QED BY <3>1, <3>4, <3>5, <3>6, <1>a
  <2>1. CASE MeasurementRefused(answer)
    <3>1. turns' = turns + 1 /\ asked' = asked + Cardinality(Operational(answer))
          /\ ran' = ran /\ UNCHANGED <<caller, granted>> /\ Escape /\ UNCHANGED conversation
      BY <2>1 DEF MeasurementRefused, Turn, Constant
    <3>2. turns \in Nat /\ turns <= MaxToolCalls /\ ran \in Nat /\ ran <= MaxToolCalls
          /\ asked \in Nat
      BY <2>1 DEF MeasurementRefused, Asks, LoopInv, TypeOK, Asking
    <3> QED BY <3>1, <3>2, <1>b, AnswerCounts
  <2>2. CASE AnswerForced(answer)
    BY <2>2, <2>0 DEF AnswerForced, IsForced
  <2>3. CASE AnswerFinal(answer)
    BY <2>3, <2>0, AnswerCounts DEF AnswerFinal
  <2>4. CASE AnswerRefused(answer)
    <3>1. Asks /\ Measured(answer) /\ Fail
      BY <2>4 DEF AnswerRefused
    <3>2. outcome' \in {"failed", "no verdict"} /\ reported' = metrics' /\ pc' = "done"
          /\ UNCHANGED <<used, batch, results>>
      BY <3>1 DEF Fail, End
    <3> QED BY <3>1, <3>2, <1>a, MeasuredCounts DEF Outcome
  <2>5. CASE AnswerCalls(answer)
    <3>1. Asks /\ Measured(answer) /\ Finals(answer) = {} /\ answer # <<>>
          /\ used + Len(answer) <= MaxToolCalls /\ pc' = "invoking" /\ batch' = answer
          /\ UNCHANGED <<used, results, outcome, reported>>
      BY <2>5 DEF AnswerCalls, FitsBudget
    <3>2. answer \in Seq(Call) /\ Len(answer) \in Nat /\ Len(answer) >= 1
          /\ asked' = used + Len(answer)
      BY <3>1, AnswerCounts, MeasuredCounts
    <3>3. outcome = "none" /\ results = <<>> /\ used \in Nat /\ ran \in Nat
      BY <3>1 DEF Asks, LoopInv, Asking, TypeOK
    <3>4. TypeOK'
      BY <3>1, <3>2, MeasuredCounts DEF LoopInv, TypeOK
    <3>5. Accounts'
      BY <3>1, <3>3, MeasuredCounts DEF Accounts
    <3>6. Invoking'
      BY <3>1, <3>2, <3>3, MeasuredCounts DEF Invoking
    <3> QED BY <3>1, <3>4, <3>5, <3>6 DEF LoopInv, Asking, Done
  <2> QED BY <1>4, <2>1, <2>2, <2>3, <2>4, <2>5 DEF Answer
<1>5. CASE Invoke
  <2>0. pc = "invoking" /\ outcome = "none" /\ Len(batch) >= 1
        /\ Len(results) <= Len(batch) /\ used + Len(batch) <= MaxToolCalls
        /\ turns <= used + 1 /\ ran <= used + Len(results) /\ asked = used + Len(batch)
    BY <1>5 DEF Invoke, InvokeRefused, InvokeTool, ToolIsDefective, ReturnResults,
                IsInvoking, LoopInv, Invoking
  <2>t. used \in Nat /\ turns \in Nat /\ ran \in Nat /\ asked \in Nat
        /\ results \in Seq(Status) /\ batch \in Seq(Call)
        /\ Len(results) \in Nat /\ Len(batch) \in Nat
    BY DEF LoopInv, TypeOK
  <2>1. ASSUME NEW status \in Status, IsInvoking, Answered(status), ran' \in {ran, ran + 1}
        PROVE  LoopInv'
    <3>1. results' = Append(results, status) /\ Len(results) < Len(batch)
          /\ UNCHANGED <<pc, metrics, used, batch, outcome, reported, turns, asked>> /\ UNCHANGED <<caller, granted>>
      BY <2>1 DEF Answered, IsInvoking, Constant
    <3>2. results' \in Seq(Status) /\ Len(results') = Len(results) + 1
      BY <3>1, <2>t
    <3>3. TypeOK' /\ Accounts'
      BY <2>1, <2>t, <3>1, <3>2 DEF LoopInv, TypeOK, Accounts
    <3>4. Invoking'
      BY <2>0, <2>1, <2>t, <3>1, <3>2 DEF Invoking
    <3> QED BY <2>0, <3>1, <3>3, <3>4 DEF LoopInv, Asking, Done
  <2>2. CASE InvokeRefused
    BY <2>1, <2>2 DEF InvokeRefused, Status
  <2>3. CASE InvokeTool
    BY <2>1, <2>3 DEF InvokeTool, Status
  <2>4. CASE ToolIsDefective
    <3>1. Escape /\ ran' = ran + 1 /\ UNCHANGED <<conversation, turns, asked>> /\ UNCHANGED <<caller, granted>>
          /\ Len(results) < Len(batch)
      BY <2>4 DEF ToolIsDefective, IsInvoking, Constant
    <3> QED BY <2>0, <2>t, <3>1, <1>b
  <2>5. CASE ReturnResults
    <3>1. Len(results) = Len(batch) /\ used' = used + Len(results)
          /\ batch' = <<>> /\ results' = <<>> /\ pc' = "asking" /\ UNCHANGED <<caller, granted>>
          /\ UNCHANGED <<metrics, outcome, reported, turns, asked, ran>>
      BY <2>5 DEF ReturnResults, CallsUsed, Constant
    <3>2. used' \in 0..MaxToolCalls
      BY <2>0, <2>t, <3>1
    <3>3. TypeOK' /\ Accounts'
      BY <3>1, <3>2 DEF LoopInv, TypeOK, Accounts
    <3>4. Asking'
      BY <2>0, <2>t, <3>1 DEF Asking
    <3> QED BY <3>1, <3>3, <3>4 DEF LoopInv, Invoking, Done
  <2> QED BY <1>5, <2>2, <2>3, <2>4, <2>5 DEF Invoke
<1>6. CASE UNCHANGED vars
  BY <1>6 DEF vars, conversation, LoopInv, TypeOK, Accounts, Asking, Invoking, Done,
              BudgetKept, NothingUnheard
<1> QED BY <1>2, <1>3, <1>4, <1>5, <1>6 DEF Next

\* The invariant the theorems below rest on.
LEMMA LoopInvHolds == Spec => []LoopInv
BY InitEstablishes, StepKeeps, PTL DEF Spec

(* A completion ends within its budget: at most MaxToolCalls tools run and *)
(* at most one turn more is paid for, whatever provider and tools do       *)
(* (llm.py complete).                                                      *)
THEOREM BudgetHeld == Spec => []BudgetKept
<1>1. LoopInv => BudgetKept
  BY LoopAssumption DEF LoopInv, TypeOK, Asking, Invoking, Done, BudgetKept
<1> QED BY <1>1, LoopInvHolds, PTL

(* No completion succeeds before every call was answered, or fails after a *)
(* tool ran unheard (llm.py complete).                                     *)
THEOREM AllHeard == Spec => []NothingUnheard
<1>1. LoopInv => NothingUnheard
  BY DEF LoopInv, TypeOK, Asking, Invoking, Done, NothingUnheard
<1> QED BY <1>1, LoopInvHolds, PTL

(* Each answer of the provider is accounted once and in order, unless an   *)
(* exception other than an LLMError ends the completion (llm.py).          *)
THEOREM AllAccounted == Spec => []TurnsAccounted
<1>1. LoopInv => TurnsAccounted
  BY DEF LoopInv, Accounts, TurnsAccounted
<1> QED BY <1>1, LoopInvHolds, PTL
=============================================================================
