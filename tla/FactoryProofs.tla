---------------------------- MODULE FactoryProofs ----------------------------
(***************************************************************************)
(* Proofs about Factory for any catalogues.  A graph that was built is the *)
(* one IsBuildable was asked about, so what Select looks up is there; the  *)
(* role at work keeps the grant its conversation began with; and until     *)
(* then there is no conversation, from then on ToolLoopProofs' invariant.  *)
(***************************************************************************)
EXTENDS Factory, ToolLoopProofs

Graph ==
  stage \notin {"starting", "refused"} =>
    /\ IsBuildable
    /\ executors = ExecutorMap /\ bindings = SchemaMap /\ evaluator = config.qa

Schemas == DOMAIN status = DOMAIN config.schemas

\* Before a role is chosen nothing was asked of any model.
Quiet ==
  stage \in {"starting", "refused", "built"} =>
    /\ pc = "done" /\ outcome = "none" /\ output = "none"
    /\ metrics = <<>> /\ used = 0 /\ batch = <<>> /\ results = <<>>
    /\ reported = <<>> /\ turns = 0 /\ asked = 0 /\ ran = 0

AtWork ==
  stage \in {"running", "inactive", "finalized"} =>
    /\ granted = {ToolId[ref] : ref \in Elements(role.tool_refs)}
    /\ caller = "executor" => role \in Agents /\ role.agent_id \in Elements(config.steps)
    /\ LoopInv

Stages == stage \in {"starting", "refused", "built", "running", "inactive", "finalized"}

Judged == output # "none" => stage = "finalized" /\ JudgedAsAsked

FactoryInv ==
  config \in Configurations /\ Stages /\ Schemas /\ Graph /\ Quiet /\ AtWork /\ Judged

(* An id is found in the catalogue again.                                  *)
LEMMA AgentIsFound ==
  ASSUME NEW id \in Ids
  PROVE  AgentOf(id) \in Agents /\ AgentOf(id).agent_id = id
BY DEF Ids, AgentOf

(* What is looked up for an Agent of a graph that was built.               *)
LEMMA GraphLooksUp ==
  ASSUME IsBuildable, executors = ExecutorMap, bindings = SchemaMap, NEW id \in Ids
  PROVE  /\ id \in DOMAIN executors /\ id \in DOMAIN bindings
         /\ bindings[id] \in DOMAIN config.schemas
         /\ executors[id].toolbox = Elements(AgentOf(id).tool_refs)
         /\ executors[id].shape = config.schemas[bindings[id]]
<1>1. AgentOf(id) \in Agents
  BY AgentIsFound
<1>2. IsResolved(AgentOf(id))
  BY <1>1 DEF IsBuildable, IsExecutable
<1>3. SchemaOf(AgentOf(id)) \in DOMAIN config.schemas
  BY <1>2 DEF IsResolved
<1>4. executors[id] = Executor(AgentOf(id)) /\ bindings[id] = SchemaOf(AgentOf(id))
  BY DEF ExecutorMap, SchemaMap
<1>5. id \in DOMAIN executors /\ id \in DOMAIN bindings
  BY DEF ExecutorMap, SchemaMap
<1> QED BY <1>3, <1>4, <1>5 DEF Executor, Shape

(* Building asks the catalogues only, and those are fixed.                 *)
LEMMA BuildingReadsConfig ==
  ASSUME UNCHANGED config
  PROVE  UNCHANGED <<Agents, IsBuildable, ExecutorMap, SchemaMap>>
<1>1. Agents' = Agents
  BY DEF Agents, Elements
<1>2. Ids' = Ids
  BY <1>1 DEF Ids
<1>3. ASSUME NEW id PROVE AgentOf(id)' = AgentOf(id)
  BY <1>1 DEF AgentOf
<1>4. ASSUME NEW agent PROVE Prompts(agent)' = Prompts(agent)
  BY DEF Prompts, Elements
<1>5. ASSUME NEW agent PROVE SchemaOf(agent)' = SchemaOf(agent)
  BY <1>4 DEF SchemaOf
<1>6. ASSUME NEW agent PROVE IsResolved(agent)' = IsResolved(agent) /\ Shape(agent)' = Shape(agent)
  BY <1>4, <1>5 DEF IsResolved, Shape
<1>7. ASSUME NEW agent PROVE IsGrantable(agent.tool_refs)' = IsGrantable(agent.tool_refs)
  BY DEF IsGrantable, IsDistinct, Elements
<1>8. ASSUME NEW agent PROVE IsClient(BindingOf(agent))' = IsClient(BindingOf(agent))
  BY DEF IsClient, BindingOf, IsPriced, IsBounded, IsThinking, FitsRequest
<1>9. ASSUME NEW agent PROVE IsExecutable(agent)' = IsExecutable(agent)
  BY <1>6, <1>7, <1>8 DEF IsExecutable
<1>10. ASSUME NEW agent PROVE IsEvaluator(agent)' = IsEvaluator(agent)
  BY <1>6, <1>7, <1>8 DEF IsEvaluator
<1>11. IsBoardConfigured' = IsBoardConfigured /\ IsDeskConfigured' = IsDeskConfigured
       /\ IsServiceConfigured' = IsServiceConfigured
  BY DEF IsBoardConfigured, IsDeskConfigured, IsServiceConfigured
<1>12. IsCatalogue(config.prompts)' = IsCatalogue(config.prompts)
  BY DEF IsCatalogue, IsDistinct
<1>13. IsValid' = IsValid
  BY <1>2 DEF IsValid, Elements
<1>14. IsDistinct([i \in DOMAIN config.agents |-> config.agents[i].agent_id])'
       = IsDistinct([i \in DOMAIN config.agents |-> config.agents[i].agent_id])
  BY DEF IsDistinct
<1>15. IsBuildable' = IsBuildable
  BY <1>1, <1>9, <1>10, <1>11, <1>12, <1>13, <1>14 DEF IsBuildable
<1>16. ExecutorMap' = ExecutorMap
  BY <1>2, <1>3, <1>6 DEF ExecutorMap, Executor, Elements
<1>17. SchemaMap' = SchemaMap
  BY <1>2, <1>3, <1>5 DEF SchemaMap
<1> QED BY <1>1, <1>15, <1>16, <1>17

(* A configured role's grant is one the Toolbox may be made from.          *)
LEMMA GrantIsTyped ==
  ASSUME config \in Configurations, NEW agent, agent \in Agents \/ (agent = config.qa /\ agent # NoAgent)
  PROVE  {ToolId[ref] : ref \in Elements(agent.tool_refs)} \in Grants
<1>1. Configuration(config)
  BY FactoryAssumption DEF FactoryAssumption
<1>2. agent \in Agent
  <2>1. CASE agent \in Agents
    <3>1. config.agents \in Seq(Agent)
      BY <1>1 DEF Configuration
    <3> QED BY <2>1, <3>1 DEF Agents, Elements
  <2>2. CASE agent = config.qa /\ agent # NoAgent
    BY <1>1, <2>2 DEF Configuration
  <2> QED BY <2>1, <2>2
<1>3. agent.tool_refs \in Seq(ToolRefs)
  BY <1>2 DEF Agent
<1>4. Elements(agent.tool_refs) \subseteq ToolRefs
  BY <1>3 DEF Elements
<1>5. \A ref \in ToolRefs : ToolId[ref] \in Tools \cup {EmitFields}
  BY FactoryAssumption DEF FactoryAssumption
<1>6. Grants = SUBSET (Tools \cup {EmitFields})
  BY FactoryAssumption DEF FactoryAssumption
<1> QED BY <1>4, <1>5, <1>6

(* A conversation begins as ToolLoop's does.                               *)
LEMMA BeginStarts ==
  ASSUME FactoryInv, stage = "built", NEW kind \in {"executor", "evaluator"}, NEW agent,
         agent \in Agents \/ (agent = config.qa /\ agent # NoAgent),
         kind = "executor" => agent \in Agents /\ agent.agent_id \in Elements(config.steps),
         Begin(kind, agent, Elements(agent.tool_refs))
  PROVE  FactoryInv'
<1>1. /\ stage' = "running" /\ role' = agent /\ caller' = kind /\ pc' = "asking"
      /\ granted' = {ToolId[ref] : ref \in Elements(agent.tool_refs)}
      /\ UNCHANGED <<config, executors, bindings, evaluator, status, filled, output>>
      /\ UNCHANGED <<metrics, used, batch, results, outcome, reported, turns, asked, ran>>
  BY DEF Begin, built, conversation
<1>2. /\ outcome = "none" /\ output = "none"
      /\ metrics = <<>> /\ used = 0 /\ batch = <<>> /\ results = <<>>
      /\ reported = <<>> /\ turns = 0 /\ asked = 0 /\ ran = 0
  BY DEF FactoryInv, Quiet
<1>3. granted' \in Grants
  BY <1>1, GrantIsTyped DEF FactoryInv
<1>4. LoopInv'
  <2>1. TypeOK'
    BY <1>1, <1>2, <1>3, LoopAssumption DEF TypeOK, Outcome
  <2>2. metrics' = [i \in 1..turns' |-> i]
    BY <1>1, <1>2
  <2> QED BY <1>1, <1>2, <2>1, <2>2 DEF LoopInv, Accounts, Asking, Invoking, Done
<1>5. AtWork'
  BY <1>1, <1>4 DEF AtWork, Agents
<1>6. Graph'
  BY <1>1, BuildingReadsConfig DEF FactoryInv, Graph
<1> QED BY <1>1, <1>2, <1>5, <1>6 DEF FactoryInv, Stages, Schemas, Quiet, Judged

\* The initial states satisfy the invariant.
LEMMA FactoryInitEstablishes == FactoryInit => FactoryInv
BY DEF FactoryInit, FactoryInv, Stages, Schemas, Graph, Quiet, AtWork, Judged

(* A conversation keeps its caller and its grant.                          *)
LEMMA NextKeepsGrant == ASSUME Next PROVE UNCHANGED <<caller, granted>>
BY DEF Next, NameReserved, RequestFails, Invoke, Answer, Constant, Answered, InvokeRefused,
   InvokeTool, ToolIsDefective, ReturnResults, MeasurementRefused, AnswerForced, AnswerFinal,
   AnswerRefused, AnswerCalls, Measured, Turn

(* A tool runs only when the call names one that was granted.              *)
LEMMA ToolsRunGranted == ASSUME Next, ran' # ran PROVE NextCall.name \in granted
BY DEF Next, NameReserved, RequestFails, Invoke, Answer, Constant, Answered, InvokeRefused,
   InvokeTool, ToolIsDefective, ReturnResults, MeasurementRefused, AnswerForced, AnswerFinal,
   AnswerRefused, AnswerCalls, Measured, Turn, IsRefused

(* The process keeps to a graph that was buildable, one role at work, and  *)
(* the loop's own invariant once there is a conversation.                  *)
LEMMA FactoryStepKeeps == FactoryInv /\ [FactoryNext]_factory => FactoryInv'
<1> SUFFICES ASSUME FactoryInv, [FactoryNext]_factory PROVE FactoryInv'
  OBVIOUS
<1>a. UNCHANGED loop /\ LoopInv => LoopInv'
  BY StepKeeps DEF loop
<1>1. CASE Build
  <2>1. stage = "starting" /\ IsBuildable /\ stage' = "built" /\ executors' = ExecutorMap
        /\ bindings' = SchemaMap /\ evaluator' = config.qa
        /\ UNCHANGED <<config, status, role, filled, output, loop>>
    BY <1>1 DEF Build
  <2>2. Graph'
    BY <2>1, BuildingReadsConfig DEF Graph
  <2>3. Quiet'
    BY <2>1 DEF FactoryInv, Quiet, loop, vars, conversation
  <2> QED BY <2>1, <2>2, <2>3 DEF FactoryInv, Stages, Schemas, AtWork, Judged, Quiet
<1>2. CASE RefuseToBuild
  <2>1. stage = "starting" /\ stage' = "refused"
        /\ UNCHANGED <<config, status, executors, bindings, evaluator, role, filled, output, loop>>
    BY <1>2 DEF RefuseToBuild
  <2>2. Quiet'
    BY <2>1 DEF FactoryInv, Quiet, loop, vars, conversation
  <2> QED BY <2>1, <2>2 DEF FactoryInv, Stages, Schemas, Graph, AtWork, Judged, Quiet
<1>3. ASSUME NEW id \in Elements(config.steps), Select(id)
      PROVE  FactoryInv'
  <2>1. stage = "built" /\ IsBuildable /\ executors = ExecutorMap /\ bindings = SchemaMap
    BY <1>3 DEF Select, FactoryInv, Graph
  <2>2. id \in Ids
    BY <2>1 DEF IsBuildable, IsValid
  <2>3. AgentOf(id) \in Agents /\ AgentOf(id).agent_id = id
    BY <2>2, AgentIsFound
  <2>4. id \in DOMAIN executors /\ executors[id].toolbox = Elements(AgentOf(id).tool_refs)
    BY <2>1, <2>2, GraphLooksUp
  <2>5. Begin("executor", AgentOf(id), Elements(AgentOf(id).tool_refs))
    BY <1>3, <2>4 DEF Select
  <2> QED BY <2>1, <2>3, <2>5, BeginStarts
<1>4. CASE SelectQa
  <2>1. stage = "built" /\ evaluator # NoAgent /\ Begin("evaluator", evaluator, Elements(evaluator.tool_refs))
    BY <1>4 DEF SelectQa
  <2>2. evaluator = config.qa
    BY <2>1 DEF FactoryInv, Graph
  <2> QED BY <2>1, <2>2, BeginStarts
<1>5. CASE Converse
  <2>1. stage = "running" /\ Next
        /\ UNCHANGED <<config, executors, bindings, evaluator, status, stage, role, filled, output>>
    BY <1>5 DEF Converse, built
  <2>2. LoopInv'
    BY <2>1, StepKeeps DEF FactoryInv, AtWork
  <2>3. UNCHANGED <<caller, granted>>
    BY <2>1, NextKeepsGrant
  <2>4. AtWork'
    BY <2>1, <2>2, <2>3, BuildingReadsConfig DEF FactoryInv, AtWork, Elements
  <2>5. Graph'
    BY <2>1, BuildingReadsConfig DEF FactoryInv, Graph
  <2>6. output = "none"
    BY <2>1 DEF FactoryInv, Judged
  <2> QED BY <2>1, <2>4, <2>5, <2>6 DEF FactoryInv, Stages, Schemas, Quiet, Judged
<1>6. CASE SchemaInactive
  <2>1. IsAnswered /\ stage' = "inactive"
        /\ UNCHANGED <<config, executors, bindings, evaluator, status, role, filled, output, loop>>
    BY <1>6 DEF SchemaInactive, built
  <2>2. stage = "running" /\ output = "none"
    BY <2>1 DEF IsAnswered, FactoryInv, Judged
  <2>3. LoopInv' /\ UNCHANGED <<caller, granted>>
    BY <2>1, <2>2, <1>a DEF FactoryInv, AtWork, loop, vars
  <2>4. AtWork'
    BY <2>1, <2>2, <2>3, BuildingReadsConfig DEF FactoryInv, AtWork, Elements
  <2>5. Graph'
    BY <2>1, <2>2, BuildingReadsConfig DEF FactoryInv, Graph
  <2> QED BY <2>1, <2>2, <2>4, <2>5 DEF FactoryInv, Stages, Schemas, Quiet, Judged
<1>7. ASSUME NEW fields \in SUBSET FieldNames, Finalize(fields)
      PROVE  FactoryInv'
  <2>1. IsAnswered /\ stage' = "finalized" /\ filled' = fields /\ output' = Judge(fields)
        /\ UNCHANGED <<config, executors, bindings, evaluator, status, role, loop>>
    BY <1>7 DEF Finalize, built
  <2>2. stage = "running" /\ caller = "executor" /\ role.agent_id \in Elements(config.steps)
    BY <2>1 DEF IsAnswered, FactoryInv, AtWork
  <2>3. LoopInv' /\ UNCHANGED <<caller, granted>>
    BY <2>1, <2>2, <1>a DEF FactoryInv, AtWork, loop, vars
  <2>4. AtWork'
    BY <2>1, <2>2, <2>3, BuildingReadsConfig DEF FactoryInv, AtWork, Elements
  <2>5. Graph'
    BY <2>1, <2>2, BuildingReadsConfig DEF FactoryInv, Graph
  <2>6. IsBuildable /\ executors = ExecutorMap /\ bindings = SchemaMap
    BY <2>2 DEF FactoryInv, Graph
  <2>7. role.agent_id \in Ids
    BY <2>2, <2>6 DEF IsBuildable, IsValid
  <2>8. executors[role.agent_id].shape = config.schemas[bindings[role.agent_id]]
    BY <2>6, <2>7, GraphLooksUp
  <2>9. output' = "valid" <=> executors[role.agent_id].shape \subseteq fields
    BY <2>1, <2>8 DEF Judge
  <2>10. JudgedAsAsked'
    BY <2>1, <2>9 DEF JudgedAsAsked
  <2> QED BY <2>1, <2>2, <2>4, <2>5, <2>10 DEF FactoryInv, Stages, Schemas, Quiet, Judged
<1>8. ASSUME NEW ref \in DOMAIN status, MoveSchema(ref)
      PROVE  FactoryInv'
  <2>1. stage = "starting" /\ DOMAIN status' = DOMAIN status
        /\ UNCHANGED <<config, executors, bindings, evaluator, stage, role, filled, output, loop>>
    BY <1>8 DEF MoveSchema, built
  <2>2. Quiet'
    BY <2>1 DEF FactoryInv, Quiet, loop, vars, conversation
  <2> QED BY <2>1, <2>2 DEF FactoryInv, Stages, Schemas, Graph, AtWork, Judged, Quiet
<1>9. CASE UNCHANGED factory
  <2>1. UNCHANGED <<config, executors, bindings, evaluator, status, stage, role, filled, output, loop>>
    BY <1>9 DEF factory
  <2>2. Graph'
    BY <2>1, BuildingReadsConfig DEF FactoryInv, Graph
  <2>3. Quiet'
    BY <2>1 DEF FactoryInv, Quiet, loop, vars, conversation
  <2>4. AtWork'
    BY <2>1, <1>a, BuildingReadsConfig DEF FactoryInv, AtWork, Elements, loop, vars
  <2>5. Judged'
    BY <2>1 DEF FactoryInv, Judged, JudgedAsAsked
  <2> QED BY <2>1, <2>2, <2>3, <2>4, <2>5 DEF FactoryInv, Stages, Schemas
<1> QED BY <1>1, <1>2, <1>3, <1>4, <1>5, <1>6, <1>7, <1>8, <1>9 DEF FactoryNext

\* The invariant the theorems below rest on.
LEMMA FactoryInvHolds == FactorySpec => []FactoryInv
BY FactoryInitEstablishes, FactoryStepKeeps, PTL DEF FactorySpec

(* For any catalogues: once the graph is built no role of the Workflow is  *)
(* missing from it, and the QA role never produces (composition.py         *)
(* compile_runtime, validate_workflow_executors, validate_qa_evaluator).   *)
THEOREM SelectionHeld == FactorySpec => []SelectionNeverRaises
<1>1. FactoryInv => SelectionNeverRaises
  <2> SUFFICES ASSUME FactoryInv PROVE SelectionNeverRaises
    OBVIOUS
  <2>1. stage # "key error"
    BY DEF FactoryInv, Stages
  <2>2. ASSUME stage = "running", caller = "executor"
        PROVE  /\ role.agent_id \in DOMAIN bindings /\ bindings[role.agent_id] \in DOMAIN status
               /\ evaluator # NoAgent => role.agent_id # evaluator.agent_id
    <3>1. IsBuildable /\ executors = ExecutorMap /\ bindings = SchemaMap /\ evaluator = config.qa
      BY <2>2 DEF FactoryInv, Graph
    <3>2. role.agent_id \in Elements(config.steps)
      BY <2>2 DEF FactoryInv, AtWork
    <3>3. role.agent_id \in Ids /\ (evaluator # NoAgent => role.agent_id # evaluator.agent_id)
      BY <3>1, <3>2 DEF IsBuildable, IsValid
    <3>4. DOMAIN status = DOMAIN config.schemas
      BY DEF FactoryInv, Schemas
    <3> QED BY <3>1, <3>3, <3>4, GraphLooksUp
  <2> QED BY <2>1, <2>2 DEF SelectionNeverRaises
<1> QED BY <1>1, FactoryInvHolds, PTL

(* For any catalogues and whatever a model answers, a tool runs only for a *)
(* role that was granted it (toolbox.py; composition.py).                  *)
THEOREM GrantsHeld == FactorySpec => GrantsAreKept
<1> DEFINE Kept == ran' # ran => \E ref \in Elements(role.tool_refs) : ToolId[ref] = NextCall.name
<1>1. FactoryInv /\ [FactoryNext]_factory => [Kept]_factory
  <2> SUFFICES ASSUME FactoryInv, FactoryNext, ran' # ran PROVE Kept
    BY DEF factory
  <2>1. Converse
    BY DEF FactoryNext, Build, RefuseToBuild, Select, SelectQa, SchemaInactive, Finalize,
           MoveSchema, Begin, loop, vars
  <2>2. stage = "running" /\ Next
    BY <2>1 DEF Converse
  <2>3. NextCall.name \in granted
    BY <2>2, ToolsRunGranted
  <2>4. granted = {ToolId[ref] : ref \in Elements(role.tool_refs)}
    BY <2>2 DEF FactoryInv, AtWork
  <2> QED BY <2>3, <2>4
<1> QED BY <1>1, FactoryInvHolds, PTL DEF FactorySpec, GrantsAreKept

(* For any catalogues an answer is valid exactly if it fills the fields    *)
(* its executor asked for (composition.py build_executor_map,              *)
(* build_schema_map).                                                      *)
THEOREM AnswersJudged == FactorySpec => []JudgedAsAsked
<1>1. FactoryInv => JudgedAsAsked
  BY DEF FactoryInv, Judged, JudgedAsAsked
<1> QED BY <1>1, FactoryInvHolds, PTL

(* What ToolLoopProofs shows of a conversation by itself holds of the one  *)
(* a role of the graph has: its budget, that it ends with nothing unheard, *)
(* and that each turn is accounted (llm.py; composition.py).               *)
THEOREM ConversationKept == FactorySpec => [](BudgetKept /\ NothingUnheard /\ TurnsAccounted)
<1>1. LoopInv => BudgetKept /\ NothingUnheard /\ TurnsAccounted
  <2>1. LoopInv => BudgetKept
    BY LoopAssumption DEF LoopInv, TypeOK, Asking, Invoking, Done, BudgetKept
  <2>2. LoopInv => NothingUnheard
    BY DEF LoopInv, TypeOK, Asking, Invoking, Done, NothingUnheard
  <2>3. LoopInv => TurnsAccounted
    BY DEF LoopInv, Accounts, TurnsAccounted
  <2> QED BY <2>1, <2>2, <2>3
<1>2. FactoryInv => BudgetKept /\ NothingUnheard /\ TurnsAccounted
  <2> SUFFICES ASSUME FactoryInv PROVE BudgetKept /\ NothingUnheard /\ TurnsAccounted
    OBVIOUS
  <2>1. CASE stage \in {"starting", "refused", "built"}
    <3>1. outcome = "none" /\ turns = 0 /\ ran = 0 /\ MaxToolCalls \in Nat
      BY <2>1, LoopAssumption DEF FactoryInv, Quiet
    <3> QED BY <3>1 DEF BudgetKept, NothingUnheard, TurnsAccounted
  <2>2. CASE stage \in {"running", "inactive", "finalized"}
    BY <2>2, <1>1 DEF FactoryInv, AtWork
  <2> QED BY <2>1, <2>2 DEF FactoryInv, Stages
<1> QED BY <1>2, FactoryInvHolds, PTL
=============================================================================
