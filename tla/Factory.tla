------------------------------- MODULE Factory -------------------------------
(***************************************************************************)
(* How the factory is put together (composition.py; build_brief_production *)
(* and _build_executors of the entry points) and what becomes of that at   *)
(* run time: a role chosen from the graph has a conversation (ToolLoop)    *)
(* with the tools it was granted, and its answer is judged by its Schema.  *)
(*                                                                         *)
(* The catalogues are one record, fixed when the process starts.  Refs and *)
(* ids are model values; a ref may point nowhere.  A Skill's work on the   *)
(* input is left out: it is pure, and its configuration was checked when   *)
(* it was made.  One Agent is selected once; that more follow, and when,   *)
(* is ContentDirector's.                                                   *)
(***************************************************************************)
EXTENDS ToolLoop

CONSTANTS
  AgentIds, PromptIds, SchemaRefs, ToolRefs, SkillRefs, FieldNames,
  VerdictFields,    \* QA_VERDICT_FIELDS
  ToolId,           \* the name a model calls a tool version by
  EnvToken,         \* _env_token: several roles may share one
  MinBudget,        \* _MIN_THINKING_BUDGET
  Configurations,   \* the catalogues the process may be started with
  NoAgent

VARIABLES
  config,
  status,      \* of the Schemas
  stage,       \* of the process
  executors,   \* agent_ref -> executor
  bindings,    \* agent_ref -> SchemaBinding, here the Schema's ref
  evaluator,   \* the QA evaluator, or NoAgent
  role,        \* the Agent at work
  filled,      \* the fields it answered with
  output       \* the verdict on them

built == <<config, executors, bindings, evaluator>>
loop == vars
factory == <<config, status, stage, executors, bindings, evaluator, role, filled, output, loop>>

Agent == [agent_id : AgentIds, prompt_ref : PromptIds,
          tool_refs : Seq(ToolRefs), skill_refs : Seq(SkillRefs)]

\* A record of the prompt store; a sound one has its fields and nothing else.
Prompt == [prompt_id : PromptIds, schema_ref : SchemaRefs, sound : BOOLEAN]

\* _RoleBinding, a role's variables in the environment.  A number that is
\* not set or cannot be read is 0.
Binding == [provider : {"unset", "fake", "anthropic", "other"}, model : BOOLEAN,
            pricing : {"valid", "invalid", "unset"}, max_tokens : Int,
            thinking : {"adaptive", "disabled", "inherit", "budget", "unknown"}, budget : Int]

\* The variables of the board, of the desk and of the service.
Settings == [board : {"whole", "partly"}, desk : {"whole", "partly", "none"},
             service : {"valid", "invalid"}]

SchemaStatus == {"draft", "active", "deprecated"}

AllowedSchemaTransitions ==
  [draft |-> {"active"}, active |-> {"deprecated"}, deprecated |-> {}]

Configuration(c) ==
  /\ c.agents \in Seq(Agent) /\ c.qa \in Agent \cup {NoAgent}
  /\ c.steps \in Seq(AgentIds)
  /\ c.prompts \in Seq(Prompt)
  /\ DOMAIN c.schemas \subseteq SchemaRefs
  /\ \A s \in DOMAIN c.schemas : c.schemas[s] \subseteq FieldNames
  /\ c.available \in Seq(ToolRefs)
  /\ c.skills \in [AgentIds -> Seq(SkillRefs)]
  /\ c.environ \in [{EnvToken[id] : id \in AgentIds} -> Binding] /\ c.settings \in Settings

FactoryAssumption ==
  /\ ToolId \in [ToolRefs -> Tools \cup {EmitFields}] /\ AgentIds \subseteq DOMAIN EnvToken
  /\ \A c \in Configurations : Configuration(c)
  /\ VerdictFields \subseteq FieldNames /\ MinBudget \in Nat
  /\ Grants = SUBSET (Tools \cup {EmitFields})
ASSUME FactoryAssumption

-----------------------------------------------------------------------------
(* Building: what would raise nothing, and what comes of it. *)

IsDistinct(seq) == \A i, j \in DOMAIN seq : seq[i] = seq[j] => i = j
Elements(seq) == {seq[i] : i \in DOMAIN seq}

\* Toolbox: the grant can be honoured.
IsGrantable(refs) ==
  /\ IsDistinct(config.available)
  /\ Elements(refs) \subseteq Elements(config.available)
  /\ IsDistinct([i \in DOMAIN refs |-> ToolId[refs[i]]])

\* load_prompt_catalogue: all of the store or nothing.
IsCatalogue(records) ==
  /\ records # <<>> /\ \A k \in DOMAIN records : records[k].sound
  /\ IsDistinct([k \in DOMAIN records |-> records[k].prompt_id])

\* _prompt_and_schema.
Prompts(agent) == {prompt \in Elements(config.prompts) : prompt.prompt_id = agent.prompt_ref}
SchemaOf(agent) == (CHOOSE prompt \in Prompts(agent) : TRUE).schema_ref
IsResolved(agent) == Prompts(agent) # {} /\ SchemaOf(agent) \in DOMAIN config.schemas
Shape(agent) == config.schemas[SchemaOf(agent)]

BindingOf(agent) == config.environ[EnvToken[agent.agent_id]]

IsPriced(b) == b.pricing = "valid"
IsBounded(b) == b.max_tokens >= 1
IsThinking(b) == b.thinking # "unknown" /\ (b.thinking = "budget" => MinBudget <= b.budget)

\* A budget is below max_tokens, which only the client's constructor can see.
FitsRequest(b) == b.thinking = "budget" => b.budget < b.max_tokens

\* client_for_role fails closed.
IsClient(b) ==
  \/ b.provider = "fake"
  \/ /\ b.provider = "anthropic" /\ b.model
     /\ IsPriced(b) /\ IsBounded(b) /\ IsThinking(b) /\ FitsRequest(b)

\* The board and the service need all of their variables, the desk all or none.
IsBoardConfigured == config.settings.board = "whole"
IsDeskConfigured == config.settings.desk # "partly"
IsServiceConfigured == config.settings.service = "valid"

Agents == Elements(config.agents)
AgentOf(id) == CHOOSE agent \in Agents : agent.agent_id = id
Ids == {agent.agent_id : agent \in Agents}

\* build_executor_map, with LLMTaskExecutor's own demand for a shape.
IsExecutable(agent) ==
  /\ IsClient(BindingOf(agent)) /\ IsResolved(agent) /\ Shape(agent) # {}
  /\ IsGrantable(agent.tool_refs)
  /\ config.skills[agent.agent_id] = agent.skill_refs

\* Mutant: every role's Toolbox is made from all the tools there are.
ExecutorUnscoped(agent) ==
  [shape |-> Shape(agent), toolbox |-> Elements(config.available)]

\* Mutant: the shape is the first role's.
ExecutorOfFirst(agent) ==
  [shape |-> Shape(config.agents[1]), toolbox |-> Elements(agent.tool_refs)]

Executor(agent) == [shape |-> Shape(agent), toolbox |-> Elements(agent.tool_refs)]

\* build_qa_evaluator, with LLMArtifactEvaluator's demand for the verdict.
IsEvaluator(agent) ==
  /\ agent.skill_refs = <<>>
  /\ IsClient(BindingOf(agent)) /\ IsResolved(agent) /\ VerdictFields \subseteq Shape(agent)
  /\ IsGrantable(agent.tool_refs)

\* Mutant: the steps are not looked up.
IsValidUnchecked ==
  config.qa # NoAgent => config.qa.agent_id \notin Elements(config.steps)

\* validate_workflow_executors and validate_qa_evaluator.
IsValid ==
  /\ Elements(config.steps) \subseteq Ids
  /\ config.qa # NoAgent => config.qa.agent_id \notin Elements(config.steps)

\* The entry points compile one Agent at a time and merge the maps, so that
\* build_schema_map is the first to see an Agent twice.
IsBuildable ==
  /\ IsBoardConfigured /\ IsDeskConfigured /\ IsServiceConfigured
  /\ IsCatalogue(config.prompts) /\ config.steps # <<>>
  /\ \A agent \in Agents : IsExecutable(agent)
  /\ config.qa # NoAgent => IsEvaluator(config.qa)
  /\ IsValid
  /\ IsDistinct([i \in DOMAIN config.agents |-> config.agents[i].agent_id])

ExecutorMap == [id \in Ids |-> Executor(AgentOf(id))]
SchemaMap == [id \in Ids |-> SchemaOf(AgentOf(id))]

FactoryInit ==
  /\ config \in Configurations
  /\ status = [ref \in DOMAIN config.schemas |-> "draft"]
  /\ stage = "starting"
  /\ executors = <<>> /\ bindings = <<>> /\ evaluator = NoAgent
  /\ role = NoAgent /\ filled = {} /\ output = "none"
  \* No conversation yet.
  /\ caller = "executor" /\ granted = {} /\ pc = "done"
  /\ metrics = <<>> /\ used = 0 /\ batch = <<>> /\ results = <<>>
  /\ outcome = "none" /\ reported = <<>>
  /\ turns = 0 /\ asked = 0 /\ ran = 0

\* Schema.transition, by the module that owns the Schema, before the Schema
\* is handed to the factory.
MoveSchema(ref) ==
  /\ stage = "starting"
  /\ \E to \in AllowedSchemaTransitions[status[ref]] : status' = [status EXCEPT ![ref] = to]
  /\ UNCHANGED <<built, stage, role, filled, output, loop>>

Build ==
  /\ stage = "starting" /\ IsBuildable
  /\ stage' = "built"
  /\ executors' = ExecutorMap /\ bindings' = SchemaMap
  /\ evaluator' = config.qa
  /\ UNCHANGED <<config, status, role, filled, output, loop>>

\* The process ends with the error that is met first.
RefuseToBuild ==
  /\ stage = "starting" /\ ~IsBuildable
  /\ stage' = "refused"
  /\ UNCHANGED <<config, status, executors, bindings, evaluator, role, filled, output, loop>>

-----------------------------------------------------------------------------
(* Running. *)

Begin(kind, agent, toolbox) ==
  /\ stage' = "running" /\ role' = agent /\ caller' = kind
  /\ granted' = {ToolId[ref] : ref \in toolbox} /\ pc' = "asking"
  /\ UNCHANGED <<built, status, filled, output, conversation, outcome, reported, turns, asked, ran>>

\* _resolve: a KeyError if there is no executor.
Select(id) ==
  /\ stage = "built"
  /\ IF id \in DOMAIN executors THEN Begin("executor", AgentOf(id), executors[id].toolbox)
     ELSE stage' = "key error" /\ UNCHANGED <<built, status, role, filled, output, loop>>

SelectQa ==
  /\ stage = "built" /\ evaluator # NoAgent
  /\ Begin("evaluator", evaluator, Elements(evaluator.tool_refs))

Converse ==
  /\ stage = "running" /\ Next
  /\ UNCHANGED <<built, status, stage, role, filled, output>>

\* Schema.validate: the fields that are there and not empty.
Judge(fields) ==
  IF config.schemas[bindings[role.agent_id]] \subseteq fields THEN "valid" ELSE "invalid"

IsAnswered == stage = "running" /\ caller = "executor" /\ outcome = "succeeded"

\* validate_and_record_output; whatever fields the model filled.
Finalize(fields) ==
  /\ IsAnswered /\ status[bindings[role.agent_id]] = "active"
  /\ stage' = "finalized" /\ filled' = fields /\ output' = Judge(fields)
  /\ UNCHANGED <<built, status, role, loop>>

\* Nothing has asked for the Schema's status before: SchemaNotActiveError
\* leaves finish_task when the turns are paid for.
SchemaInactive ==
  /\ IsAnswered /\ status[bindings[role.agent_id]] # "active"
  /\ stage' = "inactive"
  /\ UNCHANGED <<built, status, role, filled, output, loop>>

FactoryNext ==
  \/ Build \/ RefuseToBuild
  \/ \E id \in Elements(config.steps) : Select(id)
  \/ SelectQa \/ Converse \/ SchemaInactive
  \/ \E fields \in SUBSET FieldNames : Finalize(fields)
  \/ \E ref \in DOMAIN status : MoveSchema(ref)

FactorySpec == FactoryInit /\ [][FactoryNext]_factory

-----------------------------------------------------------------------------
(* The graph and the conversation keep their shapes.                       *)
FactoryTypeOK ==
  /\ TypeOK
  /\ config \in Configurations /\ status \in [DOMAIN config.schemas -> SchemaStatus]
  /\ stage \in {"starting", "refused", "built", "running", "key error", "inactive", "finalized"}
  /\ DOMAIN executors = DOMAIN bindings
  /\ evaluator \in {config.qa, NoAgent}
  /\ stage = "running" => role \in Agents \cup {evaluator}
  /\ filled \subseteq FieldNames /\ output \in {"none", "valid", "invalid"}

(* A graph that was built has everything a Run of its Workflow will ask it *)
(* for: "selection never raises at runtime" (composition.py                *)
(* compile_runtime), no executor works without a Schema to judge it, and   *)
(* the role that gives verdicts is never set to produce.                   *)
SelectionNeverRaises ==
  /\ stage # "key error"
  /\ stage = "running" /\ caller = "executor" =>
       /\ role.agent_id \in DOMAIN bindings /\ bindings[role.agent_id] \in DOMAIN status
       /\ evaluator # NoAgent => role.agent_id # evaluator.agent_id

(* No model reaches past its role's grant: whenever a tool runs, the role  *)
(* at work was granted a version of it, whatever the tools other roles     *)
(* were granted and whatever the model asks for (toolbox.py; composition.py *)
(* build_executor_map).                                                    *)
GrantsAreKept ==
  [][ran' # ran => \E ref \in Elements(role.tool_refs) : ToolId[ref] = NextCall.name]_factory

(* A role is judged by what it was asked for: its answer is valid exactly  *)
(* if it fills the fields its executor asks the model for, although the    *)
(* executor and the Schema's binding are looked up in two maps built apart *)
(* (composition.py build_executor_map, build_schema_map; docs/adr/0014).   *)
JudgedAsAsked ==
  output # "none" =>
    (output = "valid" <=> executors[role.agent_id].shape \subseteq filled)
=============================================================================
