------------------------------ MODULE MCFactory ------------------------------
(* Catalogues for TLC: one that can be built, and every way to spoil it.    *)
EXTENDS Factory, TLC

CONSTANTS
  writer, editor, qa, lost,
  write, edit, check, missing,
  Text, Cut, Verdict,
  text, cut, verdict, flags,
  date1, date2, metrics1, emit1, gone1,
  segment

MCToolId ==
  (date1 :> "date") @@ (date2 :> "date") @@ (metrics1 :> "metrics")
    @@ (emit1 :> EmitFields) @@ (gone1 :> "metrics")

\* editor and lost differ in what _env_token leaves out.
MCEnvToken == (writer :> "W") @@ (editor :> "E") @@ (qa :> "Q") @@ (lost :> "E")

Writer == [agent_id |-> writer, prompt_ref |-> write, tool_refs |-> <<date1>>, skill_refs |-> <<segment>>]
Editor == [agent_id |-> editor, prompt_ref |-> edit, tool_refs |-> <<>>, skill_refs |-> <<>>]
Qa == [agent_id |-> qa, prompt_ref |-> check, tool_refs |-> <<metrics1>>, skill_refs |-> <<>>]

Real ==
  [provider |-> "anthropic", model |-> TRUE, pricing |-> "valid",
   max_tokens |-> 2, thinking |-> "adaptive", budget |-> 0]
Thinks(max_tokens, budget) ==
  [Real EXCEPT !.thinking = "budget", !.max_tokens = max_tokens, !.budget = budget]

Stored(prompt, schema) == [prompt_id |-> prompt, schema_ref |-> schema, sound |-> TRUE]

Good ==
  [agents |-> <<Writer, Editor>>, qa |-> Qa, steps |-> <<writer, editor>>,
   prompts |-> <<Stored(write, Text), Stored(edit, Cut), Stored(check, Verdict)>>,
   schemas |-> (Text :> {text}) @@ (Cut :> {text, cut}) @@ (Verdict :> {verdict, flags}),
   available |-> <<date1, metrics1>>,
   skills |-> [id \in AgentIds |-> IF id = writer THEN <<segment>> ELSE <<>>],
   environ |-> [token \in {"W", "E", "Q"} |-> Real],
   settings |-> [board |-> "whole", desk |-> "whole", service |-> "valid"]]

WithEditor(e) == [Good EXCEPT !.agents = <<Writer, e>>]

Buildable ==
  {Good, [Good EXCEPT !.qa = NoAgent],
   WithEditor([Editor EXCEPT !.tool_refs = <<metrics1, date1>>]),
   [WithEditor([Editor EXCEPT !.tool_refs = <<emit1>>]) EXCEPT !.available = Append(@, emit1)],
   [Good EXCEPT !.environ["E"].provider = "fake", !.environ["Q"] = Thinks(3, 2),
                !.settings.desk = "none"]}

Spoilt ==
  {[Good EXCEPT !.agents = <<Writer, Editor, Editor>>],
   [Good EXCEPT !.agents = <<Writer, Editor, [Writer EXCEPT !.prompt_ref = edit]>>],
   [Good EXCEPT !.steps = <<writer, lost>>], [Good EXCEPT !.steps = <<writer, qa>>],
   [Good EXCEPT !.agents = <<Writer, Editor, Qa>>, !.steps = <<writer, qa>>],
   WithEditor([Editor EXCEPT !.prompt_ref = missing]),
   [Good EXCEPT !.schemas = (Text :> {text}) @@ (Verdict :> {verdict, flags})],
   [Good EXCEPT !.prompts = Append(@, Stored(write, Cut))],
   [Good EXCEPT !.prompts = Append(@, [Stored(missing, Cut) EXCEPT !.sound = FALSE])],
   [Good EXCEPT !.steps = <<>>],
   [Good EXCEPT !.schemas[Cut] = {}], [Good EXCEPT !.schemas[Verdict] = {verdict}],
   WithEditor([Editor EXCEPT !.tool_refs = <<gone1>>]),
   WithEditor([Editor EXCEPT !.tool_refs = <<date1, date2>>]),
   [WithEditor([Editor EXCEPT !.tool_refs = <<date1, date2>>])
      EXCEPT !.available = <<date1, date2, metrics1>>],
   [Good EXCEPT !.available = <<date1, metrics1, date1>>],
   WithEditor([Editor EXCEPT !.skill_refs = <<segment>>]),
   [Good EXCEPT !.qa.skill_refs = <<segment>>],
   [Good EXCEPT !.settings.board = "partly"], [Good EXCEPT !.settings.desk = "partly"],
   [Good EXCEPT !.settings.service = "invalid"],
   [Good EXCEPT !.environ["E"].provider = "unset"], [Good EXCEPT !.environ["W"].provider = "other"],
   [Good EXCEPT !.environ["Q"].model = FALSE], [Good EXCEPT !.environ["Q"].pricing = "invalid"],
   [Good EXCEPT !.environ["E"].thinking = "unknown"], [Good EXCEPT !.environ["E"].max_tokens = 0],
   [Good EXCEPT !.environ["E"] = Thinks(2, 2)], [Good EXCEPT !.environ["E"] = Thinks(2, 1)]}

MCConfigurations == Buildable \cup Spoilt
MCGrants == SUBSET (Tools \cup {EmitFields})
=============================================================================
