SPECIFICATION FactorySpec
CONSTANTS
  writer = writer
  editor = editor
  qa = qa
  lost = lost
  write = write
  edit = edit
  check = check
  missing = missing
  Text = Text
  Cut = Cut
  Verdict = Verdict
  text = text
  cut = cut
  verdict = verdict
  flags = flags
  date1 = date1
  date2 = date2
  metrics1 = metrics1
  emit1 = emit1
  gone1 = gone1
  segment = segment
  AgentIds = {writer, editor, qa, lost}
  PromptIds = {write, edit, check, missing}
  SchemaRefs = {Text, Cut, Verdict}
  ToolRefs = {date1, date2, metrics1, emit1, gone1}
  SkillRefs = {segment}
  FieldNames = {text, cut, verdict, flags}
  VerdictFields = {verdict, flags}
  ToolId <- MCToolId
  EnvToken <- MCEnvToken
  Configurations <- MCConfigurations
  NoAgent = NoAgent
  MinBudget = 2
  EmitFields = "emit_fields"
  Tools = {"date", "metrics"}
  Grants <- MCGrants
  MaxToolCalls = 3
  MaxBlocks = 2
INVARIANTS
  SelectionNeverRaises
  JudgedAsAsked
  BudgetKept
  NothingUnheard
  TurnsAccounted
PROPERTIES
  GrantsAreKept
CHECK_DEADLOCK FALSE
