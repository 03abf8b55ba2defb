SPECIFICATION Spec
CONSTANTS
  EmitFields = emit_fields
  Tools = {date, metrics_tool}
  Grants = {{}, {date}, {emit_fields}}
  MaxToolCalls = 3
  MaxBlocks = 2
INVARIANTS
  EveryTurnProducesAnalytics
CHECK_DEADLOCK FALSE
