SPECIFICATION Spec
CONSTANTS
  Requests = {"tool", "helper", "answer"}
  KindOf <- OwnKind
  ToolOutcomes = {"text", "truncated", "error"}
  Faults = {"crash", "write"}
  MaxAsked = 2
  MaxRuns = 3
INVARIANTS PaidOnce ReplayExact
