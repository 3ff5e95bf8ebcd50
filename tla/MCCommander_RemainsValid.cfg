SPECIFICATION Spec
CONSTANTS
  Source = {"crtp", "app"}
  Priority <- MCPriority
  TaskPriority <- MCTaskPriority
  Radio = "crtp"
  Stabilize = 1
  Shutdown = 2
  Remains = {3}
  HealthTests = FALSE
INVARIANTS RemainsValid
