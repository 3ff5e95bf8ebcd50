SPECIFICATION Spec
CONSTANTS
  Source = {"crtp", "app"}
  Priority <- MCPriority
  TaskPriority <- MCTaskPriority
  Radio = "crtp"
  Stabilize = 1
  Shutdown = 2
  Remains = {0, 1, 2}
  HealthTests = TRUE
INVARIANTS TypeOK NoStalePlan NotifyKeepsSetpoint
PROPERTY PriorityReleased
