SPECIFICATION Spec
CONSTANTS
  SimDrone = {s0, s1}
  Flying = {d1}
  Shown = {d1}
  Poll = {p1, p2, p3}
  Request = {r1}
  Full = 2
  Unit = 2
  Drop = 3
  Bound = 4
  NoLevel = NoLevel
  BlinkTime = 100
  Ranges = {45, 75, 100}
  Turn = 45
  MaxOutside = 1
  Value = {"v", "w"}
  Motors = 2
  Hysteresis = 2
  Timeout = 3
  Samples = 4
  OnPeriod = 3
  OffPeriod = 3
  BatteryPeriod = 3
  Caller = {cmd}
  Timer = timer
  Sequence <- LedSequences
INVARIANT FinalLandingLands
