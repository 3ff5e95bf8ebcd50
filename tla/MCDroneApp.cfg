SPECIFICATION Spec
CONSTANTS
  FullCharge = 2
  ReserveCharge = 1
  UpRanges <- MCUpRanges
  DecksReady = TRUE
INVARIANTS TypeOK WallFollowerHasTimer MissionIsUnlocked CommandedReturnLooksFirst
PROPERTIES MissionNotExtended ExplorationEnds WallFollowerIsLeft ImplementsMode
