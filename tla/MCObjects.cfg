SPECIFICATION MCSpec
CONSTANTS
  Kinds <- AllKinds
  Roofs <- TwoRoofs
  Shot <- BlockAndFlag
INVARIANTS TypeOK FlagsSay
PROPERTIES NothingJumps ObstaclesLeave
