SPECIFICATION MCSpec
CONSTANTS
  Tunnels <- TwoTunnels
  Inputs <- ShootAndTurn
  Starts <- AtRow10
  Walls = TRUE
INVARIANTS TypeOK FlagCoversFlight MCWallIsSeen
PROPERTIES ShotsFlyOn BlocksStopShots GunComesFree
