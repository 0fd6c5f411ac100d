SPECIFICATION MCSpec
CONSTANTS
  Tunnels <- TwoTunnels
  Inputs <- HoldOff
  Starts <- AtTheStart
  Walls = FALSE
INVARIANT FlagMeansBullet
