SPECIFICATION MCSpec
CONSTANTS
  Players <- ExplorerAndPilot
  Inputs <- Moves
  Clocks <- AnyClock
  MaxScore = 199
INVARIANTS NothingSlipsBy ShotsTracked TextsReadable WhatIsSeenIsMet PilotAlive PilotsPassable
PROPERTIES CaveKept ThingsKept StatusCounts ShotsPaid RoofTurns
