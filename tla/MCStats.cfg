SPECIFICATION Spec
CONSTANTS
  Overflows <- NeverSet
  MaxScore = 100000
  BusyScores <- Windows
  MaxAmmo = 100
INVARIANTS TypeOK LevelTracksScore
PROPERTY CountsPoints
