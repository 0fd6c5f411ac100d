SPECIFICATION Spec
CONSTANTS
  Width = 2
  Overflows <- NeverSet
  Levels <- TwoLevels
  MaxDrift = 1
PROPERTY DownFromRoof
