SPECIFICATION Spec
CONSTANTS
  Width = 3
  Overflows <- AnyFlag
  Levels <- AllLevels
  MaxDrift = 3
INVARIANTS TypeOK Corridors Slopes
