SPECIFICATION Spec
CONSTANTS
  Digits <- FewDigits
  DrawClocks <- DrawSometimes
  MaxTicks = 3
INVARIANTS TwoTicks StuckBit
PROPERTY FramesGoOn
