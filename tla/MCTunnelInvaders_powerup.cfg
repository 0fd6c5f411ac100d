SPECIFICATION MCSpec
CONSTANTS
  Players <- Anyone
  Inputs <- FireOrNot
  Clocks <- AnyClock
  MaxScore = 30
PROPERTY PowerUpPays
