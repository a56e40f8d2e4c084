CONSTANTS
  HeadingBits = 4
  TurnRate = 2
SPECIFICATION Spec
INVARIANT SlowdownOnlyForRealTurn
