SPECIFICATION Spec
CONSTANTS
  ClockDivMax = 3
  ClockDivMin <- MCMin
  Settings <- MCSettings
  LastTick = 14
  MaxChanges = 2
INVARIANTS
  TypeOK
  MultipliesEvenly
  FiresAgain
PROPERTY DividesExactly
CHECK_DEADLOCK FALSE
