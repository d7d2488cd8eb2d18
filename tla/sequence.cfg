SPECIFICATION SequenceSpec
CONSTANTS
  ClockDivMax = 3
  ClockDivMin <- MCMin
  NUM_STEPS = 3
  Settings <- MCSettings
  LastTick = 8
  MaxChanges = 3
INVARIANTS
  SequenceTypeOK
  PlaysSchedule
  TriggersInTurn
CHECK_DEADLOCK FALSE
