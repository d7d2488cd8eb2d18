SPECIFICATION Spec
CONSTANTS
  one = one
  two = two
  button = button
  setting = setting
  Nothing = Nothing
  Instances = {one}
  Buttons = {button}
  Settings = {}
  Values = {0}
  Default = 0
  IsrFreq = 1
  SampleRate = 3
  BufferSizes <- MCBufferSizes
  TickModulus = 8
  LongPressTicks = 2
  ScreensaverTicks = 5
  FooterRestoreSteps = 1
  MaxPending = 1
  QuietHolds = TRUE
INVARIANTS
  TypeOK
  KeepsTime
  PressesTimed
PROPERTIES
  RisesSeenOnce
