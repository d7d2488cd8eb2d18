SPECIFICATION FairSpec
CONSTANTS
  one = one
  two = two
  button = button
  setting = setting
  Nothing = Nothing
  Instances = {one}
  Buttons = {}
  Settings = {setting}
  Values = {0, 1}
  Default = 0
  IsrFreq = 1
  SampleRate = 2
  BufferSizes = {1}
  TickModulus = 2
  LongPressTicks = 2
  ScreensaverTicks = 2
  FooterRestoreSteps = 2
  MaxPending = 1
  QuietHolds = TRUE
INVARIANTS
  Mirrored
  SavedStateWins
PROPERTIES
  ScreenReleased
