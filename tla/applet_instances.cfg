SPECIFICATION AloneSpec
CONSTANTS
  Nobody = Nobody
  Instances = {1, 2}
  BufferSizes = {4, 8}
  Gates <- MCGates
  Cvs = {0}
  ChangeThreshold = 1
  PulseLengths <- MCPulseLengths
  ClockTicks = 2
  High = 5
  Levels = {0, 1}
  Reroutable = {"gate"}
  TickModulus = 2
INVARIANT OutputsOwn
