SPECIFICATION Spec
CONSTANTS
  one = one
  two = two
  Nobody = Nobody
  Instances = {one, two}
  BufferSizes = {4, 8}
  Gates <- MCGates
  Cvs = {0, 1, 2}
  ChangeThreshold = 1
  PulseLengths <- MCPulseLengths
  ClockTicks = 2
  High = 5
  Levels = {0, 1}
  Reroutable = {"gate"}
  TickModulus = 2
INVARIANTS
  TypeOK
  EdgesTold
  ChangesTold
  PulsesExact
SYMMETRY MCSymmetry
