SPECIFICATION Spec
CONSTANTS
  c1 = c1
  c2 = c2
  midi = midi
  Channels = {c1, c2, midi}
  MIDI_CLOCK = midi
  MIDI_OUT_PPQN = 2
  CLOCK_MIN_MULTIPLE <- MCMin
  CLOCK_MAX_MULTIPLE = 3
  TicksPerMinute = 12
  CLOCK_TEMPO_MIN = 2
  CLOCK_TEMPO_MAX = 3
  TickModulus = 20
  Multiples <- MCMultiples
  Tempos = {2}
  Taps = {5}
  Shuffles = {50}
  Modulations <- MCModulations
  MaxQueued = 1
  MaxCalls = 4
INVARIANTS
  TypeOK
  DivisionsFound
PROPERTIES
  BeatsKeepTempo
  TocksFillBeat
  DivisionsExact
  SyncsOnDownbeat
  SyncsRun
