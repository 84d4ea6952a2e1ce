SPECIFICATION MCSpec
CONSTANTS
  Bytes = {0, 1}
  Capacity = 4
  Inputs <- MCInputs
PROPERTY Queue
