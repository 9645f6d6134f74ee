\* All arenas of up to three gates besides the constants, and their encodings.
SPECIFICATION Spec
CONSTANTS
  MaxGates = 5
  CheckEvery = 2
INVARIANTS
  CallMeans
  EncodingExact
