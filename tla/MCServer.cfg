\* Three clients for two permits, a cache with room for one answer, the recorder, both payload forms.
SPECIFICATION Spec
CONSTANTS
  c1 = c1
  c2 = c2
  c3 = c3
  k1 = k1
  k2 = k2
  k3 = k3
  k4 = k4
  k5 = k5
  v1 = v1
  v2 = v2
  Conns <- ThreeConns
  MaxConnections = 2
  MaxEntries = 1
  MaxFrames = 1
  Keys <- FiveKeys
  Ids = {1, 2}
  Payloads <- AllPayloads
  Values <- TwoValues
  Malformed <- OnlyK3
  LongKeys <- OnlyK4
  LongAnswers <- OnlyK5
  HugeAnswers <- OnlyK5
  Recording = TRUE
  Readers <- None
SYMMETRY Symmetry
INVARIANTS
  PermitsAccounted
  CacheSound
  CacheBounded
  ResponseBelongs
  AnswersRecorded
