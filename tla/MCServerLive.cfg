\* Three clients, one of which does not read, and two permits.
SPECIFICATION FairSpec
CONSTANTS
  c1 = c1
  c2 = c2
  c3 = c3
  k1 = k1
  k2 = k2
  k3 = k3
  k4 = k4
  k5 = k5
  v1 = v1
  v2 = v2
  Conns <- ThreeConns
  MaxConnections = 2
  MaxEntries = 1
  MaxFrames = 1
  Keys <- TwoKeys
  Ids = {1}
  Payloads <- LivePayloads
  Values <- OneValue
  Malformed <- None
  LongKeys <- None
  LongAnswers <- None
  HugeAnswers <- None
  Recording = FALSE
  Readers <- TwoConns
PROPERTIES
  Served
