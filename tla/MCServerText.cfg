\* What a text client gets for an answer that is too long to send.
SPECIFICATION Spec
CONSTANTS
  c1 = c1
  c2 = c2
  c3 = c3
  k1 = k1
  k2 = k2
  k3 = k3
  k4 = k4
  k5 = k5
  v1 = v1
  v2 = v2
  Conns <- TwoConns
  MaxConnections = 1
  MaxEntries = 1
  MaxFrames = 1
  Keys <- TwoKeys
  Ids = {1}
  Payloads <- AllForms
  Values <- OneValue
  Malformed <- None
  LongKeys <- None
  LongAnswers <- None
  HugeAnswers <- OnlyK1
  Recording = FALSE
  Readers <- None
INVARIANTS
  TextStaysText
