CONSTANTS
  ByteBits = 2
  MaxBvWidth = 5
  SortBit = 28
  BlobBase = 40
  WordBits = 2
  MaxPairs = 1
  MaxCount = 2
  PolyBudget = 6
  PolyDegree = 2
  PolyTerms = 2
  PolyWidth = 4
  MaskWidth = 4
  MaskDepth = 2
  MaxId = 2
  MaxAmount = 4
  MaxRumbaVariables = 2
  Names <- MCNames
  Seeds <- MCSeeds
SPECIFICATION Spec
INVARIANTS
  BufferValid
  OperationsMean
  RequestsFaithful
  AnswersTrue
  AnswersLag
  TranslationsAgree
