CONSTANTS
  ByteBits = 2
  MaxBvWidth = 4
  PolyBudget = 6
  PolyDegree = 2
  PolyTerms = 2
  PolyWidth = 4
  MaskWidth = 4
  MaskDepth = 2
  Seeds <- MCSeeds
  ScriptSeeds <- MCScriptSeeds
  MaxExpansion = 2
  MaxEdits = 4
  MaxAmount = 4
  Names = {"a", ""}
SPECIFICATION ReaderSpec
INVARIANTS
  ArenaWellFormed
  RewritesPreserveMeaning
  EvaluatorExact
  CircuitsExact
  QueryAgrees
  ScriptsMean
