\* Optimization over three bits, verdicts and cores, with shortcuts that may be wrong.
SPECIFICATION FairSpec
CONSTANTS
  Worlds <- SixWorlds
  NoWorld = NoWorld
  Width = 3
  TargetOf <- Target
  Queries <- SomeQueries
  Modes = {"disabled", "enabled", "validate", "audit"}
  ShortcutsSound = FALSE
INVARIANTS
  VerdictTrue
  OptimumIsBest
  CoreSuffices
  CoreMinimal
PROPERTIES
  Returns
