\* Cores without shortcuts.
SPECIFICATION Spec
CONSTANTS
  Worlds <- SixWorlds
  NoWorld = NoWorld
  Width = 3
  TargetOf <- Target
  Queries <- CoreQueries
  Modes = {"disabled"}
  ShortcutsSound = FALSE
INVARIANT
  CoreOnlyNeeded
