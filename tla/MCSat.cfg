\* Short formulas over two variables and deep ones over three, under assumptions.
SPECIFICATION FairSpec
CONSTANTS
  NumVars = 3
  Formulas <- SomeFormulas
  AssumptionLists <- SomeAssumptions
INVARIANTS
  UnsatSound
  BranchesApart
  UnknownOnlyIfStopped
PROPERTIES
  Terminates
