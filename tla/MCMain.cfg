\* A job on each backend with every query of a two-bit target; trees of up to three files.
SPECIFICATION FairSpec
CONSTANTS
  k1 = k1
  k2 = k2
  v1 = v1
  v2 = v2
  Width = 2
  Queries <- MCQueries
  Keys = {k1, k2}
  Answers = {v1, v2}
  Trees <- MCTrees
  MaxBatch = 2
  MaxRuns = 2
INVARIANTS
  AnswersAreTrue
  MigrationLosesNothing
PROPERTIES
  CancelledJobsEnd
