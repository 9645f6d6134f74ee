\* What docs/architecture.md says UNKNOWN means.
SPECIFICATION Spec
CONSTANTS
  MaxBackends = 2
  Cooperative = {2}
  Results <- FewResults
  Jobs <- RaceJobs
INVARIANT
  UnknownMeansNoneInBudget
