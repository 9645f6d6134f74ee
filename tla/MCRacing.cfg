\* Up to three backends, every order of arrival, deadlines, panics; the call returns and losers stop.
SPECIFICATION FairSpec
CONSTANTS
  MaxBackends = 3
  Cooperative = {2}
  Results <- MostResults
  Jobs <- SomeJobs
INVARIANTS
  AnswerHasArtifacts
  FirstConclusiveWins
  UnknownJustified
  NotSelfCancelled
PROPERTIES
  ImplementsContract
  DeadlineBoundsCall
  LosersStop
  DisagreementReported
