SPECIFICATION Spec
CONSTANTS
  P = 5
  Generator = 2
  Lambda = 5
  Bits = {0, 2, 4}
  MaxConsumes = 2
  MaxClock = 2
  MaxCommits = 2
  FriJobs <- MCFriJobs
  DeepRequests <- MCDeepRequests
  BatchRequests <- MCBatchRequests
  Jobs <- MCJobs
INVARIANTS
  TypeOK
  PolynomialsMeet
  VerdictsDecide
  DeepQuotientBinds
  AccountIsKept
  BatchVerdict
  ArtifactTellsRun
  CodecIsExact
  RepoCommitWasTip
PROPERTY
  EveryJobEnds
CHECK_DEADLOCK FALSE
