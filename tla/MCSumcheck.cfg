\* The field of three elements: every challenge and every lie there is.
CONSTANTS
  P = 3
  Generator = 2
  Requests <- MCRequests
  Traces <- MCTraces
  ClientVersions = {"V0_6_1", "V0_6_2"}
SPECIFICATION FairSpec
INVARIANTS
  TypeOK
  VerdictIsRight
  VerifiersAgree
  OracleTellsColumns
  OpenedIsVerified
PROPERTY
  EveryJobIsAnswered
CHECK_DEADLOCK FALSE
