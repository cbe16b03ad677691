SPECIFICATION FairSpec
CONSTANTS
  Requests = {r1, r2, r3}
  MaxPermits = 2
  Free = Free
INVARIANTS
  TypeOK
  Accounting
PROPERTIES
  AdmissionSpec
  EveryRequestEnds
