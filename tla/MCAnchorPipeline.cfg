SPECIFICATION FairSpec
CONSTANTS
  Files = {f1}
  Scanners = {s1}
  Ratifiers = {op1, op2}
  Wallet = Wallet
  Owner = Owner
  MaxFailures = 2
  Nothing = Nothing
INVARIANTS
  TypeOK
  AnchoredIsRatified
  OneCommitWins
PROPERTIES
  RatifiedGetsAnchored
