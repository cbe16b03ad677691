SPECIFICATION FairSpec
CONSTANTS
  Files = {f1}
  Scanners = {s1}
  Ratifiers = {op}
  Wallet = Wallet
  Owner = Owner
  MaxFailures = 0
  Nothing = Nothing
PROPERTY AnchoredGetsReceipt
