SPECIFICATION Spec
CONSTANTS
  x = x  y = y
  Engines = {x, y}
  Version <- MCVersion
  Bodies = {a, b}
  MaxLength = 2
INVARIANTS
  ReceiptsChain
  NoEventTwice
  HashCommitsHistory
  IntactLogReplays
