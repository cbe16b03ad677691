SPECIFICATION FileSpec
CONSTANTS
  daemon = daemon  test = test  p1 = p1  p2 = p2
  Writers = {daemon, test}
  Paths = {p1, p2}
  TmpOf <- OwnPaths
  Statuses = {halt, commit}
  Inodes = {i1, i2, i3, i4, i5}
  OneShot = {}
  NoInode = NoInode
  Empty = Empty
  Torn = Torn
INVARIANT
  ReplaceFindsFile
PROPERTY
  RegisterSpec
