SPECIFICATION FairFileSpec
CONSTANTS
  daemon = daemon  test = test  p1 = p1  p2 = p2
  Writers = {daemon, test}
  Paths = {p1}
  TmpOf <- SharedPath
  Statuses = {halt, commit}
  Inodes = {i1, i2, i3, i4}
  OneShot = {test}
  NoInode = NoInode
  Empty = Empty
  Torn = Torn
PROPERTY Repaired
