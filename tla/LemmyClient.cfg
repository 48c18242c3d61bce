CONSTANTS
  w1 = w1  w2 = w2  p1 = p1  golang = golang  golangHere = golangHere
  Caller = {w1, w2}
  ID = {p1}
  Zero = zero
  Name = {golang}
  AtSign = at
  None = none
  Alias = {golangHere}
  Canon <- MCCanon
  Lookups = {p1, golang, golangHere}
  MaxPosts = 2
  MaxRev = 1
  Age = {1}
  MaxNow = 2
SPECIFICATION Spec
INVARIANTS TypeOK EntriesAreTrue ExpiredIsDropped
CHECK_DEADLOCK FALSE
SYMMETRY Callers
PROPERTY HitsArePermitted
