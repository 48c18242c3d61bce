CONSTANTS
  h1 = h1
  Handle = {h1}
  MaxList = 3
  MaxCount = 4
SPECIFICATION FSSpec
INVARIANT CountedSeesAll
CHECK_DEADLOCK FALSE
