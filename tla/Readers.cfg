CONSTANTS
  h1 = h1  p1 = p1  p2 = p2  NoPost = NoPost
  Handle = {h1}
  MaxList = 4
  MaxCount = 5
  Post = {p1, p2}
  MaxLines = 4
  Community = {"c"}
  PostID = {"p"}
  Listings <- MCListings
  MaxWindows = 3
SPECIFICATION Readers
INVARIANTS InOrder WalkSeesAll PostsInOrder SilentEnd
  TypeOK LoopsAreWhole ThreadIsWhole DirtyIsBeingOpened ReadyBeforeLoops ExitLosesNothing
PROPERTIES NextReturns EndsWithLastWindow
CHECK_DEADLOCK FALSE
