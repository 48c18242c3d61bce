CONSTANTS
  q1 = q1  q2 = q2
  otl = otl  root = root
  note = note  undated = undated  page = page  fullpage = fullpage  gone = gone
  like = like  accept = accept  article = article  created = created
  edited = edited  announced = announced  boost = boost  nested = nested  hollow = hollow  pushed = pushed
  Nothing = Nothing
  Req = {q1, q2}
  User = {otl, root}
  AcceptFor = {otl}
  Activity <- MCActivity
  Type <- MCType
  Object <- MCObject
  Fetched <- MCFetched
  Post <- MCPost
  ByID = {boost}
  Bare = {page, gone}
  Dated = {note, page, fullpage, gone, article}
SPECIFICATION FairSpec
PROPERTY AcceptIsMailed
CHECK_DEADLOCK FALSE
