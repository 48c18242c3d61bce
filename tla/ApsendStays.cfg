CONSTANTS
  Run = {r1, r2}
  r1 = r1  r2 = r2
  otl = otl  bowie = bowie  ann = ann  abe = abe  cat = cat  dan = dan
  hub = hub  catbox = catbox
  note = note  twin = twin  reply = reply  alien = alien  follow = follow  bare = bare
  sec1 = sec1  own1 = own1
  NoInbox = NoInbox  NoUser = NoUser  NoName = NoName
  User <- MCUser
  Addr <- MCAddr
  Inbox <- MCInbox
  InboxOf <- MCInboxOf
  SharedOf <- MCSharedOf
  Msg <- MCMsg
  Author <- MCAuthor
  Name <- MCName
  NameOf <- MCNameOf
  Size <- MCSize
  Json = {follow, bare}
  HasID = {follow}
  Job <- MailJobs
  MaxSecond = 2
SPECIFICATION Spec
INVARIANT DeliveredMailStays
CHECK_DEADLOCK FALSE
