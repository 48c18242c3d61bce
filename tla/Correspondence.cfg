CONSTANTS
  otl = otl  bowie = bowie  ann = ann  tech = tech  techie = techie  bot = bot
  annF = annF  bowieF = bowieF  techF = techF
  otlAddr = otlAddr  bowieAddr = bowieAddr  annAddr = annAddr
  techAddr = techAddr  botAddr = botAddr
  Public = Public  NoID = NoID  BadAddress = BadAddress
  Elsewhere = Elsewhere  ClientID = ClientID
  Actor <- MCActor
  Collection = {annF, bowieF, techF}
  Followers <- MCFollowers
  Address <- MCAddress
  AddressOf <- MCAddressOf
  Resolves <- MCResolves
  Local = {otl, bowie}
  Notes <- MCNotes
  Drafts <- MCDrafts
  Bcc = {{}, {bowie}}
  MaxNotes = 3
  MaxThreads = 1
  MaxSecond = 2
SPECIFICATION Spec
INVARIANTS TypeOK ThreadsHold ReplyReachesAll NoStrangers OneMail Answerable
CHECK_DEADLOCK FALSE
