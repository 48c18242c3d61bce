CONSTANTS
  c1 = c1  c2 = c2
  ann = ann  dan = dan  nil = nil
  Conn = {c1, c2}
  Addr = {ann, dan, nil}
  Fingered = {ann, dan}
  MaxTxn <- MCMaxTxn
  MaxRcpt <- MCMaxRcpt
SPECIFICATION FairSpec
INVARIANTS TypeOK AnsweredMeansDelivered OnlyAcceptedRecipients AskedIsSuffix
PROPERTY DataIsAnswered
CHECK_DEADLOCK FALSE
