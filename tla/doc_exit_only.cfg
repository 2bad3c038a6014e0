SPECIFICATION FairSpec
CONSTANTS
  p1 = p1
  p2 = p2
  p3 = p3
  alice = alice
  bob = bob
  news = news
  Procs = {p1}
  Ids = {alice}
  Topics = {news}
  Lines <- KeepOnly
  Kinds = {"plain"}
  MaxMsgs = 1
  MaxFd = 5
  MaxLines = 1
  ConsoleLines = {}
CHECK_DEADLOCK FALSE
INVARIANT EndsOnlyByCommand
