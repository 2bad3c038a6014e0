SPECIFICATION Spec
CONSTANTS
  p1 = p1
  p2 = p2
  p3 = p3
  alice = alice
  bob = bob
  news = news
  Procs = {p1,p2}
  Ids = {alice,bob}
  Topics = {news}
  Lines <- WithJunk
  Kinds = {"plain", "float", "invalid"}
  MaxMsgs = 1
  MaxFd = 6
  MaxLines = 1
  ConsoleLines = {"exit", "other"}
CHECK_DEADLOCK FALSE
SYMMETRY Symmetry
INVARIANT IndInv
PROPERTY ImplementsBroker
