SPECIFICATION Spec
CONSTANTS
  p1 = p1
  p2 = p2
  p3 = p3
  alice = alice
  bob = bob
  news = news
  Procs = {p1,p2,p3}
  Ids = {alice,bob}
  Topics = {news}
  Lines <- KeepOnly
  Kinds = {"plain"}
  MaxMsgs = 1
  MaxFd = 6
  MaxLines = 1
  ConsoleLines = {}
CHECK_DEADLOCK FALSE
SYMMETRY Symmetry
INVARIANT RegistryConsistent
INVARIANT ReadyStaysReady
INVARIANT MeantAndOnce
INVARIANT OnlyRefusedLeak
PROPERTY SubscriptionsSurvive
