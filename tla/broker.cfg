SPECIFICATION Spec
CONSTANTS
  alice = alice
  bob = bob
  news = news
  Clients = {alice, bob}
  Topics = {news}
  Kinds = {"plain"}
  MaxMsgs = 4
SYMMETRY Symmetry
CHECK_DEADLOCK FALSE
INVARIANT AtMostOnce
