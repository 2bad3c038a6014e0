SPECIFICATION FairSpec
CONSTANTS
  Users <- McUsers
  PageWords <- McPages
  IntMod = 8
  Symbols <- McSymbols
  Answers <- McAnswers
  ReqLen = 2
  BUFLEN = 4
  SizeMod = 256
  MaxFds = 4
CHECK_DEADLOCK FALSE
INVARIANT IndInv
INVARIANT WholeAnswer
INVARIANT MisledOnlyIfCut
INVARIANT MixedOnlyWithoutLogout
INVARIANT PagesAsTyped
INVARIANT EndsForAReason
PROPERTY CredentialsAreGiven
PROPERTY CommandEnds
