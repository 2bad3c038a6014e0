SPECIFICATION Spec
CONSTANTS
  STARTING_CAPACITY = 1
  MAX_NESTING = 1
  Names <- McNames
  Paths <- McPaths
  Strings <- McStrings
  Texts <- McTexts
  MaxValues = 3
  MaxContainers = 2
  MaxFuel = 100
VIEW View
CHECK_DEADLOCK FALSE
INVARIANT WellFormed
INVARIANT NothingLeaks
INVARIANT ParentsMatch
INVARIANT RoundTrip
INVARIANT CopyIsWhole
PROPERTY Contract
PROPERTY OnlyTheNamed
