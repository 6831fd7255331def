\* Names invented, edited, written back, refused and sent again, beside other devices.
SPECIFICATION FairSpec
CONSTANTS
  mine = mine
  theirs = theirs
  padded = padded
  NoName = NoName
  Blank = Blank
  Texts = {padded}
  Trimmed <- MCTrimmed
  OthersNames = {theirs}
  MaxObservers = 2
  MaxOthers = 1
  MaxTypes = 1
  MaxLeaves = 1
  MaxFaults = 1
INVARIANTS
  TypeOK
  QuietTextIsCurrent
  OwnLastWriteStands
PROPERTIES
  FoundNamesStand
  UntouchedKeepsName
  NamesConverge
CHECK_DEADLOCK FALSE
