\* The way the app uses the component: diffMessages with sorted, seen lists, and
\* scrollToBottom at any time.
SPECIFICATION FairSpec
CONSTANTS
  Users <- MCUsers
  Dates <- MCDates
  UnitsPerHour = 2
  Batches <- SortedBatches
  Calls = {"diff", "scroll"}
  ScrollArgs = {TRUE}
  MaxMessages = 3
  MaxScrolls = 2
INVARIANTS
  NoTrap
PROPERTY
  BuildsReturn
