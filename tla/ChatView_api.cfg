\* Every function of the public API that changes anything, with any list.
SPECIFICATION Spec
CONSTANTS
  Users <- MCUsers
  Dates <- MCDates
  UnitsPerHour = 2
  Batches <- AnyBatches
  Calls = {"add", "diff", "clear", "scroll"}
  ScrollArgs = {TRUE, FALSE}
  MaxMessages = 3
  MaxScrolls = 2
INVARIANTS
  TypeOK
  RoundingFollowsSections
  SectionsAreRuns
  HeadersNameTheAuthor
  LongGapsAreDated
PROPERTY
  ImplementsFeed
\* An empty list, or a scroll after a clear, crashes the app.
CHECK_DEADLOCK FALSE
