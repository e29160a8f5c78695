\* The schedule: one view, two kinds of write, two presses of each other's way, one
\* command that fails, two edits and two openings.  The store: two events of either
\* kind, three visits of its four readers.  The card: two configurations, one push
\* of each entity, five reads, three loads.  Changes and presses run out.
CONSTANTS
  Kinds = {"schedule"}
  MaxChanges = 3
  Viewers = {"card"}
  Writers = {"_writing", "_togglingExecution"}
  MaxWrites = 2
  MaxFailures = 1
  Ids = {r1, r2, r3, r4}
  None = None
  MaxEdits = 2
  MaxOpens = 2
  Unread = Unread
  MaxNews = 2
  MaxVisits = 3
  MaxConfigs = 2
  MaxPushes = 1
  MaxLoads = 5
  MaxTurns = 3
SPECIFICATION Spec
INVARIANTS CurrentWhenQuiet SharedInvariant
PROPERTIES ClosesOnItsOwnSuccess GivenOnlyCurrent
CHECK_DEADLOCK FALSE
