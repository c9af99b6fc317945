\* A tick of the flush under way when the signal arrives.
CONSTANTS
  Users = {u1, u2}
  Old = u2
  Limit <- MCLimit
  Lists <- MCLists
  Snapshots <- MCSnapshots
  Reqs = {r1}
  MaxMove = 1
  MaxTotal = 2
  MaxDay = 1
  MaxChanges = 0
  MaxRow = 0
SPECIFICATION Spec
INVARIANTS ShutdownKeepsStats
