\* A user without traffic on record and one with; a request that may count twice,
\* the first time using up its quota of 1; one midnight.
CONSTANTS
  Users = {u1, u2}
  Old = u2
  Limit <- MCLimit
  Lists <- MCLists
  Snapshots <- MCSnapshots
  Reqs = {r1}
  MaxMove = 1
  MaxTotal = 2
  MaxDay = 2
  MaxChanges = 1
  MaxRow = 2
SPECIFICATION Spec
INVARIANTS StatsConserved ViewNeverInflated DailyExact
PROPERTIES AdmittedUnderQuota
