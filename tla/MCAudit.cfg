\* Two handlers; a file that is rotated at the fourth line, a window that starts
\* now at a line and now within one.
CONSTANTS
  Handlers = {h1, h2}
  None = None
  LineLen = 3
  FileMax = 8
  MaxRead = 6
  Limits = {1, 5}
  MaxActions = 4
  MaxFaults = 1
SPECIFICATION Spec
SYMMETRY Symmetry
INVARIANTS AckedRecorded AuditDurable RecentExact AuditBounded
PROPERTIES AuditRecovers
