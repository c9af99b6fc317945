\* Two attempts through any of the three doors, against one account from one
\* address; time enough for a lockout, the window after it and another lockout.
CONSTANTS
  Attempts = {a1, a2}
  Clients = {ip}
  Accounts = {name}
  None = None
  name = name
  Watched <- MCWatched
  MaxFails <- MCMaxFails
  Window <- MCWindow
  Lockout <- MCLockout
  MaxTime = 4
SPECIFICATION Spec
SYMMETRY Symmetry
INVARIANTS TypeOK
PROPERTIES LockoutHolds FailuresLock
