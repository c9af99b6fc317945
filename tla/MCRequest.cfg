\* Two handlers and one slot: while one serves, the other is refused or waits
\* for connMu, and takes the slot when it comes back.
CONSTANTS
  Reqs = {r1, r2}
  Users = {u1}
  NoUser = NoUser
  NoReq = NoReq
  MaxGlobalVals = {1}
  DefaultMaxVals = {1}
  UserMaxVals = {0}
SPECIFICATION RSpec
INVARIANTS CleanEnd
PROPERTIES EventuallyDecided TunnelReturnsSlot ForwardReturnsSlot
