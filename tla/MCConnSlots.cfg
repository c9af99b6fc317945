\* Three handlers, so that two can race for one slot while a third holds or
\* gives back another; two users; caps at and below the
\* number of handlers, and a default per-user cap below every global one, so that
\* each of the two tests is the one that refuses somewhere.
CONSTANTS
  Reqs = {r1, r2, r3}
  Users = {u1, u2}
  NoUser = NoUser
  NoReq = NoReq
  MaxGlobalVals = {2, 3}
  DefaultMaxVals = {1}
  UserMaxVals = {0, 2}
SPECIFICATION Spec
SYMMETRY Symmetry
INVARIANTS TypeOK CountersExact CapsRespected
PROPERTIES AdmissionWithinOwnCap CapSpec
