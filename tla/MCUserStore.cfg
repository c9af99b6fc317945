\* Two handlers, so that one can commit between the lookup and the
\* transaction of the other; three accounts, so that a delete moves two.
CONSTANTS
  Handlers = {h1, h2}
  IDs = {"i1", "i2", "i3"}
  Names <- MCNames
  Key <- MCKey
  TrimKey <- MCTrimKey
  DefaultName = "admin"
  Idle = Idle
  Keep = Keep
  Nobody = Nobody
  CreateBodies <- MCCreateBodies
  UpdateBodies <- MCUpdateBodies
  Docs <- MCDocs
  MaxUsers = 3
SPECIFICATION Spec
INVARIANTS TypeOK UniqueUsers AdminRemains LookupCorrect
