\* One request against one account while the rules change, a save fails and the
\* process restarts; a second user only multiplies configurations.
CONSTANTS
  Reqs = {r1}
  Users = {u1}
  Hosts = {a, b}
  Patterns = {pa, pab, blank}
  Blanks = {blank}
  a = a
  b = b
  pa = pa
  pab = pab
  blank = blank
  Matches <- MCMatches
  NoUser = NoUser
  NoConfig = NoConfig
  GlobalBodies <- MCGlobalBodies
  UserBodies <- MCUserBodies
SPECIFICATION Spec
INVARIANTS RulesCurrent
PROPERTIES VerdictConsistent BlockedStaysBlocked
