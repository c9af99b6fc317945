\* Two calls racing for the one entry of the cache, and for the account that a
\* password change, a deletion or an import replaces meanwhile.  Sessions do not
\* interact: following one token is enough.
CONSTANTS
  Names = {n1}
  Passwords = {p, q}
  Calls = {c1, c2}
  None = None
  CacheMax = 1
  MaxSalt = 2
  MaxLife = 2
  MaxKey = 2
  MaxTokens = 1
SPECIFICATION Spec
SYMMETRY Symmetry
INVARIANTS SessionsFollowPassword BasicExact CacheBounded
