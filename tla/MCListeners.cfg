CONSTANTS
  p1 = p1
  p2 = p2
  p3 = p3
  None = None
  Addrs <- MCAddrs
  Contested = {p3}
  Default <- MCDefault
  Handlers = {h1, h2}
SPECIFICATION Spec
SYMMETRY Symmetry
INVARIANTS ListenersServe NoLeakedListener ChangesApplied
PROPERTIES MovesArePersisted
