CONSTANTS
  None = None
  Stub = Stub
  a = a
  b = b
  c = c
  Places = {a, b, c}
  Dirs = {"n", "s"}
  Worlds <- MCWorlds
  Stored <- MCStored
  Title <- MCTitle
  Dark = {c}
  MaxSends = 3
SPECIFICATION Spec
INVARIANTS  TrailIsTrue ReplayOnRoute
CHECK_DEADLOCK FALSE
