CONSTANTS
  t1 = t1
  t2 = t2
  p1 = p1
  None = None
  Tabs = {t1, t2}
  ProfileOf <- MCProfileOf
  MaxFrames = 1
  MinRows = 2
  MaxIds = 2
  MaxPins = 1
  MaxQueue = 1
SYMMETRY Symmetry
SPECIFICATION Spec
INVARIANTS ShowsWhatIsAsked ArmedHasTimer
PROPERTIES PinsGoWithFrame ImplementsNavMemory
