\* Two tabs of one browser, two sessions, two requests at a time.
SPECIFICATION Spec
CONSTANTS
  None = None
  Refused = Refused
  Tabs = {t1, t2}
  Sessions = {s1, s2}
  Calls = {k1, k2}
  MaxUpsets = 1
SYMMETRY Symmetry
INVARIANTS
  SessionTypeOK
  LoggedInIsShown
  LogoutForgets
PROPERTIES
  LogoutEndsTheSession
CHECK_DEADLOCK FALSE
