CONSTANTS
  b1 = b1
  t1 = t1
  u1 = u1
  u2 = u2
  None = None
  Browsers <- MCBrowsers
  Clis <- MCClis
  Users <- MCUsers
  Lifetime = 1
  SweepEvery = 1
  MaxLogins = 2
  MaxRestarts = 1
  MaxFaults = 1
SPECIFICATION Spec
INVARIANTS RightVault LoggedOutIsGone SessionsEnd
SYMMETRY UserSymmetry
