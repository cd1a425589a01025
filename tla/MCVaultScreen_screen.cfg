CONSTANTS
  s1 = s1
  s2 = s2
  NoEntry = NoEntry
  NoSite = NoSite
  Sites <- MCSites
  MaxTasks = 4
  MaxFaults = 1
SPECIFICATION Spec
INVARIANTS ListRight ViewRight NeverStuck
SYMMETRY SiteSymmetry
