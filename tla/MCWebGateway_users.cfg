CONSTANTS
  p1 = p1
  p2 = p2
  u1 = u1
  u2 = u2
  r1 = r1
  r2 = r2
  r3 = r3
  r4 = r4
  l1 = l1
  l2 = l2
  q1 = q1
  None = None
  Torn = Torn
  Procs <- MasterAndWeb
  Web = p2
  Users <- MCUsers
  Regs <- MCRegs4
  RegUser <- MCRegUser
  Logins <- MCLogins
  Requests <- MCRequests
  MaxFaults = 2
SPECIFICATION UsersSpec
INVARIANTS RegisteredStays OneVaultKey  AccountsKey 
SYMMETRY LoginSymmetry
CHECK_DEADLOCK FALSE
