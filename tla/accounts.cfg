SPECIFICATION Spec
CONSTANTS
  p1 = p1
  p2 = p2
  n1 = n1
  n2 = n2
  People = {p1, p2}
  Names = {n1, n2}
  Clients = {c1, c2}
  Server = server
  FirstUsers <- OldFile
  Faults = TRUE
SYMMETRY Launchers
INVARIANTS
  NoOrphans
  StaleIdsNameNobodyElse
  LoginFindsOwner
  RightRoles
