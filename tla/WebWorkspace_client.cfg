SPECIFICATION Spec
CONSTANTS
  x = x
  y = y
  a = a
  b = b
  c = c
  NoOne = NoOne
  NoTenant = NoTenant
  Identities = {x, y}
  Tenants = {a, b, c}
  InitialMembers <- Memberships
  MaxClicks = 4
INVARIANTS
  TypeInv
  UserLoadsShowSelection
  OwnCommandsShown
  BoardFollowsSelection
PROPERTIES
  LoadingEnds
  CommandsEnd
