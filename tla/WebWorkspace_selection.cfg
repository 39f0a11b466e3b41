SPECIFICATION Spec
CONSTANTS
  x = x
  y = y
  a = a
  b = b
  c = c
  NoOne = NoOne
  NoTenant = NoTenant
  Identities = {x}
  Tenants = {a, b}
  InitialMembers <- OneMember
  MaxClicks = 3
INVARIANTS
  ReadyShowsSelection
