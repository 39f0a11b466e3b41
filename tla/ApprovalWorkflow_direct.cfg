SPECIFICATION Spec
CONSTANTS
  c1 = c1
  c2 = c2
  c3 = c3
  c4 = c4
  maker = maker
  checker = checker
  admin = admin
  k1 = k1
  k2 = k2
  Users <- ApprovalUsers
  Granted <- ApprovalGrants
  Modules = {"platform", "crm"}
  Policies <- ApprovalPolicies
  Keys = {k1, k2}
  Calls = {c1, c2, c3}
  Commands <- DirectCommands
PROPERTIES
  DirectFailsClosed
