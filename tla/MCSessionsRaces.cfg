CONSTANTS
  c1 = c1
  c2 = c2
  u1 = u1
  u2 = u2
  Clients = {c1, c2}
  Users = {u1, u2}
  Registered = {u1}
  NoUser = NoUser
  Kinds = {"whoami", "oidc", "logout"}
  Faults = {}
  MaxRequests = 4
  PerClient = 3
SPECIFICATION Spec
INVARIANTS LoginProvenance OwnSession
