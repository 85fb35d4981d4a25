CONSTANTS
  c1 = c1
  c2 = c2
  u1 = u1
  u2 = u2
  Clients = {c1}
  Users = {u1}
  Registered = {}
  NoUser = NoUser
  Kinds = {"whoami", "oidc"}
  Faults = {}
  MaxRequests = 2
  PerClient = 2
SPECIFICATION Spec
INVARIANT ExternalLoginNeverFails
