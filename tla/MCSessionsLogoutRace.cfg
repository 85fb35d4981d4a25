CONSTANTS
  c1 = c1
  c2 = c2
  u1 = u1
  u2 = u2
  Clients = {c1}
  Users = {u1}
  Registered = {u1}
  NoUser = NoUser
  Kinds = {"whoami", "logout"}
  Faults = {}
  MaxRequests = 3
  PerClient = 2
SPECIFICATION Spec
INVARIANT LogoutClears
