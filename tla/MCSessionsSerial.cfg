CONSTANTS
  c1 = c1
  c2 = c2
  u1 = u1
  u2 = u2
  Clients = {c1}
  Users = {u1, u2}
  Registered = {u1}
  NoUser = NoUser
  Kinds = {"whoami", "forward", "logout"}
  Faults = {"db_error", "disconnect"}
  MaxRequests = 4
  PerClient = 1
SPECIFICATION Spec
INVARIANT LogoutClears
PROPERTIES ImplementsBrowserSession LoginSticks
