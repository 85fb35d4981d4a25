CONSTANTS
  c1 = c1
  c2 = c2
  u1 = u1
  u2 = u2
  Clients = {c1}
  Users = {u1}
  Registered = {u1}
  NoUser = NoUser
  Kinds = {"whoami", "page", "password", "logout"}
  Faults = {"db_error", "disconnect", "expiry", "operator"}
  MaxRequests = 3
  PerClient = 2
SPECIFICATION Spec
INVARIANTS TypeOK CsrfAgreement LoginProvenance
PROPERTY RetiredForGood
