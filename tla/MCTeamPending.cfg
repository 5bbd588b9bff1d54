SPECIFICATION TeamSpec
CONSTANTS
  Owner = owner
  People = {owner, p1}
  Roles <- MCRoles
  Invitations = {i1, i2}
  Seats = 2
  MaxLinks = 1
  Doors = {}
  Strangers = {owner}
  Letters = {i1}
  OpenLinks = 1
  Views = {v1}
  Requests = {p1}
  References = {}
  MaxPrice = 1
  MaxMonth = 1
  Users = {u1}
  Subs = {s1}
  Emails = {e1}
  Invites = {j1}
  MaxRequests = 1
  CodeIds = {c1}
  Askers = {b1}
  Verifiers = {p1}
  MaxFailures = 1
  MaxTries = 1
  Tokens = {t1}
  Links = {g1}
  Clients = {p1}
  MaxPassword = 1
  Permissions = {x1}
  Assignments = {y1}
  Changers = {p1}
  Readers = {b1}
  None = None
SYMMETRY Symmetry
CHECK_DEADLOCK FALSE
INVARIANTS
  InvitationsHaveSeats
