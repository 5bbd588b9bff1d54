SPECIFICATION TeamSpec
CONSTANTS
  Owner = owner
  People = {owner, p1, p2}
  Roles <- MCRoles
  Invitations = {i1, i2}
  Seats = 2
  MaxLinks = 1
  Doors = {}
  Strangers = {owner, q1}
  Letters = {i1}
  OpenLinks = 2
  Views = {v1}
  Requests = {p1, p2}
  References = {}
  MaxPrice = 2
  MaxMonth = 1
  Users = {u1, u2}
  Subs = {s1, s2}
  Emails = {e1, e2}
  Invites = {j1, j2}
  MaxRequests = 3
  CodeIds = {c1, c2}
  Askers = {b1, b2}
  Verifiers = {p1, p2}
  MaxFailures = 1
  MaxTries = 2
  Tokens = {t1, t2, t3}
  Links = {g1}
  Clients = {p1, p2}
  MaxPassword = 2
  Permissions = {x1}
  Assignments = {y1, y2}
  Changers = {p1, p2}
  Readers = {b1}
  None = None
SYMMETRY Symmetry
CHECK_DEADLOCK FALSE
INVARIANTS
  SeatsWithinPlan
  RolesAgree
  OpenDoorsKept
  ChargesAgreedAndPaidOnce
  AccountsHold
  CodesAndSessionsHold
  AccessFollowsRoles
PROPERTIES
  InvitationsEndOnce
