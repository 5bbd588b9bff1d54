SPECIFICATION ProcessesSpec
CONSTANTS
  c1 = c1
  c2 = c2
  c3 = c3
  k1 = k1
  k2 = k2
  b1 = b1
  b2 = b2
  Workers = {w1, w2}
  Clients <- MCClients
  Keys <- MCKeys
  Bodies <- MCBodies
  KeyOf <- MCKeyOf
  BodyOf <- MCBodyOf
  MaxCrashes = 1
  Notices = {n1, n2}
  Editors = {e1}
  BatchSize = 1
  MaxEdits = 1
  Messages = {g1}
  Deliveries = {d1}
  MaxAttempts = 2
  Addresses = 2
  MaxDeaths = 1
  Events = {"activated", "pending"}
  MaxEvents = 2
  MaxSubs = 2
  Writers = {w1}
  None = None
CHECK_DEADLOCK FALSE
INVARIANTS
  NoLostUpdate
  ReceiptsTell
  SentOnce
  StatusFollowsProvider
PROPERTIES
  ImplementsExactlyOnce
  CommandsAnswered
  WorkGetsDone
