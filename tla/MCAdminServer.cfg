\* One machine with two secrets, the requests of an operator, two changes by users
\* and tools, and one fault at any place.
SPECIFICATION MCSpec
CONSTANTS
  m1 = m1
  s1 = s1
  s2 = s2
  viewer = viewer
  operator = operator
  Nobody = Nobody
  Machines = {m1}
  Secrets = {s1, s2}
  Contents = {"idle", "busy"}
  Roles <- MCRoles
  Tokens = {viewer, operator}
  IdLists <- MCIdLists
  Nothing = Nobody
  MaxActs = 2
  MaxFaults = 1
PROPERTIES FleetConverges
INVARIANTS AuditTrail BatchTargetsExact LockedOutOnlyByChange
CHECK_DEADLOCK FALSE
