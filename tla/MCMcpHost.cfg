SPECIFICATION Spec
CONSTANTS
  Servers = {s1, s2}
  Runs = {r1}
  SkillsOn = {s1}
  MaxConns = 9
  MaxRequests = 1
  MaxUpsets = 2
INVARIANTS
  ConnectionsAreKept
  RunsKeepTheirTools
CHECK_DEADLOCK FALSE
PROPERTIES
  CrashIsFollowedUp
