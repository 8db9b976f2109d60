SPECIFICATION ServicesSpec
CONSTANTS
  Users = {u1, u2}
  Callers = {c1, c2}
  Names <- MCNames
  Base <- MCBase
  DefaultNames <- MCDefaults
  Creators = {c1, c2}
  Owners = {u1, u2}
  Requests = {r1, r2}
  Hour = 1
  MaxPerHour = 2
  MaxTokens = 3
  Sockets = {s1, s2}
  Keys = {k1, k2}
  MaxKeys = 1
  History = 1
  MaxPublished = 3
  MaxSessions = 2
  Jobs = {j1}
  MaxRetries = 1
  StaleAfter = 3
  StartStaleAfter = 3
  MaxRequeues = 1
  Containers = {c1, c2}
  MaxMissed = 2
  Procs = {p1, p2}
  Values = {v1, v2}
  MaxIds = 3
INVARIANTS
  ServicesTypeOK
  RateBounded
  LiveBounded
  RedeemedBounded
  DefaultsPresent
  HeldBounded
  AssignmentsSound
  ActiveBounded
  CountsAddUp
  Deduplicates
  OverlapOnlyAfterRequeue
  OneIdUnlessRace
  SplitOnlyByRow
  NobodyLogsIn
PROPERTIES
  SlugRefusedOnlyByRace
  KeepsLifecycle
  AttendedNotRequeued
CHECK_DEADLOCK FALSE
