SPECIFICATION Spec
CONSTANTS
  t1 = t1
  t2 = t2
  hookA = hookA
  hookB = hookB
  r1 = r1
  r2 = r2
  r3 = r3
  Triggers = {t1, t2}
  Paths = {hookA, hookB}
  Specs <- MCSpecs
  path <- MCPath
  maxPerMinute <- MCMaxPerMinute
  SecretRef = {"signed"}
  Blocked = {"blocked"}
  Secrets = {"v1", "v2"}
  NoPath = NoPath
  NoSecret = NoSecret
  NoRoute = NoRoute
  NoWork = NoWork
  Requests = {r1, r2, r3}
  Minute = 2
  MaxClock = 3
  Budgets <- MCBudgets
SYMMETRY MCSymmetry
INVARIANTS
  StatusIsRight
  PathClosedWhileDeleting
  RateLimitRespected
PROPERTIES
  RouteKept
CHECK_DEADLOCK FALSE
