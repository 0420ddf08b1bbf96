SPECIFICATION Spec
CONSTANTS
  idle = idle
  hi = hi
  lo = lo
  mid = mid
  e1 = e1
  e2 = e2
  g1 = g1
  m1 = m1
  m2 = m2
  Task = {idle, hi, mid, lo}
  Idle = idle
  LowestPrio = 4
  Event = {e1, e2}
  Group = {g1}
  Bit = {1, 2}
  Msg = {m1, m2}
  MaxTicks = 1
  MaxLock = 1
  MaxCnt = 1
  QSize = 2
  At <- MCAt
  Profiles <- MCProfiles
VIEW MCView
CHECK_DEADLOCK FALSE
INVARIANTS
  TablesAgree
  WaitListsMatch
  NothingWaitsInVain
  InheritedPriority
  MostUrgentRunsWithoutMutex
PROPERTIES
  KernelSpec
