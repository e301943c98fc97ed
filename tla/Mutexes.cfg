CONSTANTS
  idle = idle
  low = low
  mid = mid
  high = high
  m1 = m1
  m2 = m2
  NULL = NULL
  Task <- MCTask
  Idle = idle
  EventList <- MCMutex
  MaxPriorities = 4
  InitPriority <- MCPriorities
  Late = {}
  Notifiable = {}
  Unordered = {}
  Resumable = {}
  TickRange = 3
  WaitTimes = {0, 1, 2}
  DelayTimes = {1}
SPECIFICATION MutexSpec
INVARIANTS MutexConsistent PriorityGivenBack
PROPERTIES LentWhileNeeded
SYMMETRY MCSymmetry
VIEW MCView
