CONSTANTS
  idle = idle
  a = a
  b = b
  event1 = event1
  Task <- MCTask
  Idle = idle
  EventList = {}
  MaxPriorities = 1
  InitPriority <- MCOnePriority
  Late = {b}
  Waiter = {}
  Notifiable = {}
  Unordered = {}
  Resumable <- MCTask
  TickRange = 3
  BlockTimes = {2}
  MaxPendedTicks = 1
  MaxNesting = 1
SPECIFICATION FairSpec
PROPERTIES DelayEnds TimeSliced DeletedIsFreed
