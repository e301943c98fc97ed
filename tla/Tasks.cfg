CONSTANTS
  idle = idle
  a = a
  b = b
  event1 = event1
  Task <- MCTask
  Idle = idle
  EventList = {event1}
  MaxPriorities = 2
  InitPriority <- MCPriorities
  Late = {}
  Waiter = {a, b}
  Notifiable = {}
  Unordered = {}
  Resumable <- MCTask
  TickRange = 3
  BlockTimes = {1, 2}
  MaxPendedTicks = 1
  MaxNesting = 1
SPECIFICATION Spec
INVARIANTS TypeOK ReadyLists WaitersBlocked WakeOnTime UnblockTimeNotLate PendedWorkDrained HighestPriorityRuns
PROPERTIES WakeNotEarly SuspendedListsFrozen ImplementsKernel
SYMMETRY MCSymmetry
