CONSTANTS
  idle = idle
  a = a
  b = b
  event1 = event1
  Task <- MCTask
  Idle = idle
  EventList = {}
  MaxPriorities = 2
  InitPriority <- MCPriorities
  Late = {}
  Waiter = {}
  Notifiable = {a}
  Unordered = {}
  Resumable = {a}
  TickRange = 3
  BlockTimes = {1}
  MaxPendedTicks = 1
  MaxNesting = 1
SPECIFICATION Spec
INVARIANTS EventItemFree
