CONSTANTS
  idle = idle
  a = a
  b = b
  event1 = event1
  Task <- MCTask
  Idle = idle
  EventList = {event1}
  MaxPriorities = 2
  InitPriority <- MCPriorities
  Late = {}
  Waiter = {b}
  Notifiable = {a}
  Unordered = {event1}
  Resumable = {}
  TickRange = 3
  BlockTimes = {1}
  MaxPendedTicks = 0
  MaxNesting = 1
SPECIFICATION Spec
INVARIANTS EventItemsKept NotifiedIsAwake
PROPERTIES ImplementsKernel
