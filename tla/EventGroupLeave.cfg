CONSTANTS
  idle = idle
  a = a
  b = b
  c = c
  x = x
  y = y
  z = z
  Task <- MCTask
  Idle = idle
  EventList <- MCList
  Unordered <- MCList
  MaxPriorities = 4
  InitPriority <- MCPriorities
  Late = {}
  Notifiable = {}
  Resumable = {}
  TickRange = 4
  Bit = {x, y, z}
  Programs <- MCLeavers
SPECIFICATION EventGroupSpec
PROPERTIES RendezvousOfAll
