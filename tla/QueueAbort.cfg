CONSTANTS
  idle = idle
  a = a
  b = b
  c = c
  Task <- MCTask
  Idle = idle
  EventList <- MCEventList
  MaxPriorities = 2
  InitPriority <- MCPriorities
  Late = {}
  Notifiable = {}
  Unordered = {}
  Resumable = {}
  TickRange = 4
  Uses <- MCAborts
SPECIFICATION QueueSpec
PROPERTIES FailsForItsOwnReason
