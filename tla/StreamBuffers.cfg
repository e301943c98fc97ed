CONSTANTS
  idle = idle
  writer = writer
  reader = reader
  NULL = NULL
  Task <- MCTask
  Idle = idle
  EventList = {}
  Unordered = {}
  MaxPriorities = 2
  InitPriority <- MCEqual
  Late = {}
  Notifiable = {writer, reader}
  Resumable = {}
  TickRange = 3
  Uses <- MCUses
  Numbers = 6
SPECIFICATION StreamSpec
INVARIANTS StreamConsistent
PROPERTIES ImplementsStream
VIEW MCView
