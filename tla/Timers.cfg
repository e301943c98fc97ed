CONSTANTS
  t1 = t1
  t2 = t2
  NULL = NULL
  Timer = {t1, t2}
  NoTimer = NULL
  TickRange = 4
  Periods = {1, 2}
  Calls = {"stop", "changePeriod", "delete", "setReloadMode"}
  SendDelays = {0, 1}
  QueueLength = 1
  MaxStall = 1
  MaxOwed = 2
SPECIFICATION Spec
VIEW MCView
SYMMETRY TimerSymmetry
INVARIANTS TimersConsistent NeverEarly NeverLate
