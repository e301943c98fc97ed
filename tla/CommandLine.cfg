SPECIFICATION CommandLineSpec
CONSTANTS
  Letter = {"f", "h"}
  Space = " "
  Newline = "LF"
  Return = "CR"
  Backspace = "BS"
  NUL = "NUL"
  End = 5
  Registered <- MCRegistered
  Command <- MCCommands
  HeapBlocks = 2
INVARIANTS CommandLineConsistent
PROPERTY ImplementsEditor
