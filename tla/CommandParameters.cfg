SPECIFICATION CommandLineSpec
CONSTANTS
  Letter = {"f", "h"}
  Space = " "
  Newline = "LF"
  Return = "CR"
  Backspace = "BS"
  NUL = "NUL"
  End = 5
  Registered <- MCFixed
  Command <- MCFixedCommands
  HeapBlocks = 2
PROPERTY ImplementsEditor
