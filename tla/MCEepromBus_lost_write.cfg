\* Three tasks, three writes to cells of their own.
SPECIFICATION BusSpec
CONSTANTS
  Task = {"COMM", "STORE_EEP", "NET"}
  Priority <- MCPriority
  Writes <- MCWrites
  Cells = 3
  NoCall = NoCall
  WriteCycle = "none"
  MaxCalls = 3
PROPERTY WritesLand
CHECK_DEADLOCK FALSE
