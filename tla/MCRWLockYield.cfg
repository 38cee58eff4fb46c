SPECIFICATION RRSpec
CONSTANTS
  Procs <- MCProcs3
  Flags <- MCFlags
  Signals = {"intr", "stop"}
  Requests <- MCRequests
  MaxDepth = 2
PROPERTIES
  ReadersYieldToWriters
