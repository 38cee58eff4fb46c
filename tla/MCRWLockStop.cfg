SPECIFICATION RRSpec
CONSTANTS
  Procs <- MCProcs
  Flags <- MCFlags
  Signals = {"intr", "stop"}
  Requests <- MCRequests
  MaxDepth = 2
INVARIANTS
  SleeperAnnounced
