SPECIFICATION RRFairSpec
CONSTANTS
  Procs <- MCProcs
  Flags <- MCFlags
  Signals = {"intr", "stop"}
  Requests <- MCRequests
  MaxDepth = 2
INVARIANTS
  TypeOK
  WordMatchesHolders
  NoPanic
  QueuedAnnounced
  RecursionBalanced
PROPERTIES
  ImplementsLock
  QueuedWakes
