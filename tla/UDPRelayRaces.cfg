SPECIFICATION Spec
CONSTANTS
  Clients = {c1}
  Relays = {r1}
  Workers = {w1, w2}
  Keys = {k1, k2}
  Entries = {e1, e2, e3}
  Rejected = {}
  NoEntry = NoEntry
  NoWorker = NoWorker
  JobQueueSize = 1
  MaxAssociations = 1
  MaxAssociationsPerClient = 1
  MaxNATEntries = 1
  MaxNATEntriesGlobal = 3
  MaxNATEntriesPerClient = 3
  IdleTimeout = 1
SYMMETRY Symmetry
VIEW View
CONSTRAINT Timeless
INVARIANTS
  FlowsWithinLimit
  NoStrandedSocket
  NothingOutlivesHandler
  ClosedFlowIsLeaving
  InstallHasNoRival
  NoCrossTalk
