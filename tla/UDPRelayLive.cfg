SPECIFICATION FairSpec
CONSTANTS
  Clients = {c1}
  Relays = {r1}
  Workers = {w1, w2}
  Keys = {k1}
  Entries = {e1}
  Rejected = {bad}
  NoEntry = NoEntry
  NoWorker = NoWorker
  JobQueueSize = 1
  MaxAssociations = 1
  MaxAssociationsPerClient = 1
  MaxNATEntries = 1
  MaxNATEntriesGlobal = 3
  MaxNATEntriesPerClient = 3
  IdleTimeout = 2
PROPERTIES
  TeardownCompletes
  EveryWaiterAnswered
  ReverseRelayEnds
  IdleFlowExpires
