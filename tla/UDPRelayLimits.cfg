SPECIFICATION Spec
CONSTANTS
  Clients = {c1, c2}
  Relays = {r1, r2}
  Workers = {w1}
  Keys = {k1}
  Entries = {e1, e2}
  Rejected = {}
  NoEntry = NoEntry
  NoWorker = NoWorker
  JobQueueSize = 1
  MaxAssociations = 2
  MaxAssociationsPerClient = 1
  MaxNATEntries = 1
  MaxNATEntriesGlobal = 2
  MaxNATEntriesPerClient = 1
  IdleTimeout = 1
SYMMETRY Symmetry
VIEW View
CONSTRAINTS
  Timeless
  OneQueued
INVARIANTS
  NATAccounting
  NATWithinLimits
  AssociationAccounting
