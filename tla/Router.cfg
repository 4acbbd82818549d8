SPECIFICATION RSpec
CONSTANTS
  k1 = k1
  Keys = {k1, k2, k3}
  Dsts = {k1, k2, k3}
  Normal <- SameNormal
  Rules <- SomeRules
  Tables <- SomeTables
  Contents <- FileContents
  Readers = {p1, p2}
  Writers = {w1, w2}
  MaxSize = 2
  MaxVersion = 2
  MaxRoutes = 2
  NotFound = NotFound
  NoAnswer = NoAnswer
  NoDst = NoDst
CONSTRAINT Bounded
VIEW View
SYMMETRY Symmetry
INVARIANTS
  CacheCoherent
  ListMatchesMap
  ScanIsLoop
PROPERTIES
  ImplementsRouteTable
  SecondChance
