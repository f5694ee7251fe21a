SPECIFICATION Spec
CONSTANTS
  Clients = {c1}
  Socks = {s1}
  Agents = {g1, g2}
  Actors = {}
  Pgs = {p1, p2, p3}
  G = G
  N0 = N0
  N1 = N1
  NoNode = NoNode
  DefaultGroup = DefaultGroup
  Groups <- OneGroup
  ClientGroup <- AllInGroup
  ClientNode <- OnFirstNode
  AgentGroup <- AgentsIn
  AgentNode <- AgentsApart
  AgentGpus <- TwoGpus
  ActorName <- OwnNames
  BundleSpecs <- SomeBundles
  ConnKinds = {TRUE}
  Grace = FALSE
  MaxReap = 2
  Faults = {"cut"}
INVARIANTS NoDoubleAlloc PlacedWhenFits
SYMMETRY Symmetric
PROPERTIES LedgerSpec
