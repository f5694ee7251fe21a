SPECIFICATION Spec
CONSTANTS
  Clients = {c1, c2}
  Socks = {s1, s2}
  Agents = {g1}
  Actors = {a1, a2}
  Pgs = {p1, p2}
  G = G
  N0 = N0
  N1 = N1
  NoNode = NoNode
  DefaultGroup = DefaultGroup
  Groups <- OneGroup
  ClientGroup <- AllInGroup
  ClientNode <- OnFirstNode
  AgentGroup <- AgentsIn
  AgentNode <- AgentsOn
  AgentGpus <- OneGpu
  ActorName <- OwnNames
  BundleSpecs <- OneBundle
  ConnKinds = {TRUE}
  Grace = FALSE
  MaxReap = 2
  Faults = {"restart"}
INVARIANTS NoDoubleAlloc ProcessKeepsDevices NoOrphanProcess
SYMMETRY Symmetric
