SPECIFICATION Spec
CONSTANTS
  Clients = {c1}
  Socks = {s1, s2}
  Agents = {g1}
  Actors = {a1}
  Pgs = {p1}
  G = G
  N0 = N0
  N1 = N1
  NoNode = NoNode
  DefaultGroup = DefaultGroup
  Groups <- OneGroup
  ClientGroup <- AllInGroup
  ClientNode <- OnFirstNode
  AgentGroup <- AgentsIn
  AgentNode <- AgentsOn
  AgentGpus <- OneGpu
  ActorName <- OwnNames
  BundleSpecs <- OneBundle
  ConnKinds = {TRUE}
  Grace = TRUE
  MaxReap = 2
  Faults = {"halfopen"}
SYMMETRY Symmetric
PROPERTIES ReapSparesConnected
