CONSTANTS
  Channels = {mic}
  Conns = {k1, k2, k3}
  Gens = {g1, g2}
  Rest = rest
  Window = 1
  MaxFrames = 2
  Scenarios <- MCScenarios
SPECIFICATION Spec
SYMMETRY Identities
INVARIANTS StoreSound EndedMeansStored FedOnce
PROPERTIES PathImplements
CHECK_DEADLOCK FALSE
