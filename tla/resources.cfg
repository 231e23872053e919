SPECIFICATION MCSpec
CONSTANTS
  Clients = {p1, p2}
  Requests <- AllRequests
  Vols = {v1, v2}
  IndexVol = v1
  Faulty <- Faults
  Nil = Nil
CONSTRAINT Bounded
SYMMETRY Symmetry
INVARIANTS
  PruneTypeOK
  DependenciesFirst
  OnlyBblfshdStrays
  
