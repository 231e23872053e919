SPECIFICATION Spec
CONSTANTS
  Names = {n1}
  Ids = {i1, i2, i3, i4}
  Nets = {k1, k2, k3}
  Confs = {c1}
  Procs = {p1, p2, p3}
  Nil = Nil
  Faulty <- EarlyFaults
SYMMETRY Symmetry
INVARIANTS
  Converges
  NoStrayContainer
