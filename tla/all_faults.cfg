SPECIFICATION Spec
CONSTANTS
  Names = {n1}
  Ids = {i1, i2, i3}
  Nets = {k1, k2}
  Confs = {c1, c2}
  Procs = {p1, p2}
  Nil = Nil
  Faulty <- Faults
SYMMETRY Symmetry
INVARIANTS
  TypeOK
  StartsItsOwn
PROPERTY
  ImplementsSlot
