SPECIFICATION Spec
CONSTANTS
  Names = {mysql}
  Ids = {i1, i2, i3}
  Nets = {k1}
  Confs = {"query", "shell"}
  Nil = Nil
  Clis = {p1, p2}
  MysqlCli = mysql
  Modes = {"query", "shell"}
  Faulty <- Faults
  ShellClis = {p1, p2}
SYMMETRY Symmetry
INVARIANTS
  TypeOK
  QueryIsHonest
  NoClientLeft
PROPERTIES
  ImplementsSlot
