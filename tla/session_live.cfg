SPECIFICATION MCFairSpec
CONSTANTS
  Names = {mysql}
  Ids = {i1, i2}
  Nets = {k1}
  Confs = {"query", "shell"}
  Nil = Nil
  Clis = {p1, p2}
  MysqlCli = mysql
  Modes = {"query", "shell"}
  Faulty = {}
  ShellClis = {p2}
PROPERTIES
  SessionEnds
  InterruptEnds
