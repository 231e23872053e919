SPECIFICATION Spec
CONSTANTS
  Clis = {p1, p2}
  Commands = {"init", "client", "stop", "prune"}
  Alone = {"init"}
  Dirs = {d1, d2}
  Confs = {k1}
  DefaultConf = k1
  Wanted = {"gitbase"}
  Faulty = {"filter", "list", "start", "kill", "save", "exit", "crash"}
  Down = Down
  NoFile = NoFile
  Torn = Torn
SYMMETRY Symmetry
INVARIANTS
  TypeOK
  RecordsInit
