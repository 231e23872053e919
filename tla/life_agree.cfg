SPECIFICATION Spec
CONSTANTS
  Clis = {p1, p2}
  Commands = {"init", "client", "stop", "prune"}
  Alone = {"init"}
  Dirs = {d1, d2}
  Confs = {k1, k2}
  DefaultConf = k1
  Wanted = {"gitbase"}
  Faulty = {"list", "start", "kill", "save", "exit"}
  Down = Down
  NoFile = NoFile
  Torn = Torn
SYMMETRY Symmetry
INVARIANTS
  HonorsInit
  ComponentsAgree
PROPERTIES
  KeepsPromise
