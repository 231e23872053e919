SPECIFICATION FairSpec
CONSTANTS
  Pings = {s1, s2, s3}
  Faults = {"conn", "docker", "exit"}
  Nil = Nil
\* A process that has ended makes no more steps.
CHECK_DEADLOCK FALSE
INVARIANTS
  TypeOK
  ReadyIsAnswered
PROPERTIES
  PingsLeaveItRunning
  WaitEnds
