SPECIFICATION MCSpec
CONSTANTS
  Clients = {p1}
  Requests <- WebRequests
  Vols = {v1}
  IndexVol = v1
  Faulty = {"volume"}
  Nil = Nil
INVARIANT OkMeansStarted
