SPECIFICATION Spec
CONSTANTS
  r1 = r1 r2 = r2
  Req = {r1, r2}
  LogBody = FALSE
  QueueCap = 2
SYMMETRY Symmetric
INVARIANT EveryExecutionIsLogged
