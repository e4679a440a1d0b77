SPECIFICATION Spec
CONSTANTS
  x1 = x1  x2 = x2  u1 = u1  r1 = r1  r2 = r2  k1 = k1  k2 = k2
  Stopper = {x1}
  Submitter = {u1}
  Resumer = {r1, r2}
  Key = {k1, k2}
  MaxHandle = 3
  MaxCrash = 0
  MaxClose = 0
  DrainsTimeOut = FALSE
  LateRefusals = FALSE
  Modes = {"producing", "open"}
PROPERTIES RunningIsNotResumed
\* The session, its run and the server may all have come to rest.
CHECK_DEADLOCK FALSE
